SPECIFICATION ConfigSpec
CONSTANTS
    NodeIds = {1, 2, 3}
    Admins = {u1, u2}
    Payloads <- MCPayloads
    Seeds <- MCSeeds
    Addresses = {0, 1, 2, 3}
    Targets <- MCTargets
    NoNode = NoNode
    Replicas = {r1, r2}
    Sources = {"A", "B"}
    Off = "off"
    Ids = {"t", "u"}
    CustomIds = {"u"}
    NoRow = NoRow
    MaxSwitches = 1
    MaxFaults = 1
    Releases <- MCReleases
    TemplateIds = {"t", "u"}
    Bodies = {1, 2}
    Empty = 0
    SetNames = {"s", "r"}
    Edited = {"s"}
    NoName = NoName
    NoSet = NoSet
    NoWrite = NoWrite
    Snapshots <- MCSnapshots
    Archives <- MCArchives
    Candidates <- MCCandidates
INVARIANTS
    RegistryIsSound
    SelectionIsSound
    SwitchIsQueued
    SelectionInBundle
    PreviewForetells
PROPERTIES
    CustomIsNeverReplaced
    MirrorSettles
    ExclusionsOutlastTheCatalog
    ArchivesAreFaithful
