SPECIFICATION EvidenceSpec
CONSTANTS
    f1 = f1
    t1 = t1
    Scans = {1, 2, 3, 4}
    Findings = {f1}
    Targets = {}
    Features = {"cancel", "retry", "skip", "delete", "triage"}
    Interrupted = {1, 2, 3, 4}
    LastDay = 4
    Sweepers = {r1, r2}
    SavedTargets = {t1}
    Loose = Loose
    Policies <- MCPolicies
    MaxDays = 2
    SweepCap = 1
    NoScan = NoScan
    Records = {1, 2}
    Servers = {v1, v2}
    OwnId = OwnId
    FreshIds = {i1}
    MaxFindings = 2
    MaxDownloads = 2
    NoLocal = NoLocal
    NoImport = NoImport
    Lines <- MCLines
    Templates = {"x", "y"}
    Foreign = "?"
    Hosts = {"a", "b"}
    NoEndpoint = NoEndpoint
    MaxPairs = 2
    MaxLines = 3
SYMMETRY Replicas
CHECK_DEADLOCK FALSE
INVARIANTS
    HistoryExplainsRow
    RetentionIsCareful
    ImportedCompleteIsWhole
    CoverageIsProven
PROPERTIES
    DigestTellsHistory
