SPECIFICATION FairSpec
CONSTANTS
    s1 = s1
    s2 = s2
    b1 = b1
    b2 = b2
    Scans = {s1, s2}
    Replicas = {b1}
    Limit = 1
    MaxCatalog = 1
    PerScan = 1
    Archiving = FALSE
    Faults = {"node", "crash"}
INVARIANTS
    LiveRowHasDriver
PROPERTIES
    EventuallyReported
