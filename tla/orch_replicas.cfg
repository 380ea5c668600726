SPECIFICATION Spec
CONSTANTS
    s1 = s1
    s2 = s2
    b1 = b1
    b2 = b2
    Scans = {s1}
    Replicas = {b1, b2}
    Limit = 1
    MaxCatalog = 2
    PerScan = 2
    Archiving = TRUE
    Faults = {"crash", "db", "net", "store", "node", "stream"}
SYMMETRY ReplicaSymmetry
VIEW WithoutArchive
INVARIANTS
    TreeMatchesRunningJobs
    CompleteMeansIngested
