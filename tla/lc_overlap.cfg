SPECIFICATION Spec
CONSTANTS
    f1 = f1
    f2 = f2
    t1 = t1
    t2 = t2
    Scans = {1, 2, 3}
    Findings = {f1}
    Targets = {t1}
    Features = {"overlap", "retry", "fail", "cancel", "triage", "delete", "midrun", "import", "target"}
    Interrupted = {2}
CHECK_DEADLOCK FALSE
INVARIANTS
    PointersSound
    CoveringSound
    NewsIsToldOnce
PROPERTIES
    EvidenceAdvances
