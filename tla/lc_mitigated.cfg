SPECIFICATION Spec
CONSTANTS
    f1 = f1
    f2 = f2
    t1 = t1
    t2 = t2
    Scans = {1, 2, 3}
    Findings = {f1}
    Targets = {}
    Features = {"fail"}
    Interrupted = {1, 2, 3}
CHECK_DEADLOCK FALSE
INVARIANTS
    MitigatedMeansAbsent
