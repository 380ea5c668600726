SPECIFICATION Spec
CONSTANTS
    j1 = j1
    j2 = j2
    d1 = d1
    d2 = d2
    NoBundle = NoBundle
    Jobs = {j1, j2}
    Bundles = {d1, d2}
    Limits = {1, 2}
    Faults = {"crash"}
INVARIANTS
    ProcessHasItsFiles
