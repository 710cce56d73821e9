SPECIFICATION Spec
CONSTANTS
    r1 = r1
    r2 = r2
    Requests = {r1, r2}
    MaxCompanies = 2
    MaxRequests = 4
SYMMETRY Symmetry
INVARIANTS
    EveryGroupHasARoot
CHECK_DEADLOCK FALSE
