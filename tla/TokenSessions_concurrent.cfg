SPECIFICATION Spec
CONSTANTS
    r1 = r1
    r2 = r2
    c1 = c1
    c2 = c2
    Requests = {r1, r2}
    Chains = {c1, c2}
    NoChain = NoChain
    MaxRequests = 3
    Second = 2
    AccessLife = 1
    RefreshLife = 2
    MaxClock = 7
    Faults = {"crash"}
SYMMETRY Symmetry
INVARIANTS
    TypeOK
    SurvivorsWereInFlight
    ReplayOnlyInLastSecond
    OneUsableTokenPerChain
    OneActiveRowPerChain
PROPERTIES
    DeadStaysDead
CHECK_DEADLOCK FALSE
