SPECIFICATION Spec
CONSTANTS
    r1 = r1
    c1 = c1
    c2 = c2
    Requests = {r1}
    Chains = {c1, c2}
    NoChain = NoChain
    MaxRequests = 5
    Second = 2
    AccessLife = 1
    RefreshLife = 2
    MaxClock = 3
    Faults = {}
SYMMETRY ChainSymmetry
INVARIANTS
    MirrorAgrees
    LoggedOutTokenIsDead
PROPERTIES
    RevokeAllTakesEffect
CHECK_DEADLOCK FALSE
