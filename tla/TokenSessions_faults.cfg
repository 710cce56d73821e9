SPECIFICATION FairSpec
CONSTANTS
    r1 = r1
    r2 = r2
    c1 = c1
    Requests = {r1, r2}
    Chains = {c1}
    NoChain = NoChain
    MaxRequests = 3
    Second = 1
    AccessLife = 1
    RefreshLife = 1
    MaxClock = 0
    Faults = {"redis", "db", "crash", "flush"}
PROPERTIES
    RequestsAnswered
CHECK_DEADLOCK FALSE
