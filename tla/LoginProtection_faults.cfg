SPECIFICATION FairSpec
CONSTANTS
    r1 = r1
    r2 = r2
    Requests = {r1, r2}
    Handlers = {"login"}
    Limit <- MCLimit
    Faults = {"redis", "crash"}
INVARIANTS
    OvershootBounded
    RateLimitExact
    UnexpiringOnlyIfLeaked
PROPERTIES
    LockedForeverOnlyIfLeaked
CHECK_DEADLOCK FALSE
