SPECIFICATION FairSpec
CONSTANTS
    t1 = t1
    t2 = t2
    c1 = c1
    c2 = c2
    c3 = c3
    NoCall = NoCall
    Tabs = {t1, t2}
    Calls = {c1, c2, c3}
    TabOf <- MCTabOf
    MaxCalls = 2
    MaxRevokes = 1
    Faults = {"lost"}
INVARIANTS
    TypeOK
    NoTabReplaysItself
PROPERTIES
    GivesUpForAReason
    CallsSettleUnlessCircular
CHECK_DEADLOCK FALSE
