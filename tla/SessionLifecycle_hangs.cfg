SPECIFICATION FairSpec
CONSTANTS
    t1 = t1
    t2 = t2
    c1 = c1
    c2 = c2
    c3 = c3
    NoCall = NoCall
    Tabs = {t1, t2}
    Calls = {c1, c2, c3}
    TabOf <- MCTabOf
    MaxCalls = 1
    MaxRevokes = 1
    Faults = {}
PROPERTIES
    CallsSettle
CHECK_DEADLOCK FALSE
