SPECIFICATION Spec
CONSTANTS
    None = None
    Blank = Blank
    Junk = Junk
    Malformed = Malformed
    Aware = Aware
    ann = ann
    bob = bob
    here = here
    elsewhere = elsewhere
    Policies <- MCPolicies
    Users = {ann, bob}
    Resources <- MCResources
    Contexts <- MCContexts
    Rows <- MCRows
    Actions = {"read", "edit"}
    ResourceTypes = {"company"}
    HoursInDay = 3
    MaxNow = 5
    MaxPolicies = 2
INVARIANTS
    EveryDecisionIsMade
    HandedOnOnlyIfHeldEverywhere
    MorePoliciesGrantMore
    OpenedCompaniesAreListed
    ListedCompaniesOpen
CHECK_DEADLOCK FALSE
