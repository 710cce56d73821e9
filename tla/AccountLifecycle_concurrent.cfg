SPECIFICATION Spec
CONSTANTS
    r1 = r1
    r2 = r2
    Requests = {r1, r2}
    MaxRequests = 5
SYMMETRY Symmetry
INVARIANTS
    TypeOK
    SessionsAreOfTheAccount
    ReplacedPasswordStaysReplaced
    LinkTakesEffectOnce
    ResetLinkLostOnlyToFailure
    DeletedIsInactiveUnlessOvertaken
CHECK_DEADLOCK FALSE
