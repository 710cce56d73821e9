SPECIFICATION DataSpec
CONSTANTS
    r1 = r1
    r2 = r2
    manager = manager
    head = head
    NoCaller = NoCaller
    None = None
    Blank = Blank
    Junk = Junk
    Malformed = Malformed
    Aware = Aware
    Requests = {r1, r2}
    Callers = {manager, head}
    Held <- MCHeld
    Years = {2024}
    MaxCompanies = 3
    MaxSheets = 2
    MaxRequests = 5
SYMMETRY Symmetry
INVARIANTS
    DataTypeOK
    TreeUnlessOvertaken
    SheetsAreSound
    GroupPolicyCoversTheTree
PROPERTIES
    RenameKeepsPlace
    ImplementsTree
    SheetsGoOnPurpose
    OthersWidenScope
CHECK_DEADLOCK FALSE
