SPECIFICATION Spec
CONSTANTS
    r1 = r1
    r2 = r2
    g1 = g1
    g2 = g2
    sys = sys
    first = first
    second = second
    sysEmail = sysEmail
    email = email
    superuser = superuser
    self = self
    custom = custom
    Accounts <- MCAccounts
    EmailOf <- MCEmailOf
    System = sys
    Emails = {sysEmail, email}
    Policies = {superuser, self, custom}
    Baseline = {superuser, self}
    Superuser = superuser
    SelfService = self
    Grants = {g1, g2}
    Requests = {r1, r2}
    MaxRequests = 4
SYMMETRY Symmetry
INVARIANTS
    StaleOnlyForAReason
    AdministratorRemains
    HistoryTellsTheRow
CHECK_DEADLOCK FALSE
