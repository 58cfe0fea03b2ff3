\* Sessions, days and accounts, one more of each than is kept; a month of two days.
SPECIFICATION Spec
CONSTANTS
    s1 = s1
    s2 = s2
    u1 = u1
    a1 = a1
    a2 = a2
    a3 = a3
    none = none
    None = none
    Session = {s1, s2}
    User = {u1}
    Account = {a1, a2}
    QUOTA_MAX_SESSIONS = 1
    QUOTA_MAX_DAYS = 2
    QUOTA_MAX_DAY_SESSIONS = 1
    MAX_ACCOUNTS = 1
    DaysPerMonth = 2
    MaxDay = 2
    MaxSteps = 3
    MaxCrashes = 1
SYMMETRY Ids
CHECK_DEADLOCK FALSE
INVARIANTS
    TypeOK
    BreakdownsAddUp
    TotalIsThisMonth
    FileNeverAhead
    LeftoversAreOld
