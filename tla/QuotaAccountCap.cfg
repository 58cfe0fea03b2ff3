\* Three accounts, two are kept.
SPECIFICATION Spec
CONSTANTS
    s1 = s1
    s2 = s2
    u1 = u1
    a1 = a1
    a2 = a2
    a3 = a3
    none = none
    None = none
    Session = {}
    User = {u1}
    Account = {a1, a2, a3}
    QUOTA_MAX_SESSIONS = 1
    QUOTA_MAX_DAYS = 2
    QUOTA_MAX_DAY_SESSIONS = 1
    MAX_ACCOUNTS = 2
    DaysPerMonth = 1
    MaxDay = 0
    MaxSteps = 3
    MaxCrashes = 0
CHECK_DEADLOCK FALSE
PROPERTIES
    AccountCharged
