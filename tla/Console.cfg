\* The console, the identity and the logins over one .env file.
SPECIFICATION Spec
CONSTANTS
    d1 = d1
    d2 = d2
    a1 = a1
    a2 = a2
    any = any
    AnyDevice = any
    CaptureFrom = any
    Device = {d1, d2}
    Attempt = {a1, a2}
    NaN = 999999
    Infinity = 888888
    Huge = 777777
    ADMIN_MAX_FAILED = 2
    ADMIN_LOCKOUT_SECONDS = 2
    ADMIN_SESSION_HOURS = 2
    Batches <- MCBatches
    InitialFiles <- MCInitialFiles
    Budgets <- MCBudgets
SYMMETRY Attempts
CHECK_DEADLOCK FALSE
INVARIANTS
    TypeOK
    RestartChangesNothing
    JitterUsable
    IdentityWhole
    GuessesBounded
