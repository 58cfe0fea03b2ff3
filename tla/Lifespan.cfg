\* Alerts, coaching counters and prices over starts, shutdowns and crashes.
SPECIFICATION Spec
CONSTANTS
    u1 = u1
    u2 = u2
    u3 = u3
    k1 = k1
    k2 = k2
    AlertKey = {k1, k2}
    Stall = stall
    Cooldown = 2
    _MAX_KEYS = 2
    CoachUser = {u1, u2, u3}
    NoUser = nobody
    Rec = {r1, r2, r3}
    MAX_COACH_WEEKS = 2
    MAX_COACH_USERS = 2
    MAX_REC_MARKS = 2
    Model = {"claude-opus-5-5", "claude-sonnet-5", "claude-new-6"}
    KeysOf <- MCKeysOf
    PRICING_FALLBACK = 5
    _BUNDLED_TABLE <- MCBundled
    Documents <- MCDocuments
    Fetcher = {loop, admin}
    Loop = loop
    Budgets <- MCBudgets
SYMMETRY AlertKeys
CHECK_DEADLOCK FALSE
INVARIANTS
    TypeOK
    AlertsExplained
    PricesRight
PROPERTY
    HistoryKept
