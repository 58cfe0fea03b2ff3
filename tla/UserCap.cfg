\* Two users (one with an explicit cap), two requests in flight at most.
SPECIFICATION Spec
CONSTANTS
    u1 = u1
    u2 = u2
    s1 = s1
    s2 = s2
    User = {u1, u2}
    Slot = {s1, s2}
    MaxCost = 2
    USER_QUOTA_CAPS <- Caps
    Defaults = {0, 3}
    MaxPeriod = 1
    MaxArrivals = 4
    MaxConfig = 1
SYMMETRY Slots
CHECK_DEADLOCK FALSE
INVARIANTS
    TypeOK
    SpendIsCurrent
    OvershootBounded
PROPERTIES
    BlockedWithCause
    BlockedWasAnnounced
