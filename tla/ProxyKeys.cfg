\* Two keys, four edits, two restarts, two days.
SPECIFICATION Spec
CONSTANTS
    k1 = k1
    k2 = k2
    Key = {k1, k2}
    Lifetimes = {0, 1}
    MaxDay = 2
    MaxUpdates = 4
    MaxStarts = 2
SYMMETRY Keys
CHECK_DEADLOCK FALSE
INVARIANTS
    TypeOK
    KeysExact
    DeletionHolds
    AdmissionJustified
