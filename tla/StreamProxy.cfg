\* Two requests, one upstream connection, one retry.
SPECIFICATION Spec
CONSTANTS
    r1 = r1
    r2 = r2
    Request = {r1, r2}
    UPSTREAM_MAX_CONNECTIONS = 1
    UPSTREAM_CONNECT_RETRIES = 1
    MaxChunks = 1
    MaxToggles = 1
CHECK_DEADLOCK FALSE
SYMMETRY Requests
INVARIANTS
    TypeOK
    RecordedOnce
    NoConnectionLeaks
    OutcomesAccounted
PROPERTIES
    BetaDiesOut
    Implements
