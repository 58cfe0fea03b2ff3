\* The comment on the retry loop: a replay cannot duplicate anything.
SPECIFICATION Spec
CONSTANTS
    r1 = r1
    r2 = r2
    Request = {r1, r2}
    UPSTREAM_MAX_CONNECTIONS = 1
    UPSTREAM_CONNECT_RETRIES = 1
    MaxChunks = 1
    MaxToggles = 0
CHECK_DEADLOCK FALSE
INVARIANTS
    ReplayCannotDuplicate
