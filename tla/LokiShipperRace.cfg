\* The buffer without a lock.
SPECIFICATION Spec
CONSTANTS
    LOKI_BATCH_SIZE = 2
    LOKI_MAX_BUFFER = 3
    LOKI_SHUTDOWN_FLUSHES = 2
    MaxEntries = 7
CHECK_DEADLOCK FALSE
PROPERTIES
    FlushRemovesOnlySent
