\* A buffer of three, batches of two, entries enqueued while a push is in flight.
SPECIFICATION LiveSpec
CONSTANTS
    LOKI_BATCH_SIZE = 2
    LOKI_MAX_BUFFER = 3
    LOKI_SHUTDOWN_FLUSHES = 2
    MaxEntries = 7
CHECK_DEADLOCK FALSE
INVARIANTS
    TypeOK
    LossesCounted
    DeliveredInOrder
PROPERTIES
    Drains
    ShutdownEnds
