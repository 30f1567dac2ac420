SPECIFICATION MCSpec
CONSTANTS
    Lifetime = 1
    connection_close_time = 2
    stale_connection_ms = 2
    resend_timeout = 1
    MaxCodes = 2
    MaxKeys = 3
    MaxWire = 3
INVARIANTS TypeOK SameKey
PROPERTIES SessionEnds DeliveredAndAcknowledged
CHECK_DEADLOCK FALSE
