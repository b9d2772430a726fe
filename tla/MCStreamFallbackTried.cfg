SPECIFICATION Spec
CONSTANTS
    MaxReconnect = 1
    FailoverMax = 1
    HasFallback = TRUE
    OutCap = 2
    MaxEvents = 2
INVARIANT FallbackTried
CHECK_DEADLOCK FALSE
