SPECIFICATION BridgeSpec
CONSTANTS
    MaxReconnect = 1
    FailoverMax = 1
    HasFallback = FALSE
    OutCap = 2
    MaxEvents = 2
INVARIANT DisconnectRecovered
CHECK_DEADLOCK FALSE
