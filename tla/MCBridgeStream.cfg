SPECIFICATION BridgeSpec
CONSTANTS
    MaxReconnect = 1
    FailoverMax = 1
    HasFallback = TRUE
    OutCap = 2
    MaxEvents = 2
INVARIANTS TypeOK MessageIsWhole 
    FromOneConnection OnlyErrorsAfterTerminal FailureReported
PROPERTIES BothEnd KeepsPromise
CHECK_DEADLOCK FALSE
