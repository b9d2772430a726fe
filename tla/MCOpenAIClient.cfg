SPECIFICATION Spec
CONSTANTS
    Requests = {a, b}
    NKeys = 2
    MaxReconnect = 1
    FailoverMax = 1
    HasFallback = TRUE
    MaxReports = 2
    Earlier = Earlier
    None = None
SYMMETRY Symmetric
INVARIANTS TypeOK LoneStreamFindsKey TargetsAgree ChatAsksFallback UsageOwner UsageCountedOnce
CHECK_DEADLOCK FALSE
