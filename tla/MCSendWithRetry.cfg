SPECIFICATION Spec
CONSTANTS
    s1 = s1
    s2 = s2
    Senders = {s1, s2}
    MaxRetries = 1
    FailureThreshold = 2
    Timeout = 2
    Installed = TRUE
    MaxStreak = 4
INVARIANTS TypeOK FailureIsolation
PROPERTIES CooldownRespected AutoRecovery
