SPECIFICATION Spec
CONSTANTS
    Sids = {s1, s2}
    Requests = {r1, r2}
    Kinds = {"chat", "stream", "vision"}
    MaxAge = 0
    Window = 6
    MaxRestarts = 1
CHECK_DEADLOCK FALSE
INVARIANT HistoryPersistence
