SPECIFICATION Spec
CONSTANTS
    Ids = {"a", "call_0"}
    Windows = {2, 3}
    MaxCalls = 2
    MaxDeltas = 3
    MaxRounds = 2
    MaxTurns = 2
CHECK_DEADLOCK FALSE
INVARIANTS TypeOK NormalizeStable RequestPaired ResultsTruthful LastRoundReported
PROPERTY ArgumentsKept
