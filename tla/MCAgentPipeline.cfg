SPECIFICATION Spec
CONSTANTS
    Cap = 1
    MaxMsgs = 2
CHECK_DEADLOCK FALSE
INVARIANTS TypeOK StoredTurn RecordedTurn
PROPERTY EveryoneEnds
