SPECIFICATION Spec
CONSTANTS
    Capacity = 2
    MaxRecords = 4
    Closers = {c1, c2}
    Threshold = "info"
    Severities = {"debug", "warn"}
    MaxDerivations = 2
INVARIANTS QueueIsSound OkCloseMeansWritten RecordsAreSafe
PROPERTY EveryCloseAnswers
CHECK_DEADLOCK FALSE
