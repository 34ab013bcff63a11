SPECIFICATION FairSpec
CONSTANTS
    Requests = {r1}
    MaxActive = 1
    HandlerKinds = {"internal"}
PROPERTY OwnTerminationIsRecorded
CHECK_DEADLOCK FALSE
