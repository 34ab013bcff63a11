SPECIFICATION FairSpec
CONSTANTS
    Requests = {r1, r2}
    MaxActive = 1
    HandlerKinds = {"internal", "conflict"}
INVARIANTS CompletionIsTrue HandlersAreAccounted
PROPERTY EventuallyCompleted
CHECK_DEADLOCK FALSE
