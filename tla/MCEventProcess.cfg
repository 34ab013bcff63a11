CONSTANTS
    Runners = {p1, p2}
    Lists <- MCLists
    NoRunner = NoRunner
    Jetstream = {p2}
    MaxRounds = 2
    MaxAttempts = 2
SPECIFICATION ProcessSpec
INVARIANTS ExitStatusIsTrue RecordedIsKept ResourcesAreOwned
PROPERTIES MigrationsAreSound EveryProcessExits EveryStepIsProgress
CHECK_DEADLOCK FALSE
