SPECIFICATION FairSpec
CONSTANTS
    Requests = {r1, p1}
    Probes = {p1}
    MaxChecks = 1
    Sessions = {s1}
    Callers = {c1, c2}
    Providers = {x1, x2}
INVARIANTS UsersBeforeResources StartIsUndone
PROPERTIES FlushIsTrue ReadyIsTrue CloseRunsOnce 
CHECK_DEADLOCK FALSE
