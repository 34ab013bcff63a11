SPECIFICATION ClientFairSpec
CONSTANTS
    Calls = {c1, c2, c3}
    MaxCalls = 2
    MaxResponse = 1
    MaxSent = 2
INVARIANT CallsAreSound
PROPERTY EveryCallSettles
CHECK_DEADLOCK FALSE
