CONSTANTS
    Calls = {c1, c2}
    Conns = {x1, x2}
    NoConn = NoConn
    NoCall = NoCall
SPECIFICATION FairSpec
INVARIANTS OutcomeIsTrue PoolIsSound
PROPERTIES EverythingEnds
CHECK_DEADLOCK FALSE
