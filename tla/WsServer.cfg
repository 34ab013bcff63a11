SPECIFICATION SocketFairSpec
CONSTANTS
    Connections = {c1, c2, c3}
    MaxConnections = 2
INVARIANTS MessagesAreSound SessionsAreSound
PROPERTY ShutdownEndsSessions
CHECK_DEADLOCK FALSE
