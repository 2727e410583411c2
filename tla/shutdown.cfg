SPECIFICATION SocketsSpec
CONSTANTS
    Dashboards = {d1}
    Sockets = {k1, k2}
    NoSocket = unlinked
    MaxAttempts = 2
PROPERTY ShutdownEnds
CHECK_DEADLOCK FALSE
