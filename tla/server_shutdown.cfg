\* Ctrl-C may reach a loop that is not waiting in select!.
CONSTANTS
    c1 = c1
    c2 = c2
    c3 = c3
    Conns = {c1, c2}
    NumListeners = 1
    TlsListeners = {}
    MaxConn = 1
    U32 = 4
SPECIFICATION QuietSpec
PROPERTIES ShutdownEnds
