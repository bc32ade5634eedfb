\* A CONNECT tunnel is open when the drain ends.
CONSTANTS
    c1 = c1
    c2 = c2
    c3 = c3
    Conns = {c1, c2}
    NumListeners = 1
    TlsListeners = {}
    MaxConn = 1
    U32 = 4
SPECIFICATION SafeSpec
PROPERTIES DrainWaitsForTunnels
