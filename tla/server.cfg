\* Three connections and two loops for one permit: both loops can wait at a time.
\* The fairness is that of the runtime alone.
CONSTANTS
    c1 = c1
    c2 = c2
    c3 = c3
    Conns = {c1, c2, c3}
    NumListeners = 2
    TlsListeners = {2}
    MaxConn = 1
    U32 = 4
SPECIFICATION Spec
INVARIANTS TypeOK PermitsConserved WaitQueueSound
PROPERTIES ACSpec HandlersFollowConnTask StoppedServerExits WaiterServed
