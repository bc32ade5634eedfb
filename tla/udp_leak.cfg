\* No task ever fails.
CONSTANTS
    c1 = c1
    c2 = c2
    t1 = t1
    t2 = t2
    s1 = s1
    s2 = s2
    s3 = s3
    p1 = p1
    p2 = p2
    Clients = {c1}
    Targets = {t1}
    Sockets = {s1}
    Packets = {p1}
    None = None
SPECIFICATION Spec
CHECK_DEADLOCK FALSE
PROPERTIES ListenersStop
