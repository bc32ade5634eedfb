\* Two clients, one target, three sockets; two datagrams in processing at a time.
\* The association may end for good: no deadlock check.
CONSTANTS
    c1 = c1
    c2 = c2
    t1 = t1
    t2 = t2
    s1 = s1
    s2 = s2
    s3 = s3
    p1 = p1
    p2 = p2
    Clients = {c1, c2}
    Targets = {t1}
    Sockets = {s1, s2, s3}
    Packets = {p1, p2}
    None = None
SPECIFICATION Spec
CHECK_DEADLOCK FALSE
INVARIANTS TypeOK EntriesAreLive SendersHaveListeners
PROPERTIES AnswersAreForwarded AssociationSpec
