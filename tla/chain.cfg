\* All configurations up to three hops; connect() ends: no deadlock check.
CONSTANTS
    MaxHops = 3
    MaxData = 2
    Configs <- MCConfigs
SPECIFICATION Spec
CHECK_DEADLOCK FALSE
INVARIANTS TypeOK StreamsReachTheTarget CredentialsStayHome StreamsAreExact CredentialsInTls
PROPERTIES ConnectSettles
