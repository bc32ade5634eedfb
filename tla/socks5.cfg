\* With and without users, scripted clients, connectors, and clients of other protocols.
CONSTANTS
    NotUtf8 = {200}
    Users <- MCUsers
    Requests <- MCAllRequests
    Scripts <- MCScripts
    Connectors <- MCConnectors
    Strangers <- MCStrangers
SPECIFICATION LSpec
INVARIANTS LinkTypeOK RequestFramed NothingWithoutAuth RepliesTruthful Dispatched LinkConnects NeverBothWait
PROPERTIES SessionEnds
