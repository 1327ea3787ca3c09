SPECIFICATION FairSpec
CONSTANTS
    Clients = {"auth", "dot", "doh"}
    MaxServers = 3
    Malformed = {2}
CHECK_DEADLOCK FALSE
INVARIANTS
    SocketsClosed
    AbortedNeverWaits
PROPERTIES
    KeepsOrder
    Settles
