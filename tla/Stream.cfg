SPECIFICATION FairSpec
CONSTANTS
    Streams <- MCStreams
CHECK_DEADLOCK FALSE
INVARIANTS
    OctetsConserved
    FirstMessage
    ReadsGuarded
PROPERTIES
    Settles
