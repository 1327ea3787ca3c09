SPECIFICATION Spec
CONSTANTS
    Star = 0
    Apex <- MCApex
    Zones <- MCZones
    Signings <- AllSignings
    Salts = {1000}
    compute_hash <- MCHash
    QNames <- Asked
    QTypes = {"A", "MX"}
    TLD = TRUE
    Kinds <- AllKinds
    MaxOwners = 3
    Whole = TRUE
CHECK_DEADLOCK FALSE
INVARIANTS
    TypeOK
    RoundTrip
