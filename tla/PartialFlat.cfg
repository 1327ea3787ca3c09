SPECIFICATION Spec
CONSTANTS
    Star = 0
    Apex <- MCApex
    Zones <- MCZones
    Signings <- AllSignings
    Salts = {1000}
    compute_hash <- MCHash
    QNames <- Asked
    QTypes = {"A", "MX"}
    TLD = TRUE
    Kinds <- FlatKinds
    MaxOwners = 2
    Whole = FALSE
CHECK_DEADLOCK FALSE
INVARIANTS
    DenialIsTrue
