SPECIFICATION Spec
CONSTANTS
    MaxLabel = 3
    MaxName = 12
    MaxHops = 2
    NoiseOctets = {0, 1, 2, 4, 46, 64, 192}
    NoiseLength = 4
    Types <- AllTypes
    Handled <- Bundles
    Arrivals <- MCArrivals
CHECK_DEADLOCK FALSE
INVARIANTS
    TypeOK
    NamesMean
    CutsRefused
    Understood
    EncodesAsSigned
