SPECIFICATION Spec
CONSTANTS
    la = la  lb = lb  star = star
    kr = kr  ka = ka  ku = ku  kx = kx
    dA = dA  dW = dW  dOdd = dOdd
    nCut = nCut  nGap = nGap  nEnt = nEnt  nWild = nWild  nHas = nHas  nFake = nFake
    None = None
    Label <- MCLabel
    Star = star
    Key <- MCKey
    Datum <- MCDatum
    TagOf <- MCTagOf
    OddTag <- MCOddTag
    Unsupported = {ku}
    NoEncoder = {}
    OddDigest = {dOdd}
    ZoneKeys <- MCZoneKeys
    Published <- MCPublished
    QType = "A"
    QNames <- AskA
    Anchors = {kr, ku}
    MaxAliasHops = 0
    Target <- MCTarget
    Denies <- MCDenies
    EncloserOf <- MCEncloserOf
    Answer <- MCAnswer
    Noisy <- DescentQueries
    MaxItems = 2
CHECK_DEADLOCK FALSE
INVARIANTS
    TypeOK
    DenialAuthentic
    StepsExplained
    UnsignedStepEnds
PROPERTIES
    KeepsPromise
