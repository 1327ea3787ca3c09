SPECIFICATION FairSpec
CONSTANTS
    la = la  lb = lb  star = star
    kr = kr  kb = kb
    dA = dA  cA = cA  cB = cB  cBA = cBA  cRoot = cRoot
    dB = dB  dAA = dAA  nCut = nCut
    AtWildcard = FALSE
    None = None
    Label <- MCLabel
    Star = star
    Key <- MCKey
    Datum <- MCDatum
    TagOf <- MCTagOf
    OddTag <- MCOddTag
    Unsupported = {}
    NoEncoder = {}
    OddDigest = {}
    ZoneKeys <- MCZoneKeys
    Published <- MCPublished
    QType = "A"
    QNames <- MCQNames
    Anchors = {kr}
    MaxAliasHops = 3
    Target <- MCTarget
    Denies <- MCDenies
    EncloserOf <- MCEncloserOf
    Answer <- MCAnswer
CHECK_DEADLOCK FALSE
INVARIANTS
    AliasesAuthentic
    AliasesLinked
PROPERTIES
    KeepsPromise
    Settles
