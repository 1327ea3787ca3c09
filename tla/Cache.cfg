SPECIFICATION Spec
CONSTANTS
    w1 = w1  w2 = w2
    k1 = k1  k2 = k2
    r1 = r1  r2 = r2
    None = None
    Walk = {w1, w2}
    Key = {k1, k2}
    Registry = {r1, r2}
    Plan <- MCPlan
    RegistryOf <- MCRegistryOf
    Throwing = {w2}
    Life = 0
    MaxTime = 1
    MaxFactory = 1
CHECK_DEADLOCK FALSE
INVARIANTS
    TypeOK
    AnswersTheLookup
    AskedOnce
    LogTellsCall
    SecureIsFresh
    HandlersStayApart
PROPERTIES
    Settles
