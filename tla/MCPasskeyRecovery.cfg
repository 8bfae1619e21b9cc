CONSTANTS
    Keys = {k1, k2, k3}
    Codes = {c1, c2}
    CeremonyIds = {x1, x2}
    Pairings = {p1}
    Grants = {g1}
    NoKey = NoKey
    MaxEpoch = 1
    MaxOperator = 1
    MaxMatch = 2
SPECIFICATION Spec
CONSTRAINT OneOtherWay
SYMMETRY Interchangeable
INVARIANTS
    AKeyRemains
    OneOpenRequest
    NothingFromBeforeRecovery
    NoKeyFromARefusedRequest
CHECK_DEADLOCK FALSE
