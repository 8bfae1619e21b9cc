CONSTANTS
    Users = {u1}
    Workers = {w1, w2}
    Tokens = {t1, t2}
    NoRow = NoRow
    NoEvidence = NoEvidence
    MaxEpoch = 2
    MaxRevision = 2
    MaxReuse = 1
SPECIFICATION Spec
SYMMETRY Interchangeable
INVARIANTS
    RevocationIsFinal
    FactorChangeEndsPasskeySessions
    RoleIsFixedAtLogin
PROPERTY ImplementsSessionAuthority
