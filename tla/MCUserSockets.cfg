CONSTANTS
    Connections = {s1, s2, s3}
    SessionIds = {x1, x2}
    Sources = {a1, a2}
    Proofs = {p1}
    None = None
    PerSource = 1
    Total = 1
    MaxRelays = 2
SPECIFICATION SocketsSpec
SYMMETRY Interchangeable
INVARIANTS
    SlotsMatchGuests
    RelayedInOrder
    ProofRunsOneCommand
CHECK_DEADLOCK FALSE
