CONSTANTS
    Channels = {discord}
    Addresses = {a1, a2}
    Unlinked = Unlinked
    Requests = {p1, p2}
    NoRequest = NoRequest
    MaxEntries = 1
    MaxTargets = 2
    MaxWrong = 2
SPECIFICATION TargetsSpec
SYMMETRY Interchangeable
CHECK_DEADLOCK FALSE
INVARIANT WrongCodesAreLimited
