CONSTANTS
    Accounts = {a, b, c, d}
    NoOne = nobody
    Requests = {r}
    Federations = {f, g}
    NoFederation = none
    Calls = {o, p}
    MaxMembers = 3
    MaxCodes = 1
    MaxCalls = 2
SPECIFICATION MCSpec
CONSTRAINT InPhases
SYMMETRY Symmetry
INVARIANTS
    OneAccountPerRequest
    NumberIsSettled
    FederationIsWhole
PROPERTIES
    ChangedAsSeen
CHECK_DEADLOCK FALSE
