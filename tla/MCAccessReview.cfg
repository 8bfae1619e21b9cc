CONSTANTS
    Users = {u1, u2}
    RequestIds = {r1, r2}
    None = None
    MaxRevision = 3
SPECIFICATION Spec
CONSTRAINT DigestOrDecisions
SYMMETRY Interchangeable
INVARIANTS
    DecidedAsReviewed
    AuditExplainsStatus
    RequestsAwaitReview
    NoRequestIsOverlooked
PROPERTIES
    AnAdministratorRemains
CHECK_DEADLOCK FALSE
