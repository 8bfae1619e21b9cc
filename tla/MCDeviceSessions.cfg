CONSTANTS
    Tabs = {t1, t2}
    WebLocks = TRUE
    Devices = {d1, d2}
    RotationIds = {r1, r2}
    NoRotation = NoRotation
    NoSecret = NoSecret
    NoCall = NoCall
SPECIFICATION Spec
SYMMETRY Interchangeable
INVARIANTS
    OneSecretPerGeneration
    ConflictHasACause
    LockoutHasACause
PROPERTY DeadSecretsStayDead
CHECK_DEADLOCK FALSE
