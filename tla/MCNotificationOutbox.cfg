CONSTANTS
    Rows = {relay, discord}
    Discord = {discord}
    Processes = {p1, p2}
    MaxAttempts = 2
    Batch = 2
    NoItem = NoItem
    MaxOverruns = 1
    MaxMishaps = 1
SPECIFICATION FairSpec
INVARIANTS
    AttemptsBounded
    DuplicatesHaveACause
    ContentionNeedsALapse
    GivenUpForCause
PROPERTY AlertsSettle
CHECK_DEADLOCK FALSE
