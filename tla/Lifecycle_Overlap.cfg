SPECIFICATION FairSpec
CONSTANTS
    Contents = {c1, c2}
    None = None
    Kind = "plans"
    Workers = {w1, w2}
    Overlap = TRUE
    MaxAttempts = 2
    Retained = 1
    Ops = {"crash", "fail", "drift", "cancel"}
    MaxVersion = 3
    MaxRevision = 1
INVARIANTS OneAuthoritativeVersion JobsOwnAttempts RetriesAreBounded
PROPERTIES ImplementsRegister RunningJobsEnd
CHECK_DEADLOCK FALSE
