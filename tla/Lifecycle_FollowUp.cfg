SPECIFICATION FairSpec
CONSTANTS
    Contents = {c1, c2}
    None = None
    Kind = "plans"
    Workers = {w1}
    Overlap = FALSE
    MaxAttempts = 2
    Retained = 1
    Ops = {"bulk"}
    MaxVersion = 4
    MaxRevision = 4
INVARIANTS DirtyScopeHasIntent SuccessfulIsServable
PROPERTIES SourceEventuallyPublished
CHECK_DEADLOCK FALSE
