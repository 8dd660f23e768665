SPECIFICATION Spec
CONSTANTS
    Contents = {c1, c2}
    None = None
    Kind = "json"
    Workers = {w1}
    Overlap = FALSE
    MaxAttempts = 2
    Retained = 1
    Ops = {"fail", "rebuild", "stage", "rollback", "bulk"}
    MaxVersion = 3
    MaxRevision = 2
INVARIANTS TypeOK OneLiveJob JobsOwnAttempts
PROPERTIES NewerRevisionNotStranded AttemptsAreImmutable
SYMMETRY ContentSymmetry
CHECK_DEADLOCK FALSE
