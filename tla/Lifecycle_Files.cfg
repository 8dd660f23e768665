SPECIFICATION Spec
CONSTANTS
    Contents = {c1, c2}
    None = None
    Kind = "files"
    Workers = {w1}
    Overlap = FALSE
    MaxAttempts = 2
    Retained = 1
    Ops = {"crash", "stage", "rollback", "delete", "damage", "retention"}
    MaxVersion = 3
    MaxRevision = 3
INVARIANTS JobsOwnAttempts CleanLibraryStagesNothing SuccessfulIsServable
PROPERTIES PublishedSourceIsCurrent ImplementsRegister
SYMMETRY ContentSymmetry
CHECK_DEADLOCK FALSE
