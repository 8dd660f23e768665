SPECIFICATION Spec
CONSTANTS
    Contents = {c1, c2}
    None = None
    Kind = "json"
    Workers = {w1}
    Overlap = FALSE
    MaxAttempts = 2
    Retained = 1
    Ops = {"crash", "rebuild", "rollback", "delete", "retention"}
    MaxVersion = 4
    MaxRevision = 1
INVARIANTS OneAuthoritativeVersion SuccessfulIsServable
PROPERTIES RetentionKeepsPredecessors ImplementsRegister
SYMMETRY ContentSymmetry
CHECK_DEADLOCK FALSE
