SPECIFICATION FairSpec
CONSTANTS
    Contents = {c1, c2}
    None = None
    Kind = "json"
    Workers = {w1}
    Overlap = FALSE
    MaxAttempts = 2
    Retained = 1
    Ops = {"crash", "retention"}
    MaxVersion = 3
    MaxRevision = 2
PROPERTIES TerminalFilesRemoved
CHECK_DEADLOCK FALSE
