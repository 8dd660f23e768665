SPECIFICATION Spec
CONSTANTS
    Installations = {i1}
    Vehicles = {v1}
    JsonPubs = {j1, j2}
    PlanPubs = {}
    LibraryPubs = {}
    None = None
    BatchSize = 2
    Ops = {"publish", "rollback"}
    MaxChanges = 2
INVARIANTS ServedWrappingsAreLive
