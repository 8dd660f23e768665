SPECIFICATION FairSpec
CONSTANTS
    Installations = {i1}
    Vehicles = {v1}
    JsonPubs = {j1}
    PlanPubs = {}
    LibraryPubs = {}
    None = None
    BatchSize = 2
    Ops = {"crash"}
    MaxChanges = 1
PROPERTIES RequestsNeedNoRepair
