SPECIFICATION FairSpec
CONSTANTS
    Installations = {i1, i2}
    Vehicles = {v1}
    JsonPubs = {j1}
    PlanPubs = {}
    LibraryPubs = {}
    None = None
    BatchSize = 2
    Ops = {"outage", "crash", "cleanup"}
    MaxChanges = 3
PROPERTIES ManifestsArrive
