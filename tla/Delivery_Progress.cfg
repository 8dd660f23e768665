SPECIFICATION FairSpec
CONSTANTS
    Installations = {i1}
    Vehicles = {v1}
    JsonPubs = {j1}
    PlanPubs = {}
    LibraryPubs = {l1, l2}
    None = None
    BatchSize = 2
    Ops = {"publish", "rollback", "retire", "revive", "outage", "crash",
           "cleanup"}
    MaxChanges = 2
INVARIANTS GrantsFollowAuthority
PROPERTIES ManifestsArrive GenerationKeysArrive
