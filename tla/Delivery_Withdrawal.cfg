SPECIFICATION Spec
CONSTANTS
    Installations = {i1}
    Vehicles = {v1, v2}
    JsonPubs = {j1, j2}
    PlanPubs = {}
    LibraryPubs = {}
    None = None
    BatchSize = 2
    Ops = {"publish", "obsolete", "feature", "guides", "asset", "revoke", "assign", "lease", "outage", "crash", "cleanup"}
    MaxChanges = 3
SYMMETRY VersionSymmetry
INVARIANTS TypeOK GrantsFollowAuthority ReadyManifestIsComplete ServedWrappingsAreLive
PROPERTIES WithdrawnUntilRequested
