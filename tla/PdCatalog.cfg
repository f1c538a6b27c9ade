CONSTANTS
    IdLimit = 32
    None = None
    MaxKey = 3
    MaxRangeId = 3
    MaxEpoch = 1
    MaxTime = 1
    CreateIds = {1, 2}
    AnyGroup = FALSE
    ReplicaSets = {ra, rb}
    Leases = {l1}
    Nodes = {n1}
    Addresses = {a1}
SPECIFICATION Spec
INVARIANTS CatalogInv LookupsExact
PROPERTIES IdsHandedOutOnce CoverageNeverShrinks CachesDetectChange
CHECK_DEADLOCK FALSE
