CONSTANTS
    IdLimit = 16
    None = None
    MaxKey = 2
    MaxRangeId = 3
    MaxEpoch = 0
    MaxTime = 0
    CreateIds = {1, 2}
    AnyGroup = TRUE
    ReplicaSets = {ra}
    Leases = {}
    Nodes = {}
    Addresses = {}
SPECIFICATION Spec
INVARIANTS GroupIdsUnique
CHECK_DEADLOCK FALSE
