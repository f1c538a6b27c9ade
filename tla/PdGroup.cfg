CONSTANTS
    IdLimit = 16
    None = None
    ra = ra
    rb = rb
    l1 = l1
    n1 = n1
    a1 = a1
    Replicas = {r1, r2}
    Setups <- AllSetups
SPECIFICATION Spec
INVARIANTS GroupAgrees
PROPERTIES KeepsPromise Converges
CHECK_DEADLOCK FALSE
