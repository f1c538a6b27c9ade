CONSTANTS
    Batches <- MCBatches
    ChanCap = 2
    MaxSends = 2
SPECIFICATION StreamSpec
INVARIANT CollectsAll
CHECK_DEADLOCK FALSE
