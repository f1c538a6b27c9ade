CONSTANTS
    KeyCount = 3
    Values = {"v", "w"}
    Absent = Absent
    MaxOps = 2
    RangesFirst = TRUE
    EngineThreads = {1, 2}
    CallBatches <- MCBatches
    CallRanges <- MCRanges
    MaxBatchCalls = 2
    MaxIndex = 4
    MaxTerm = 2
    MaxCrashes = 3
    SampleKeys <- MCKeys
    SampleBytes <- MCBytes
    PdMembers = {1, 2, 3}
    MaxHops = 2
    MaxPdTerm = 3
    MaxRestarts = 1
    AdminMembers = {1, 2}
    AdminRequests <- MCRequests
    MaxCommits = 3
    MaxAdrift = 1
    IdLimit = 16
    None = None
    TransportPeers = {"p", "q"}
    Target = "p"
    Addresses = {"a", "b"}
    MaxMoves = 4
    ReadMembers = {1, 2, 3}
    IsDefault = FALSE
    MaxWrites = 2
SPECIFICATION Spec
INVARIANTS BatchInOrder BatchesSerial LogKept KeysExact ApplyOnce AdminExact ReadsLinearizable
PROPERTIES HeartbeatsArrive TargetReached
CHECK_DEADLOCK FALSE
