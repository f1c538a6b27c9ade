CONSTANTS
    Nodes = {"n1", "n2"}
    Edges = {"e1", "e2"}
    Fields = {"f", "g"}
    Vals <- MCVals
    NodeTypes = {"x"}
    Docs <- MCDocs
    Patches <- MCPatches
    Slots = {1, 2}
    MinCloud = 1
    MaxShed = 1
    WriteThrough = TRUE
    MaxCrashes = 1
    Replicas = {1, 2, 3}
    Nobody = 0
    MaxTerm = 2
    MaxLog = 2
    Callers = {1}
    MaxAppends = 1
    Threads = {1, 2, 3}
    ShardIds = {"a", "b", "e"}
    ShardEdges = {"e"}
    MaxShards = 3
    RingHash <- MCRingHash
    RingPoints <- MCRingPoints
    SipHash <- MCSipHash
    HashSpace = 8
    NumBits = 5
    NumHashes = 2
    CounterMax = 2
    ShardCalls = {1, 2}
    MaxOpens = 2
    Sites = {"p", "q"}
    DbFiles = {"cfg"}
    ConfigFile = "cfg"
    Objects = {"o"}
    ReadonlySites = {"q"}
    MaxEdits = 2
    MaxTime = 1
    Batches <- MCStreamBatches
    ChanCap = 2
    MaxSends = 3
    VecIds = {"a", "b", "c"}
    VecPoints = {0, 1, 3}
    Dims = {1, 2}
    Layer <- MCLayer
    MaxConn = 2
    Ef = 3
    VecCalls = {1, 2}
    MaxIndexes = 2
    MaxReopens = 1
    GraphNodes = {"p", "q", "r", "t"}
    GraphRows = {"p", "q", "t"}
    GraphEdges <- MCGraphEdges
    MaxDepth = 4
    Conns = {"c1", "c2", "c3"}
    CompressingClients = {"c1", "c2"}
    ServerCompression = TRUE
    MaxConnections = 2
    ShardedMode = FALSE
    MaxRequests = 2
    RequestKinds = {"Ping", "Disconnect", "InsertNode", "UpdateNode", "Query", "BeginTransaction", "CommitTransaction", "RollbackTransaction"}
    QueryNodes = {1, 2, 3}
    QueryType = "t"
    Statements <- MCStatements
    QueryCalls = {1, 2}
    MaxDocs = 2
    GraphDepth = 2
    MaxArcs = 3
    WordOrder <- MCWordOrder
    Alphabet = {"a", ".", "N", " ", "#", "e", "W"}
    MaxDocument = 6
    CharsPerToken = 2
    ChunkSize = 3
    ChunkOverlap = 1
    ChunkTokens = 1
    SectionSize = 3
    SectionOverlap = 1
    RankIds = {1, 2, 3}
    RrfK = 2
    KeywordWeight = 1
    VectorWeight = 1
    ContextTokens = 4
    SchemaNames = {"s", "t"}
    SchemaDefs <- MCSchemaDefs
    RowIds = {1, 2, 3}
    SchemaCalls = {1, 2}
    MaxData = 1
SPECIFICATION Spec
INVARIANTS WritesSurvive EdgeReadersAgree IndexesExact RaftSafety OnlyHeartbeatDeadlocks RowsFound SyncConverges CollectExact  TraversalExact PoolExact AnswersPaired GraphSearchExact ChunksCover RankingsRespected
PROPERTIES QueriesExact SchemaRowsExact
CHECK_DEADLOCK FALSE
