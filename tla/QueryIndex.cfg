CONSTANTS
    QueryNodes = {1, 2}
    QueryType = "t"
    Statements <- MCStatements
    QueryCalls = {1}
    MaxDocs = 2
    GraphDepth = 1
    MaxArcs = 0
    WordOrder <- MCWordOrder
SPECIFICATION Spec
INVARIANT IndexesOnlySpeedUp
CHECK_DEADLOCK FALSE
