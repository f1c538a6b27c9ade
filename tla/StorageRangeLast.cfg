CONSTANTS
    KeyCount = 2
    Values = {v1, v2}
    Absent = Absent
    MaxOps = 2
    RangesFirst = FALSE
SPECIFICATION BatchSpec
INVARIANTS EnginesAgree
