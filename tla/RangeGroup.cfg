CONSTANTS
    KeyCount = 2
    v1 = v1
    v2 = v2
    r1 = r1
    r2 = r2
    Values = {v1, v2}
    Absent = Absent
    Replicas = {r1, r2}
    Engine <- MixedEngines
    Logs <- MixedLogs
    LogLen = 3
    MaxFaults = 2
    MaxBuilds = 2
SPECIFICATION Spec
INVARIANTS NothingLost MembershipInForce
PROPERTIES AppliedNeverRegresses Converges
CHECK_DEADLOCK FALSE
