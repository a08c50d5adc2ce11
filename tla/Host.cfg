SPECIFICATION HostSpec
CONSTANTS
    Devices = {1, 2, 3}
    Absent = Absent
    MaxKeys = 3
    MaxRequests = 1
    MaxCrashes = 2
    h1 = h1
    h2 = h2
    Handles <- MCHandles
    Cids = {64, 65}
    MaxLives = 2
    MaxPackets = 4
    MaxQueued = 2
    Callers = {t1, t2, t3}
    MaxId = 4
    MaxIssued = 8
SYMMETRY Symmetry
INVARIANTS
    KeysSurvive
    DistinctInARound
    HandlesAccounted
PROPERTIES
    Atomic
    DataReachesConnection
\* The controller stops at the bounds of keys, requests, links and packets.
CHECK_DEADLOCK FALSE
