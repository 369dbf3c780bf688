\* The transaction pipeline: safety, refinement and liveness.
SPECIFICATION TxnFairSpec
CONSTANTS
    p1 = p1
    p2 = p2
    w1 = w1
    w2 = w2
    k1 = k1
    k2 = k2
    v1 = v1
    v2 = v2
    Threads <- MCThreads
    Producers = {p1, p2}
    Workers = {w1, w2}
    Objects = {}
    Keys = {k1, k2}
    Values = {v1, v2}
    Snapshots <- MCSnapshots
    MaxHandles = 1
    MaxRowsLimit = 0
    HardwareThreads = 2
    MaxQueueSize = 2
    MaxRequests = 2
    ABSENT = ABSENT
    NONE = NONE
CHECK_DEADLOCK FALSE
INVARIANTS
    TxnTypeOK
    QueuedKeepOrder
    StreamIsSnapshot
PROPERTIES
    Refines
    RowsLeave
    TxnCallsReturn
