\* Engine and registry under two threads.
SPECIFICATION Spec
CONSTANTS
    t1 = t1
    t2 = t2
    o1 = o1
    o2 = o2
    k1 = k1
    k2 = k2
    k3 = k3
    v1 = v1
    v2 = v2
    Threads = {t1, t2}
    Objects = {o1, o2}
    Keys = {k1, k2}
    Values = {v1, v2}
    Snapshots <- MCSnapshots
    MaxHandles = 2
    MaxRowsLimit = 1
    ABSENT = ABSENT
    NONE = NONE
SYMMETRY Interchangeable
INVARIANTS
    TypeOK
    ConsumerMirrorsTable
    OwnerKeepsHandle
PROPERTIES
    NoPartialSnapshot
    NoChangeAfterRelease
    ChangesetIsTheDiff
