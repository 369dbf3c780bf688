\* The bounded table: one thread, three keys, a bound of up to two rows.
SPECIFICATION Spec
CONSTANTS
    t1 = t1
    t2 = t2
    o1 = o1
    o2 = o2
    k1 = k1
    k2 = k2
    k3 = k3
    v1 = v1
    v2 = v2
    Threads = {t1}
    Objects = {o1}
    Keys = {k1, k2, k3}
    Values = {v1}
    Snapshots <- MCSnapshots
    MaxHandles = 1
    MaxRowsLimit = 2
    ABSENT = ABSENT
    NONE = NONE
PROPERTIES
    BoundedTableIsQueue
