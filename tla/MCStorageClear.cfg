SPECIFICATION Spec
CONSTANTS
    Threads = {t1, t2}
    q1 = q1
    q2 = q2
    m1 = m1
    ty = ty
    md = md
    good = good
    bad = bad
    EMPTY = EMPTY
    NONE = NONE
    TableNames <- MCOneTable
    ModuleNames = {m1}
    ModuleTypes = {}
    Metadata = {}
    Messages = {good, bad}
    BadMessages = {bad}
    StrSize <- MCStrSize
    MaxBatch = 2
    MaxStores = 2
    MaxCount = 1
    MaxCrashes = 1
    MaxBytes = 0
PROPERTIES
    ClearedWhenReturned
