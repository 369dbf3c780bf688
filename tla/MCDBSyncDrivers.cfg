\* The example and the test tool, run one after another.
SPECIFICATION DriversSpec
CONSTANTS
    main = main
    Main = main
    Threads = {main}
    Objects = {}
    Keys <- MCKeys
    Values <- MCValues
    Snapshots <- MCSnapshots
    MaxHandles = 2
    MaxRowsLimit = 2
    MaxPasses = 3
    MaxActions = 2
    ABSENT = ABSENT
    NONE = NONE
CHECK_DEADLOCK FALSE
INVARIANTS
    DriversTypeOK
    ExamplePassesRepeat
    HandleReleasedAtExit
