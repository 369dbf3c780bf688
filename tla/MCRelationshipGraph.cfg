SPECIFICATION Spec

CONSTANTS
    ta = ta
    tb = tb
    tc = tc
    k1 = k1
    k2 = k2
    NoTable = NoTable
    NoTxn = NoTxn
    Tables <- MCTables
    Keys <- MCKeys
    MaxEdges = 3

SYMMETRY MCSymmetry

INVARIANTS
    RelTypeOK

PROPERTIES
    DeleteLeavesNoOrphans
    DeleteRemovesItsCone
