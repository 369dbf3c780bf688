--------------------------- MODULE MCDBSyncDrivers ---------------------------
(***************************************************************************)
(* DBSyncDrivers for TLC: the keys and row contents of the example, and    *)
(* its two row lists as the data of every action of the test tool.         *)
(***************************************************************************)
EXTENDS DBSyncDrivers, TLC

CONSTANTS main

MCKeys == {4, 5, 6, 53}

MCValues == {"System", "Systemsss", "Systemaa"}

MCSnapshots == {insert_sql, update_sql}

=============================================================================
