----------------------------- MODULE MCDBSyncTxn ----------------------------
(***************************************************************************)
(* DBSyncTxn for TLC: two producers, a pool of at most two workers, two    *)
(* keys and two row contents, over a table that holds one row.             *)
(***************************************************************************)
EXTENDS DBSyncTxn, TLC

CONSTANTS p1, p2, w1, w2, k1, k2, v1, v2

MCThreads == {p1, p2, w1, w2}

\* The row the engine was given before the transaction is opened: k1 is
\* there to be modified or deleted, k2 to be inserted.
MCSnapshots == { <<[key |-> k1, value |-> v1]>> }

=============================================================================
