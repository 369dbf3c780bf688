----------------------------- MODULE SerialTxn -----------------------------
(***************************************************************************)
(* What a DBSyncTxn promises its callers, without queue, workers or        *)
(* threads: a transaction over one table takes requests while it is open,  *)
(* and every request it took is carried out once, as one upsert of one     *)
(* row, or skipped when the store refuses it.  getDeletedRows removes the  *)
(* rows that were stored when the transaction was opened and that no       *)
(* request has named, and the transaction closes with nothing left to do.  *)
(*                                                                         *)
(* Requests are carried out in any order: the order of two requests for    *)
(* one key is not part of this promise.                                    *)
(***************************************************************************)

CONSTANTS
    Keys,      \* primary keys
    Values,    \* row contents
    Requests,  \* the rows a caller can pass to syncTxnRow, each with an id
    ABSENT     \* no row under a key

VARIABLES
    table,     \* the stored rows, by key
    pending,   \* the requests taken and not carried out
    phase,     \* "none", "open" or "closed"
    untouched  \* the keys stored at open that no request has named

avars == <<table, pending, phase, untouched>>

Stored == {k \in Keys : table[k] # ABSENT}

AInit ==
    /\ table \in [Keys -> Values \cup {ABSENT}]
    /\ pending = {}
    /\ phase = "none"
    /\ untouched = {}

AOpen ==
    /\ phase = "none"
    /\ phase' = "open"
    /\ untouched' = Stored
    /\ UNCHANGED <<table, pending>>

ASubmit(r) ==
    /\ phase = "open"
    /\ r \notin pending
    /\ pending' = pending \cup {r}
    /\ untouched' = untouched \ {r.key}
    /\ UNCHANGED <<table, phase>>

\* The upsert of one request, or the request skipped.
AApply(r) ==
    /\ r \in pending
    /\ pending' = pending \ {r}
    /\ table' \in {table, [table EXCEPT ![r.key] = r.value]}
    /\ UNCHANGED <<phase, untouched>>

ADrain ==
    /\ phase = "open"
    /\ pending = {}
    /\ table' = [k \in Keys |-> IF k \in untouched THEN ABSENT ELSE table[k]]
    /\ UNCHANGED <<pending, phase, untouched>>

AClose ==
    /\ phase = "open"
    /\ pending = {}
    /\ phase' = "closed"
    /\ UNCHANGED <<table, pending, untouched>>

ANext ==
    \/ AOpen
    \/ \E r \in Requests : ASubmit(r) \/ AApply(r)
    \/ ADrain
    \/ AClose

ASpec == AInit /\ [][ANext]_avars

=============================================================================
