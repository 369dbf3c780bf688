------------------------------ MODULE MCDBSync ------------------------------
(***************************************************************************)
(* DBSync for TLC: two threads, two objects, two keys and two row          *)
(* contents, and every snapshot of at most two rows; or one thread and     *)
(* three keys under a bound of two rows.                                   *)
(***************************************************************************)
EXTENDS DBSync, TLC

CONSTANTS t1, t2, o1, o2, k1, k2, k3, v1, v2

\* Every list of at most MaxSnapshot rows that names a key once.
MaxSnapshot == 2

MCSnapshots ==
    {s \in BoundedSeq(RowOf, MaxSnapshot) :
        \A i, j \in DOMAIN s : s[i].key = s[j].key => i = j}

\* Threads, objects and row contents are interchangeable; keys are not,
\* since the deletion phase walks them in a fixed order.
Interchangeable ==
    Permutations({t1, t2}) \cup Permutations({o1, o2}) \cup Permutations({v1, v2})

=============================================================================
