----------------------------- MODULE MCStorage -----------------------------
(***************************************************************************)
(* Storage instantiated for TLC: two threads, two tables, messages of      *)
(* sizes 1 and 2 of which one cannot be dumped.                            *)
(***************************************************************************)
EXTENDS Storage, TLC

CONSTANTS q1, q2, m1, ty, md, good, bad

MCTableNames == <<q1, q2>>

MCOneTable == <<q1>>

MCStrSize == (EMPTY :> 0) @@ (m1 :> 1) @@ (ty :> 1) @@ (md :> 1) @@
             (good :> 2) @@ (bad :> 1)

ThreadSymmetry == Permutations(Threads)

=============================================================================
