------------------------- MODULE MCRelationshipGraph -------------------------
(***************************************************************************)
(* RelationshipGraph for TLC: three tables, so that a chain of two         *)
(* relationships and a cycle of three can be asked for, and two keys, so   *)
(* that a delete takes one row and leaves its sibling.                     *)
(***************************************************************************)
EXTENDS RelationshipGraph, TLC

CONSTANTS ta, tb, tc, k1, k2

MCTables == {ta, tb, tc}
MCKeys   == {k1, k2}

\* Tables and keys are told apart by nothing but their names.
MCSymmetry == Permutations(MCTables) \cup Permutations(MCKeys)

=============================================================================
