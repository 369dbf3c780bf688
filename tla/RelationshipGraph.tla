-------------------------- MODULE RelationshipGraph --------------------------
(***************************************************************************)
(* The registry of cascading rules between tables that                     *)
(* DBSync::addTableRelationship fills, and the deletes that consult it.    *)
(* The header declares the calls; what they do is the design's: an edge    *)
(* is accepted when both tables exist and a topological sort of the graph  *)
(* with the new edge succeeds, and a delete removes the rows asked for and *)
(* the rows that depend on them inside one transaction, which rolls back   *)
(* as a whole when a removal fails.                                        *)
(*                                                                         *)
(* A row is its primary key and one referencing column; an edge says that  *)
(* the referencing column of the target table holds keys of the base       *)
(* table.  The engine's calls are synchronous and the store admits one     *)
(* writer, so one call runs at a time; other connections read the          *)
(* committed rows while it runs.                                           *)
(***************************************************************************)
EXTENDS Naturals, FiniteSets

CONSTANTS
    Tables,   \* the tables the schema statement created
    NoTable,  \* a table name the schema does not have
    Keys,     \* primary keys, and the values of the referencing column
    NoTxn,    \* the value of txn while no delete is in progress
    MaxEdges  \* bound: relationships registered in a behaviour

ASSUME
    /\ IsFiniteSet(Tables) /\ IsFiniteSet(Keys)
    /\ NoTable \notin Tables
    /\ MaxEdges \in Nat

VARIABLES
    edges,  \* the relationships registered
    rows,   \* rows[t][k]: the referencing column of row k of t, or ABSENT
    txn,    \* the delete in progress: the rows at its start, the rows the
            \* query matched and the removals still to do
    out     \* how the last call ended

vars == <<edges, rows, txn, out>>

ABSENT == "absent"

Actions      == {"CascadeDelete", "CascadeUpdate"}
Relationship == [baseTable : Tables \cup {NoTable},
                 targetTable : Tables \cup {NoTable}, action : Actions]
Contents     == [Tables -> [Keys -> Keys \cup {ABSENT}]]
Outcomes     == {"none", "ok", "ConfigurationError", "PerRowError",
                 "SyncFailure"}

\* Mutation variant of Visible: the removals are not held in a transaction.
VisibleAtOnce == rows

\* What another connection reads: the rows as of the last commit.
Visible == IF txn = NoTxn THEN rows ELSE txn.saved

\* Mutation variant of Known: the referenced tables are not looked up.
KnownUnchecked(e) == TRUE

\* Both ends of the relationship are tables of the schema.
Known(e) == {e.baseTable, e.targetTable} \subseteq Tables

\* The topological sort: take away the tables no remaining table points to,
\* again and again; the graph has no cycle when none is left.
RECURSIVE Sorts(_, _)
Sorts(ts, E) ==
    LET free == {t \in ts : ~\E e \in E : e.targetTable = t /\ e.baseTable \in ts}
    IN  ts = {} \/ (free # {} /\ Sorts(ts \ free, E))

KeepsAcyclic(e) == Sorts(Tables, edges \cup {e})

AddRelationship(e) ==
    /\ txn = NoTxn /\ Cardinality(edges \cup {e}) <= MaxEdges
    /\ Known(e) /\ KeepsAcyclic(e)
    /\ edges' = edges \cup {e}
    /\ out' = "ok"
    /\ UNCHANGED <<rows, txn>>

AddRelationshipFails(e) ==
    /\ txn = NoTxn
    /\ ~(Known(e) /\ KeepsAcyclic(e))
    /\ out' = "ConfigurationError"
    /\ UNCHANGED <<edges, rows, txn>>

\* insertData of one row: a key the table has is a constraint violation, and
\* the row is skipped.
InsertData(t, k, r) ==
    /\ txn = NoTxn
    /\ \/ /\ rows[t][k] = ABSENT
          /\ rows' = [rows EXCEPT ![t][k] = r]
          /\ out' = "ok"
       \/ /\ rows[t][k] # ABSENT
          /\ out' = "PerRowError"
          /\ UNCHANGED rows
    /\ UNCHANGED <<edges, txn>>

\* Mutation variant of Dependents: the action of the relationship is not
\* looked at, and a CascadeUpdate relationship removes rows too.
DependentsAnyAction(t, k) ==
    {p \in Tables \X Keys :
        /\ rows[p[1]][p[2]] = k
        /\ \E e \in edges : e.baseTable = t /\ e.targetTable = p[1]}

\* The rows a CascadeDelete relationship removes after row k of table t.
Dependents(t, k) ==
    {p \in Tables \X Keys :
        /\ rows[p[1]][p[2]] = k
        /\ \E e \in edges : /\ e.baseTable = t /\ e.targetTable = p[1]
                            /\ e.action = "CascadeDelete"}

\* deleteRows, and the deletion phase of updateWithSnapshot: the transaction
\* opens with the rows the query matched.
DeleteBegin(t, ks) ==
    /\ txn = NoTxn
    /\ txn' = [saved |-> rows, asked |-> {t} \X ks, work |-> {t} \X ks]
    /\ out' = "none"
    /\ UNCHANGED <<edges, rows>>

\* One removal, and the graph consulted for the rows that go with it.
CascadeStep(p) ==
    /\ txn # NoTxn /\ p \in txn.work
    /\ rows' = [rows EXCEPT ![p[1]][p[2]] = ABSENT]
    /\ txn' = [txn EXCEPT !.work = (@ \ {p}) \cup
                  IF rows[p[1]][p[2]] = ABSENT THEN {}
                  ELSE Dependents(p[1], p[2])]
    /\ UNCHANGED <<edges, out>>

DeleteCommit ==
    /\ txn # NoTxn /\ txn.work = {}
    /\ txn' = NoTxn
    /\ out' = "ok"
    /\ UNCHANGED <<edges, rows>>

\* A removal fails in the store: the delete rolls back, the triggering rows
\* included.
DeleteFails ==
    /\ txn # NoTxn /\ txn.work # {}
    /\ rows' = txn.saved
    /\ txn' = NoTxn
    /\ out' = "SyncFailure"
    /\ UNCHANGED edges

Init ==
    /\ edges = {}
    /\ rows = [t \in Tables |-> [k \in Keys |-> ABSENT]]
    /\ txn = NoTxn
    /\ out = "none"

Next ==
    \/ \E e \in Relationship : AddRelationship(e) \/ AddRelationshipFails(e)
    \/ \E t \in Tables, k, r \in Keys : InsertData(t, k, r)
    \/ \E t \in Tables, ks \in SUBSET Keys : DeleteBegin(t, ks)
    \/ \E p \in Tables \X Keys : CascadeStep(p)
    \/ DeleteCommit
    \/ DeleteFails

Spec == Init /\ [][Next]_vars

-----------------------------------------------------------------------------

RelTypeOK ==
    /\ edges \subseteq [baseTable : Tables, targetTable : Tables, action : Actions]
    /\ rows \in Contents
    /\ txn \in {NoTxn} \cup [saved : Contents, asked : SUBSET (Tables \X Keys),
                             work : SUBSET (Tables \X Keys)]
    /\ out \in Outcomes

\* The rows of R that a CascadeDelete relationship ties to a row R lacks.
Orphans(R, E) ==
    {p \in Tables \X Keys :
        /\ R[p[1]][p[2]] # ABSENT
        /\ \E e \in E : /\ e.targetTable = p[1] /\ e.action = "CascadeDelete"
                        /\ R[e.baseTable][R[p[1]][p[2]]] = ABSENT}

\* Cascades run inside the transaction of the delete that causes them: no
\* connection ever reads a table whose row is gone while the rows that
\* depended on it, at any depth of the graph, are still there, while the
\* delete runs, when it commits and when a removal fails and it rolls back.
\* It is about deleteRows walking the relationships of the rows it removes.
DeleteLeavesNoOrphans ==
    [][(\A t \in Tables, k \in Keys :
            Visible'[t][k] # ABSENT => Visible[t][k] # ABSENT)
         => Orphans(Visible', edges') \subseteq Orphans(Visible, edges')
      ]_vars

\* The rows asked for and, of the rows of R, the ones a chain of at most n
\* CascadeDelete relationships makes depend on them.
RECURSIVE Cone(_, _, _)
Cone(R, asked, n) ==
    LET DependsOn(q, p) ==
            /\ R[p[1]][p[2]] # ABSENT /\ R[q[1]][q[2]] = p[2]
            /\ \E e \in edges : /\ e.baseTable = p[1] /\ e.targetTable = q[1]
                                /\ e.action = "CascadeDelete"
    IN  IF n = 0 THEN asked
        ELSE Cone(R, asked \cup {q \in Tables \X Keys :
                                   \E p \in asked : DependsOn(q, p)}, n - 1)

\* A delete that commits has removed the rows the query matched and the
\* rows that depended on them through CascadeDelete relationships, at every
\* depth an acyclic graph has, and no other row: the removals deleteRows
\* works through, one row at a time, add up to the closure of the
\* relationships over the rows the call found.
DeleteRemovesItsCone ==
    [][txn # NoTxn /\ txn' = NoTxn /\ out' = "ok" =>
         LET Removed == Cone(txn.saved, txn.asked, Cardinality(Tables)) IN
         \A t \in Tables, k \in Keys :
             rows'[t][k] = IF <<t, k>> \in Removed
                           THEN ABSENT ELSE txn.saved[t][k]
      ]_vars

=============================================================================
