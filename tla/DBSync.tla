------------------------------- MODULE DBSync -------------------------------
(***************************************************************************)
(* The synchronisation engine behind class DBSync                          *)
(* (src/common/dbsync/include/dbsync.hpp) and the C interface the driver   *)
(* programs use (example/main.cpp, testtool/main.cpp).                     *)
(*                                                                         *)
(* The library keeps a registry of handles.  A handle names an engine      *)
(* instance over one database file with one table, a function from         *)
(* primary key to row content.  C++ objects own a handle (the explicit     *)
(* constructor) or borrow one (the constructor from a handle).  Threads    *)
(* call the engine with whatever handle they hold, live or not.            *)
(*                                                                         *)
(* updateWithSnapshot is one action per row, on a working copy that        *)
(* reaches the table at commit, so that readers, a failure of the store    *)
(* and teardown fall between its steps.  The other calls are one           *)
(* transaction each.  mirror and tornDown are history variables.           *)
(***************************************************************************)
EXTENDS Integers, Sequences, FiniteSets, SequencesExt

CONSTANTS
    Threads,     \* the threads that call into the library
    Objects,     \* the DBSync objects a program can have
    Keys,        \* primary keys (pid)
    Values,      \* row contents: all columns but the key
    Snapshots,   \* the row lists a caller passes
    MaxHandles,  \* bound: handles the registry gives out in a behaviour
    MaxRowsLimit,\* bound: largest maxRows passed to setTableMaxRow
    ABSENT,      \* no row under a key
    NONE         \* no thread, no object

Modes   == {"VOLATILE", "PERSISTENT"}
Handles == 1..MaxHandles

RowOf == [key : Keys, value : Values]

ASSUME /\ MaxHandles \in Nat /\ MaxRowsLimit \in Nat
       /\ ABSENT \notin Values
       \* A snapshot names a primary key once.
       /\ \A s \in Snapshots :
             /\ s \in Seq(RowOf)
             /\ \A i, j \in DOMAIN s : s[i].key = s[j].key => i = j

VARIABLES
    live,     \* the registry: the handles of live instances
    created,  \* the number of handles given out
    objs,     \* per object, m_dbsyncHandle and m_shouldBeRemoved
    db,       \* the table: committed rows, and their keys in insertion order
    maxRows,  \* the bound of the table, 0 when it has none
    writer,   \* the thread whose write transaction is open, or NONE
    frame,    \* per thread, the updateWithSnapshot it is in
    out,      \* per thread, how its last call ended
    mirror,   \* history: the table as the result callbacks describe it
    tornDown  \* history: the handles teardown() released

vars == <<live, created, objs, db, maxRows, writer, frame, out, mirror,
          tornDown>>

-----------------------------------------------------------------------------
(* Tables and changesets *)

Content == [Keys -> Values \cup {ABSENT}]

\* The primary key is unique: order lists the stored keys, each once.
Database ==
    {d \in [rows : Content, order : Seq(Keys)] :
        /\ ToSet(d.order) = {k \in Keys : d.rows[k] # ABSENT}
        /\ IsInjective(d.order)}

Empty == [rows |-> [k \in Keys |-> ABSENT], order |-> <<>>]

\* A changeset entry.  old is ABSENT for an insertion, new for a deletion.
Entry == [type : {"INSERTED", "MODIFIED", "DELETED"}, key : Keys,
          old : Values \cup {ABSENT}, new : Values \cup {ABSENT}]

NoObject == [handle |-> 0, shouldBeRemoved |-> FALSE]

Idle == [op |-> "idle"]

Frames ==
    {Idle} \cup
    [op : {"update"}, handle : Handles, work : Database,
     pending : Seq([key : Keys, value : Values \cup {ABSENT}]),
     result : Seq(Entry)]

\* What a call returns: 0 through the C interface when it is "ok".
Outcomes == {"none", "ok", "HandleError", "SyncFailure"}

TypeOK ==
    /\ live \subseteq Handles
    /\ created \in 0..MaxHandles
    /\ objs \in [Objects -> [handle : 0..MaxHandles, shouldBeRemoved : BOOLEAN]]
    /\ db \in Database
    /\ maxRows \in 0..MaxRowsLimit
    /\ writer \in Threads \cup {NONE}
    /\ frame \in [Threads -> Frames]
    /\ out \in [Threads -> Outcomes]
    /\ mirror \in Content
    /\ tornDown \subseteq Handles

-----------------------------------------------------------------------------
(* Mutation variants: faults a property of this module must detect *)

\* A DBSync built from a handle that releases it in its destructor.
OwningWrapper(h) == [handle |-> h, shouldBeRemoved |-> TRUE]

\* A bound that pushes out the row stored last instead of the oldest one.
EvictNewestStored(d, limit) ==
    IF limit = 0 \/ Len(d.order) <= limit THEN d
    ELSE LET kept == SubSeq(d.order, 1, limit - 1) \o <<Last(d.order)>>
         IN  [rows  |-> [k \in Keys |-> IF k \in ToSet(kept) THEN d.rows[k]
                                        ELSE ABSENT],
              order |-> kept]

-----------------------------------------------------------------------------
(* Rows: insert with the bounded-table policy, update, delete *)

\* setTableMaxRow: "the table will work as a queue if the limit is
\* exceeded".  The oldest rows by insertion order go first.
Evict(d, limit) ==
    IF limit = 0 \/ Len(d.order) <= limit THEN d
    ELSE LET kept == SubSeq(d.order, Len(d.order) - limit + 1, Len(d.order))
         IN  [rows  |-> [k \in Keys |-> IF k \in ToSet(kept) THEN d.rows[k]
                                        ELSE ABSENT],
              order |-> kept]

Inserted(d, k, v) ==
    Evict([rows |-> [d.rows EXCEPT ![k] = v], order |-> Append(d.order, k)],
          maxRows)

Updated(d, k, v) == [d EXCEPT !.rows[k] = v]

Deleted(d, k) == [rows  |-> [d.rows EXCEPT ![k] = ABSENT],
                  order |-> SelectSeq(d.order, LAMBDA x : x # k)]

\* Mutation variant of Change: a stored row is reported as modified without
\* being compared with the incoming one.
ChangeUncompared(d, k, v) ==
    <<[type |-> IF d.rows[k] = ABSENT THEN "INSERTED" ELSE "MODIFIED",
       key |-> k, old |-> d.rows[k], new |-> v]>>

\* syncRow: what the result callback is called with for row <<k, v>>.
\* An absent key is an insertion, a differing row a modification, an equal
\* row nothing.
Change(d, k, v) ==
    IF d.rows[k] = ABSENT
    THEN <<[type |-> "INSERTED", key |-> k, old |-> ABSENT, new |-> v]>>
    ELSE IF d.rows[k] # v
         THEN <<[type |-> "MODIFIED", key |-> k, old |-> d.rows[k], new |-> v]>>
         ELSE <<>>

\* syncRow: the table after row <<k, v>> is inserted or modified.
Synced(d, k, v) ==
    IF d.rows[k] = ABSENT THEN Inserted(d, k, v) ELSE Updated(d, k, v)

\* The deletion phase of a snapshot: the callback for key k, and nothing
\* when the key is already gone.
Removal(d, k) ==
    IF d.rows[k] = ABSENT THEN <<>>
    ELSE <<[type |-> "DELETED", key |-> k, old |-> d.rows[k], new |-> ABSENT]>>

\* insertData: every row whose key is free is inserted, the others skipped.
InsertBatch(d, data) ==
    FoldLeft(LAMBDA acc, r : IF acc.rows[r.key] = ABSENT
                             THEN Inserted(acc, r.key, r.value) ELSE acc,
             d, data)

\* The table a consumer arrives at from `known` by applying the entries it
\* was called back with.
Applied(known, entries) ==
    FoldLeft(LAMBDA m, e : [m EXCEPT ![e.key] = e.new], known, entries)

\* selectRows: the rows a reader of the table is given.
SelectRows == {k \in Keys : db.rows[k] # ABSENT}

-----------------------------------------------------------------------------
(* The registry: dbsync_create, DBSync objects, teardown *)

\* m_dbsyncHandle and m_shouldBeRemoved of an object from the explicit
\* constructor, and of one from DBSync(handle).
Owner(h)   == [handle |-> h, shouldBeRemoved |-> TRUE]
Wrapper(h) == [handle |-> h, shouldBeRemoved |-> FALSE]

\* Mutation variant of Create: a volatile database is opened as it was left.
CreateAsLeft(o, mode) ==
    /\ live = {} /\ writer = NONE
    /\ created < MaxHandles
    /\ o # NONE => objs[o] = NoObject
    /\ created' = created + 1
    /\ live' = {created + 1}
    /\ objs' = IF o = NONE THEN objs
               ELSE [objs EXCEPT ![o] = Owner(created + 1)]
    /\ mirror' = db.rows
    /\ UNCHANGED <<db, maxRows, writer, frame, out, tornDown>>

\* dbsync_create, dbsync_create_persistent and the explicit constructor
\* (o is the object, NONE through the C interface).  A volatile database
\* is made anew at startup, a persistent one is opened as it was left.
\* The instances are those over one database path, one at a time.
Create(o, mode) ==
    /\ live = {} /\ writer = NONE
    /\ created < MaxHandles
    /\ o # NONE => objs[o] = NoObject
    /\ created' = created + 1
    /\ live' = {created + 1}
    /\ objs' = IF o = NONE THEN objs
               ELSE [objs EXCEPT ![o] = Owner(created + 1)]
    /\ db' = IF mode = "VOLATILE" THEN Empty ELSE db
    /\ maxRows' = IF mode = "VOLATILE" THEN 0 ELSE maxRows
    /\ mirror' = db'.rows
    /\ UNCHANGED <<writer, frame, out, tornDown>>

\* DBSync(handle): a second object for an instance that exists, or existed.
Wrap(o, h) ==
    /\ objs[o] = NoObject
    /\ h \in 1..created
    /\ objs' = [objs EXCEPT ![o] = Wrapper(h)]
    /\ UNCHANGED <<live, created, db, maxRows, writer, frame, out, mirror,
                   tornDown>>

\* ~DBSync releases the instance when the object owns it.
Destroy(o) ==
    /\ objs[o] # NoObject
    /\ live' = IF objs[o].shouldBeRemoved THEN live \ {objs[o].handle}
               ELSE live
    /\ objs' = [objs EXCEPT ![o] = NoObject]
    /\ UNCHANGED <<created, db, maxRows, writer, frame, out, mirror, tornDown>>

\* DBSync::teardown, dbsync_teardown: every instance of the library goes,
\* whatever objects and calls still refer to it.
Teardown ==
    /\ live # {}
    /\ live' = {}
    /\ tornDown' = tornDown \cup live
    /\ UNCHANGED <<created, objs, db, maxRows, writer, frame, out, mirror>>

-----------------------------------------------------------------------------
(* Calls that are one transaction *)

Returns(t, status) == out' = [out EXCEPT ![t] = status]

\* A call by t on a live instance, with no write transaction in its way.
Callable(t, h) == frame[t] = Idle /\ h \in live /\ writer = NONE

\* Any call with a handle that is not in the registry.
StaleCall(t, h) ==
    /\ frame[t] = Idle
    /\ h \in (1..created) \ live
    /\ Returns(t, "HandleError")
    /\ UNCHANGED <<live, created, objs, db, maxRows, writer, frame, mirror,
                   tornDown>>

\* Mutation variant of InsertData: a row whose key is taken is not skipped.
InsertDataUnchecked(t, h, data) ==
    /\ Callable(t, h)
    /\ db' = FoldLeft(LAMBDA acc, r :
                         [rows  |-> [acc.rows EXCEPT ![r.key] = r.value],
                          order |-> Append(acc.order, r.key)], db, data)
    /\ mirror' = db'.rows
    /\ Returns(t, "ok")
    /\ UNCHANGED <<live, created, objs, maxRows, writer, frame, tornDown>>

\* insertData has no result callback: its caller knows what it inserted.
InsertData(t, h, data) ==
    /\ Callable(t, h)
    /\ db' = InsertBatch(db, data)
    /\ mirror' = db'.rows
    /\ Returns(t, "ok")
    /\ UNCHANGED <<live, created, objs, maxRows, writer, frame, tornDown>>

\* The store fails and the call reports it; nothing was written.
CallFails(t, h) ==
    /\ Callable(t, h)
    /\ Returns(t, "SyncFailure")
    /\ UNCHANGED <<live, created, objs, db, maxRows, writer, frame, mirror,
                   tornDown>>

SetTableMaxRow(t, h, n) ==
    /\ Callable(t, h)
    /\ maxRows' = n
    /\ Returns(t, "ok")
    /\ UNCHANGED <<live, created, objs, db, writer, frame, mirror, tornDown>>

\* Mutation variant of SyncRow: the result callback is not called.
SyncRowSilent(t, h, k, v) ==
    /\ Callable(t, h)
    /\ db' = Synced(db, k, v)
    /\ Returns(t, "ok")
    /\ UNCHANGED <<live, created, objs, maxRows, writer, frame, mirror,
                   tornDown>>

\* syncRow: the row is inserted or modified and the callback told which.
SyncRow(t, h, k, v) ==
    /\ Callable(t, h)
    /\ db' = Synced(db, k, v)
    /\ mirror' = Applied(mirror, Change(db, k, v))
    /\ Returns(t, "ok")
    /\ UNCHANGED <<live, created, objs, maxRows, writer, frame, tornDown>>

\* deleteRows, with a filter that matches the keys in ks; no callback.
DeleteRows(t, h, ks) ==
    /\ Callable(t, h)
    /\ db' = FoldLeft(Deleted, db, SetToSeq(ks))
    /\ mirror' = db'.rows
    /\ Returns(t, "ok")
    /\ UNCHANGED <<live, created, objs, maxRows, writer, frame, tornDown>>

-----------------------------------------------------------------------------
(* updateWithSnapshot *)

Enter(t, f) == frame' = [frame EXCEPT ![t] = f]

\* The rows of the snapshot in the order given, then the stored keys the
\* snapshot does not name, to be deleted.
Worklist(snapshot) ==
    LET named == {snapshot[i].key : i \in DOMAIN snapshot}
        gone  == SetToSeq({k \in Keys : db.rows[k] # ABSENT} \ named)
    IN  snapshot \o [i \in DOMAIN gone |-> [key |-> gone[i], value |-> ABSENT]]

\* Mutation variant of UpdateBegin: the snapshot is applied without the
\* store's write transaction.
UpdateBeginUnlocked(t, h, snapshot) ==
    /\ Callable(t, h)
    /\ Enter(t, [op |-> "update", handle |-> h, work |-> db,
                 pending |-> Worklist(snapshot), result |-> <<>>])
    /\ UNCHANGED <<live, created, objs, db, maxRows, writer, out, mirror,
                   tornDown>>

\* updateWithSnapshot begins: the write transaction, and the work to do.
UpdateBegin(t, h, snapshot) ==
    /\ Callable(t, h)
    /\ writer' = t
    /\ Enter(t, [op |-> "update", handle |-> h, work |-> db,
                 pending |-> Worklist(snapshot), result |-> <<>>])
    /\ UNCHANGED <<live, created, objs, db, maxRows, out, mirror, tornDown>>

\* One row of the work list: classified, and applied inside the transaction.
UpdateRow(t) ==
    LET f == frame[t]
        r == Head(f.pending)
    IN  /\ f.op = "update" /\ f.pending # <<>> /\ f.handle \in live
        /\ Enter(t, [f EXCEPT
              !.pending = Tail(@),
              !.work    = IF r.value = ABSENT THEN Deleted(@, r.key)
                          ELSE Synced(@, r.key, r.value),
              !.result  = @ \o (IF r.value = ABSENT THEN Removal(f.work, r.key)
                                ELSE Change(f.work, r.key, r.value))])
        /\ UNCHANGED <<live, created, objs, db, maxRows, writer, out, mirror,
                       tornDown>>

\* The transaction ends and the call returns.
Leave(t, status) ==
    /\ writer' = NONE
    /\ Enter(t, Idle)
    /\ Returns(t, status)

\* Mutation variant of UpdateCommit: the handle is not looked up again.
CommitUnchecked(t) ==
    LET f == frame[t] IN
    /\ f.op = "update" /\ f.pending = <<>>
    /\ db' = f.work
    /\ mirror' = Applied(mirror, f.result)
    /\ Leave(t, "ok")
    /\ UNCHANGED <<live, created, objs, maxRows, tornDown>>

UpdateCommit(t) ==
    LET f == frame[t] IN
    /\ f.op = "update" /\ f.pending = <<>> /\ f.handle \in live
    /\ db' = f.work
    /\ mirror' = Applied(mirror, f.result)
    /\ Leave(t, "ok")
    /\ UNCHANGED <<live, created, objs, maxRows, tornDown>>

\* The store fails at some row or at the commit: the transaction is rolled
\* back and the table is as it was before the call.
UpdateFails(t) ==
    /\ frame[t].op = "update" /\ frame[t].handle \in live
    /\ Leave(t, "SyncFailure")
    /\ UNCHANGED <<live, created, objs, db, maxRows, mirror, tornDown>>

\* The instance was released while the call was in it.
UpdateStale(t) ==
    /\ frame[t].op = "update" /\ frame[t].handle \notin live
    /\ Leave(t, "HandleError")
    /\ UNCHANGED <<live, created, objs, db, maxRows, mirror, tornDown>>

-----------------------------------------------------------------------------
(* The specification *)

Init ==
    /\ live = {}
    /\ created = 0
    /\ objs = [o \in Objects |-> NoObject]
    /\ db = Empty
    /\ maxRows = 0
    /\ writer = NONE
    /\ frame = [t \in Threads |-> Idle]
    /\ out = [t \in Threads |-> "none"]
    /\ mirror = Empty.rows
    /\ tornDown = {}

Registry ==
    \/ \E o \in Objects \cup {NONE}, mode \in Modes : Create(o, mode)
    \/ \E o \in Objects, h \in Handles : Wrap(o, h)
    \/ \E o \in Objects : Destroy(o)
    \/ Teardown

\* A call of thread t with handle h.
Operation(t, h) ==
    \/ StaleCall(t, h)
    \/ CallFails(t, h)
    \/ \E data \in Snapshots : InsertData(t, h, data)
    \/ \E n \in 1..MaxRowsLimit : SetTableMaxRow(t, h, n)
    \/ \E k \in Keys, v \in Values : SyncRow(t, h, k, v)
    \/ \E ks \in SUBSET Keys : DeleteRows(t, h, ks)
    \/ \E snapshot \in Snapshots : UpdateBegin(t, h, snapshot)

Call(t) == \E h \in Handles : Operation(t, h)

Step(t) == UpdateRow(t) \/ UpdateCommit(t) \/ UpdateFails(t) \/ UpdateStale(t)

Next == Registry \/ \E t \in Threads : Call(t) \/ Step(t)

Spec == Init /\ [][Next]_vars

-----------------------------------------------------------------------------
(* Properties *)

\* A consumer that applies the entries its result callbacks are given knows
\* the table: every stored row is in its copy with the stored content, and
\* while the table has no bound the copy holds nothing else.  It is about
\* syncRow and updateWithSnapshot reporting every row they insert, modify
\* or delete, once, and reporting nothing of a snapshot that failed.
ConsumerMirrorsTable ==
    /\ \A k \in SelectRows : mirror[k] = db.rows[k]
    /\ maxRows = 0 => mirror = db.rows

\* updateWithSnapshot is atomic: while a thread is in it the table does not
\* change, so that a reader sees the rows before the call or the snapshot
\* and never a part of it.
NoPartialSnapshot ==
    [][\A t \in Threads :
          frame[t].op = "update" /\ frame'[t].op = "update" => db' = db
      ]_vars

\* Diff completeness: the changeset of a snapshot that commits is the
\* difference between the table before the call and the table after it.
\* Every key whose row changed has one entry, of the type and with the old
\* and new content of that change, and a key whose row did not change has
\* none, however the rows are ordered in the snapshot.  It is about
\* updateWithSnapshot classifying each row against the stored one; a table
\* with a bound also loses rows to eviction, which no entry reports.
ChangesetIsTheDiff ==
    [][\A t \in Threads :
          /\ frame[t].op = "update" /\ frame'[t] = Idle /\ out'[t] = "ok"
          /\ maxRows = 0
          => \A k \in Keys :
                LET was == db.rows[k]
                    is  == db'.rows[k]
                IN  SelectSeq(frame[t].result, LAMBDA e : e.key = k) =
                      IF was = is THEN <<>>
                      ELSE <<[type |-> IF was = ABSENT THEN "INSERTED"
                                       ELSE IF is = ABSENT THEN "DELETED"
                                       ELSE "MODIFIED",
                              key |-> k, old |-> was, new |-> is]>>
      ]_vars

\* The destructor of a DBSync built from a handle leaves the instance to
\* the object that owns it (m_shouldBeRemoved): an owner's handle is live
\* unless teardown() released it.
OwnerKeepsHandle ==
    \A o \in Objects :
        objs[o].shouldBeRemoved => objs[o].handle \in live \cup tornDown

\* After teardown() no call changes the table, a call that was inside
\* updateWithSnapshot when the instance went included.
NoChangeAfterRelease ==
    [][live = {} /\ live' = {} => db' = db]_vars

\* The tables a step writes: the stored one, by a call that is one
\* transaction, and the working copy of each updateWithSnapshot, row by row.
Writes ==
    (IF frame' = frame THEN {<<db, db'>>} ELSE {}) \cup
    {<<frame[t].work, frame'[t].work>> :
        t \in {u \in Threads : frame[u].op = "update" /\ frame'[u].op = "update"}}

\* setTableMaxRow makes the table a queue.  A write that inserts leaves at
\* most maxRows rows; the rows it keeps are the ones stored last, in the
\* order they had, with the new ones behind them; and it pushes a row out
\* only when the table is full.  It is about the eviction insertData,
\* syncRow and updateWithSnapshot run after each row they insert, each row
\* of a snapshot included.  The last three clauses leave aside an
\* insertData that pushes a stored key out and inserts it again.
BoundedTableIsQueue ==
    [][maxRows # 0 /\ maxRows' = maxRows =>
         \A w \in Writes :
            LET before == w[1].order
                after  == w[2].order
                stay   == SelectSeq(after, LAMBDA k : k \in ToSet(before))
                come   == SelectSeq(after, LAMBDA k : k \notin ToSet(before))
            IN  come # <<>> =>
                  /\ Len(after) <= maxRows
                  /\ after = stay \o come =>
                        /\ IsSuffix(stay, before)
                        /\ stay # before => Len(after) = maxRows
      ]_vars

=============================================================================
