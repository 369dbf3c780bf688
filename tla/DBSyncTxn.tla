------------------------------ MODULE DBSyncTxn -----------------------------
(***************************************************************************)
(* class DBSyncTxn (src/common/dbsync/include/dbsync.hpp): a transaction   *)
(* over an engine instance, with a bounded queue of rows and a pool of     *)
(* worker threads that upsert them.                                        *)
(*                                                                         *)
(* Producers hold a DBSyncTxn object, the one that opened the transaction  *)
(* or one built from its handle, and call syncTxnRow and getDeletedRows.   *)
(* A row goes to the queue, or, when the queue is full, is upserted by the *)
(* caller.  Workers take rows from the head of the queue.  The destructor  *)
(* of the owner waits for the work to end.  The engine is module DBSync,   *)
(* and can be torn down under the transaction.                             *)
(*                                                                         *)
(* drained and log are history variables.                                  *)
(***************************************************************************)
EXTENDS DBSync

CONSTANTS
    Producers,        \* the threads that call the transaction
    Workers,          \* the threads a pool can have
    HardwareThreads,  \* std::thread::hardware_concurrency()
    MaxQueueSize,     \* bound: largest maxQueueSize passed to the constructor
    MaxRequests       \* bound: calls of syncTxnRow in a behaviour

ASSUME /\ Producers \cup Workers \subseteq Threads
       /\ Producers \cap Workers = {}
       /\ HardwareThreads \in 1..Cardinality(Workers)
       /\ MaxQueueSize \in Nat /\ MaxRequests \in Nat
       /\ MaxHandles >= 1

VARIABLES
    phase,     \* m_txn: "none", "open", "closing" (in the destructor), "closed"
    engine,    \* the DBSYNC_HANDLE the transaction was opened with
    capacity,  \* maxQueueSize
    pool,      \* the worker threads that run
    holds,     \* per producer, its object: "none", "owner" or "wrapper"
    queue,     \* the rows queued
    taken,     \* per worker, the row it took from the queue
    call,      \* per producer, the call of the transaction it is in
    atOpen,    \* the keys stored when the transaction was opened
    touched,   \* the keys syncTxnRow was called with
    next,      \* the number of syncTxnRow calls so far
    drained,   \* history: getDeletedRows has returned
    log        \* history: the rows upserted, in the order of their commits

tvars == <<phase, engine, capacity, pool, holds, queue, taken, call, atOpen,
           touched, next, drained, log>>

txnvars == <<vars, tvars>>

\* A row on its way: id is its place in the order of the calls, queued
\* tells the queue from the caller's own upsert.
Request == [id : 1..MaxRequests, key : Keys, value : Values, queued : BOOLEAN]

Calls == {Idle} \cup [op : {"sync"}, row : Request]
                \cup [op : {"deleted", "close"}]

TxnTypeOK ==
    /\ TypeOK
    /\ phase \in {"none", "open", "closing", "closed"}
    /\ engine \in 0..MaxHandles
    /\ capacity \in 0..MaxQueueSize
    /\ pool \subseteq Workers
    /\ holds \in [Producers -> {"none", "owner", "wrapper"}]
    /\ queue \in Seq(Request) /\ Len(queue) <= capacity
    /\ taken \in [Workers -> Request \cup {NONE}]
    /\ call \in [Producers -> Calls]
    /\ atOpen \subseteq Keys /\ touched \subseteq Keys
    /\ next \in 0..MaxRequests
    /\ drained \in BOOLEAN
    /\ log \in Seq(Request)

\* The rows taken from a caller and not yet upserted or given up.
Outstanding ==
    ToSet(queue)
      \cup {taken[w] : w \in {x \in Workers : taken[x] # NONE}}
      \cup {call[p].row : p \in {x \in Producers : call[x].op = "sync"}}

-----------------------------------------------------------------------------
(* Mutation variants: faults a property of this module must detect *)

\* threadNumber taken as it is, 0 included.
PoolSizeLiteral(threadNumber) == threadNumber

\* Every row is queued, whatever the size of the queue.
SyncTxnRowUnbounded(p, k, v) ==
    /\ holds[p] # "none" /\ call[p] = Idle
    /\ phase \in {"open", "closing"}
    /\ next < MaxRequests
    /\ next' = next + 1
    /\ touched' = touched \cup {k}
    /\ queue' = Append(queue, [id |-> next + 1, key |-> k, value |-> v,
                               queued |-> TRUE])
    /\ UNCHANGED <<vars, phase, engine, capacity, pool, holds, taken, call,
                   atOpen, drained, log>>

\* A worker takes the head of the queue whatever the others are doing.
TakeAnyKey(w) ==
    /\ w \in pool /\ taken[w] = NONE /\ queue # <<>>
    /\ taken' = [taken EXCEPT ![w] = Head(queue)]
    /\ queue' = Tail(queue)
    /\ UNCHANGED <<vars, phase, engine, capacity, pool, holds, call, atOpen,
                   touched, next, drained, log>>

\* The destructor stops the workers before it waits for the queue.
CloseBeginStopsPool(p) ==
    /\ holds[p] = "owner" /\ call[p] = Idle
    /\ phase = "open"
    /\ phase' = "closing"
    /\ pool' = {}
    /\ call' = [call EXCEPT ![p] = [op |-> "close"]]
    /\ UNCHANGED <<vars, engine, capacity, holds, queue, taken, atOpen,
                   touched, next, drained, log>>

\* The destructor does not wait.
CloseEndEarly(p) ==
    /\ call[p].op = "close"
    /\ phase' = "closed"
    /\ pool' = {}
    /\ holds' = [holds EXCEPT ![p] = "none"]
    /\ call' = [call EXCEPT ![p] = Idle]
    /\ UNCHANGED <<vars, engine, capacity, queue, taken, atOpen, touched,
                   next, drained, log>>

\* syncTxnRow does not record the key it was called with.
SyncTxnRowUnmarked(p, k, v) ==
    LET r == [id |-> next + 1, key |-> k, value |-> v,
              queued |-> Len(queue) < capacity]
    IN  /\ holds[p] # "none" /\ call[p] = Idle
        /\ phase \in {"open", "closing"}
        /\ next < MaxRequests
        /\ next' = next + 1
        /\ \/ r.queued /\ queue' = Append(queue, r) /\ UNCHANGED call
           \/ /\ ~r.queued
              /\ call' = [call EXCEPT ![p] = [op |-> "sync", row |-> r]]
              /\ UNCHANGED queue
        /\ UNCHANGED <<vars, phase, engine, capacity, pool, holds, taken,
                       atOpen, touched, drained, log>>

-----------------------------------------------------------------------------
(* Objects: the two constructors and the destructor *)

\* "If 0 hardware concurrency value will be used."
PoolSize(threadNumber) ==
    IF threadNumber = 0 THEN HardwareThreads ELSE threadNumber

Started(threadNumber) ==
    ToSet(SubSeq(SetToSeq(Workers), 1, PoolSize(threadNumber)))

\* The explicit constructor: the transaction is opened on a live engine,
\* with its pool and its queue.
Open(p, h, threadNumber, maxQueueSize) ==
    /\ phase = "none" /\ holds[p] = "none"
    /\ h \in live
    /\ phase' = "open"
    /\ engine' = h
    /\ capacity' = maxQueueSize
    /\ pool' = Started(threadNumber)
    /\ holds' = [holds EXCEPT ![p] = "owner"]
    /\ atOpen' = SelectRows
    /\ UNCHANGED <<vars, queue, taken, call, touched, next, drained, log>>

\* The explicit constructor with a handle the registry does not know.
OpenFails(p, h) ==
    /\ phase = "none" /\ holds[p] = "none"
    /\ StaleCall(p, h)
    /\ UNCHANGED tvars

\* DBSyncTxn(handle): a second object for the transaction.
Attach(p) ==
    /\ holds[p] = "none" /\ phase # "none"
    /\ holds' = [holds EXCEPT ![p] = "wrapper"]
    /\ UNCHANGED <<vars, phase, engine, capacity, pool, queue, taken, call,
                   atOpen, touched, next, drained, log>>

\* ~DBSyncTxn of an object that does not own the transaction.
Release(p) ==
    /\ holds[p] = "wrapper" /\ call[p] = Idle
    /\ holds' = [holds EXCEPT ![p] = "none"]
    /\ UNCHANGED <<vars, phase, engine, capacity, pool, queue, taken, call,
                   atOpen, touched, next, drained, log>>

\* ~DBSyncTxn of the owner begins: the transaction is being closed.
CloseBegin(p) ==
    /\ holds[p] = "owner" /\ call[p] = Idle
    /\ phase = "open"
    /\ phase' = "closing"
    /\ call' = [call EXCEPT ![p] = [op |-> "close"]]
    /\ UNCHANGED <<vars, engine, capacity, pool, holds, queue, taken, atOpen,
                   touched, next, drained, log>>

\* It returns when the queue is empty and every upsert has ended; the
\* handle is invalid from here on.
CloseEnd(p) ==
    /\ call[p].op = "close"
    /\ Outstanding = {}
    /\ phase' = "closed"
    /\ pool' = {}
    /\ holds' = [holds EXCEPT ![p] = "none"]
    /\ call' = [call EXCEPT ![p] = Idle]
    /\ UNCHANGED <<vars, engine, capacity, queue, taken, atOpen, touched,
                   next, drained, log>>

-----------------------------------------------------------------------------
(* syncTxnRow *)

\* "If the max queue size is reached then this will be processed
\* synchronously": the row is queued, or it is the caller's to upsert.
SyncTxnRow(p, k, v) ==
    LET r == [id |-> next + 1, key |-> k, value |-> v,
              queued |-> Len(queue) < capacity]
    IN  /\ holds[p] # "none" /\ call[p] = Idle
        /\ phase \in {"open", "closing"}
        /\ next < MaxRequests
        /\ next' = next + 1
        /\ touched' = touched \cup {k}
        /\ \/ r.queued /\ queue' = Append(queue, r) /\ UNCHANGED call
           \/ /\ ~r.queued
              /\ call' = [call EXCEPT ![p] = [op |-> "sync", row |-> r]]
              /\ UNCHANGED queue
        /\ UNCHANGED <<vars, phase, engine, capacity, pool, holds, taken,
                       atOpen, drained, log>>

\* The engine's syncRow for row r, by thread t: the upsert and its
\* callback; or the engine is gone or the store refuses the row, which is
\* logged, and the row is given up.
Upsert(t, r) ==
    \/ /\ Callable(t, engine)
       /\ db' = Synced(db, r.key, r.value)
       /\ mirror' = Applied(mirror, Change(db, r.key, r.value))
       /\ log' = Append(log, r)
       /\ UNCHANGED <<live, created, objs, maxRows, writer, frame, out,
                      tornDown>>
    \/ UNCHANGED <<vars, log>>

\* The caller's own upsert.
SyncNow(p) ==
    /\ call[p].op = "sync"
    /\ Upsert(p, call[p].row)
    /\ call' = [call EXCEPT ![p] = Idle]
    /\ UNCHANGED <<phase, engine, capacity, pool, holds, queue, taken,
                   atOpen, touched, next, drained>>

\* A call through an object whose transaction is closed.
StaleTxnCall(p) ==
    /\ holds[p] # "none" /\ call[p] = Idle
    /\ phase = "closed"
    /\ out[p] # "HandleError"
    /\ Returns(p, "HandleError")
    /\ UNCHANGED <<live, created, objs, db, maxRows, writer, frame, mirror,
                   tornDown, tvars>>

-----------------------------------------------------------------------------
(* The pool *)

\* A worker takes the head of the queue, unless a row of that key is
\* being upserted: the rows of one key are upserted one after the other.
Take(w) ==
    /\ w \in pool /\ taken[w] = NONE /\ queue # <<>>
    /\ \A x \in Workers : taken[x] # NONE => taken[x].key # Head(queue).key
    /\ taken' = [taken EXCEPT ![w] = Head(queue)]
    /\ queue' = Tail(queue)
    /\ UNCHANGED <<vars, phase, engine, capacity, pool, holds, call, atOpen,
                   touched, next, drained, log>>

Work(w) ==
    /\ taken[w] # NONE
    /\ Upsert(w, taken[w])
    /\ taken' = [taken EXCEPT ![w] = NONE]
    /\ UNCHANGED <<phase, engine, capacity, pool, holds, queue, call, atOpen,
                   touched, next, drained>>

-----------------------------------------------------------------------------
(* getDeletedRows *)

GetDeletedBegin(p) ==
    /\ holds[p] # "none" /\ call[p] = Idle
    /\ phase \in {"open", "closing"}
    /\ call' = [call EXCEPT ![p] = [op |-> "deleted"]]
    /\ UNCHANGED <<vars, phase, engine, capacity, pool, holds, queue, taken,
                   atOpen, touched, next, drained, log>>

\* The rows that were there at open and that no call has named.
Untouched == (atOpen \ touched) \cap SelectRows

\* The work has ended: the rows nobody named are deleted in one engine
\* transaction and the callback is called with each; or the transaction
\* was closed meanwhile, the engine is gone or the store fails, and
\* nothing is deleted.
GetDeletedRun(p) ==
    LET gone == SetToSeq(Untouched) IN
    /\ call[p].op = "deleted"
    /\ Outstanding = {}
    /\ \/ /\ phase # "closed" /\ Callable(p, engine)
          /\ db' = FoldLeft(Deleted, db, gone)
          /\ mirror' = Applied(mirror,
                 FoldLeft(LAMBDA es, k : es \o Removal(db, k), <<>>, gone))
          /\ drained' = TRUE
          /\ UNCHANGED <<live, created, objs, maxRows, writer, frame, out,
                         tornDown>>
       \/ UNCHANGED <<vars, drained>>
    /\ call' = [call EXCEPT ![p] = Idle]
    /\ UNCHANGED <<phase, engine, capacity, pool, holds, queue, taken,
                   atOpen, touched, next, log>>

-----------------------------------------------------------------------------
(* The specification *)

\* An engine that was created and given the rows of a snapshot, and no
\* transaction yet.
TxnInit ==
    /\ live = {1} /\ created = 1
    /\ objs = [o \in Objects |-> NoObject]
    /\ maxRows = 0
    /\ db \in {InsertBatch(Empty, s) : s \in Snapshots}
    /\ writer = NONE
    /\ frame = [t \in Threads |-> Idle]
    /\ out = [t \in Threads |-> "none"]
    /\ mirror = db.rows
    /\ tornDown = {}
    /\ phase = "none" /\ engine = 0 /\ capacity = 0 /\ pool = {}
    /\ holds = [p \in Producers |-> "none"]
    /\ queue = <<>>
    /\ taken = [w \in Workers |-> NONE]
    /\ call = [p \in Producers |-> Idle]
    /\ atOpen = {} /\ touched = {}
    /\ next = 0
    /\ drained = FALSE
    /\ log = <<>>

\* What producer p does next.
Produce(p) ==
    \/ \E h \in Handles, n \in 0..Cardinality(Workers), c \in 0..MaxQueueSize :
          Open(p, h, n, c)
    \/ \E h \in Handles : OpenFails(p, h)
    \/ Attach(p)
    \/ Release(p)
    \/ \E k \in Keys, v \in Values : SyncTxnRow(p, k, v)
    \/ StaleTxnCall(p)
    \/ GetDeletedBegin(p)
    \/ CloseBegin(p)

\* The steps of a call that has begun.
Finish(p) == SyncNow(p) \/ GetDeletedRun(p) \/ CloseEnd(p)

TxnNext ==
    \/ \E p \in Producers : Produce(p) \/ Finish(p)
    \/ \E w \in Workers : Take(w) \/ Work(w)
    \/ Teardown /\ UNCHANGED tvars

TxnSpec == TxnInit /\ [][TxnNext]_txnvars

\* Worker threads run, and a thread that is inside a call goes on.
TxnFairSpec ==
    /\ TxnSpec
    /\ \A w \in Workers : WF_txnvars(Take(w)) /\ WF_txnvars(Work(w))
    /\ \A p \in Producers : WF_txnvars(Finish(p))

-----------------------------------------------------------------------------
(* Refinement *)

Serial == INSTANCE SerialTxn WITH
    Requests  <- Request,
    table     <- db.rows,
    pending   <- Outstanding,
    phase     <- IF phase = "closing" THEN "open" ELSE phase,
    untouched <- atOpen \ touched

-----------------------------------------------------------------------------
(* Properties *)

\* The queue, the pool and the callers together are a transaction that
\* carries out each row once: every step of syncTxnRow, of a worker, of
\* getDeletedRows and of the destructor is a step of SerialTxn.  A table
\* changes by the upsert of one row that was outstanding, getDeletedRows
\* deletes when no row is outstanding, and the destructor returns with
\* nothing queued, taken or in a caller's hands.
Refines == Serial!ASpec

\* Rows of one key that went through the queue are upserted in the order
\* of their syncTxnRow calls, whichever workers took them.
QueuedKeepOrder ==
    \A i, j \in DOMAIN log :
        (i < j /\ log[i].key = log[j].key /\ log[i].queued /\ log[j].queued)
            => log[i].id < log[j].id

\* A stream of syncTxnRow calls followed by getDeletedRows is a snapshot:
\* once getDeletedRows has returned every stored row is one a call named,
\* getDeletedRows never deletes a row that was upserted, before it or
\* after, and the result callbacks have told the consumer of every change,
\* those of the deletions included.
StreamIsSnapshot ==
    /\ mirror = db.rows
    /\ \A i \in DOMAIN log : log[i].key \in SelectRows
    /\ drained => SelectRows \subseteq touched

\* Backpressure loses nothing: a row that syncTxnRow took, into the queue
\* or for the caller's own upsert, is upserted or given up in the end; no
\* row stays in the queue, with pools of one thread and of
\* hardware_concurrency() threads, and after teardown() of the engine.
RowsLeave ==
    \A i \in 1..MaxRequests :
        (\E r \in Outstanding : r.id = i) ~> (\A r \in Outstanding : r.id # i)

\* getDeletedRows and the destructor block until the work has ended, and
\* then return: no caller waits for ever, whatever the others enqueue
\* while it waits.
TxnCallsReturn ==
    \A p \in Producers : (call[p] # Idle) ~> (call[p] = Idle)

\* Operations on one key are never applied out of order: a row whose
\* syncTxnRow call had returned before another call for its key began is
\* upserted before the row of that call, so that the last call wins.  A
\* call returns early when it queues its row; it is about a later row of
\* the key that its caller upserts itself because the queue is full.
PerKeyOrder ==
    \A i, j \in DOMAIN log :
        (i < j /\ log[i].key = log[j].key /\ log[j].queued)
            => log[i].id < log[j].id

=============================================================================
