# TLA+ models of the wazuh-agent storage and synchronisation code

This directory holds the TLA+ specifications kept beside the agent's sources,
the TLC configurations that check them, and `PROJECT.json`, which lists the
components, the runs, the map from definitions to source lines, the mutation
variant of every property, the findings and the hazards.

Run a configuration with `tlc -workers 2 -config <file>.cfg <MC module>`, for
example `tlc -workers 2 -config MCDBSyncTxn.cfg MCDBSyncTxn`.

## The system

| Part | Source | State | Operations |
|---|---|---|---|
| `Storage`, the message store of the multi-type queue | `src/agent/multitype_queue/src/storage.cpp` | one database connection `m_db`, one `m_mutex` | constructor, `CreateTable`, `Store`, `RemoveMultiple`, `Clear`, `RetrieveMultiple`, `RetrieveBySize`, `GetElementCount`, `GetElementsStoredSize` |
| Persistence layer behind `m_db` | not in `src/` | tables of rows keyed by `rowid`, a file, one open transaction | `TableExists`, `CreateTable`, `Insert`, `Select`, `Remove`, `BeginTransaction`, `CommitTransaction` |
| `DBSync`, the synchronisation engine | `src/common/dbsync/include/dbsync.hpp` (declarations) | a registry of handles, a table, `maxRows` | `DBSync(...)`, `DBSync(handle)`, `~DBSync`, `teardown`, `insertData`, `setTableMaxRow`, `syncRow`, `selectRows`, `deleteRows`, `updateWithSnapshot` |
| Relationships between tables | `dbsync.hpp` (declarations) | the registered relationships, the rows of the related tables | `addTableRelationship`, `deleteRows` with its cascades |
| `DBSyncTxn`, the transaction pipeline | `dbsync.hpp` (declaration) | a queue of at most `maxQueueSize` rows, a pool of worker threads | `DBSyncTxn(...)`, `DBSyncTxn(handle)`, `~DBSyncTxn`, `syncTxnRow`, `getDeletedRows` |
| Driver programs | `src/common/dbsync/example/main.cpp`, `testtool/main.cpp` | one thread, the engine through its C interface | `main()` |
| Query builders, logcollector readers, unit tests | `dbsync.hpp`, `logcollector_win.cpp`, `macos_reader.hpp`, `tests/...` | | not modelled, see below |

The threads of the agent share one `Storage` object: modules push messages
with `Store`, the communicator reads a batch, sends it and removes it with
`RemoveMultiple`, `Clear` empties queues. The collectors keep a local mirror of
the host's state in `DBSync` tables: they pass a whole snapshot to
`updateWithSnapshot`, or stream rows through a `DBSyncTxn` and end with
`getDeletedRows`; the result callback tells the consumer what changed. Tables
are tied by relationships registered with `addTableRelationship`: deleting a
row deletes the rows of other tables that refer to it.

## Modules

| Module | Models | Checked through |
|---|---|---|
| `Storage` | `storage.cpp` and the persistence layer as it is called | `MCStorage` |
| `DBSync` | the engine and its handle registry | `MCDBSync` |
| `DBSyncDrivers` (extends `DBSync`) | the two `main()` programs | `MCDBSyncDrivers` |
| `DBSyncTxn` (extends `DBSync`) | the transaction pipeline over the engine | `MCDBSyncTxn` |
| `SerialTxn` | what a transaction promises, without queue or threads | instantiated by `DBSyncTxn` |
| `RelationshipGraph` | relationship registration and cascading deletes over several tables | `MCRelationshipGraph` |

### `Storage`

| Variable | Code |
|---|---|
| `ready` | the constructor has returned |
| `exists` | the tables the database file holds (`TableExists`) |
| `tables` | the rows of every table as the connection sees them, in `rowid` order |
| `durable` | the rows the file holds: what a restart finds |
| `mutex` | the owner of `m_mutex`, or `NONE` |
| `txn` | the threads between `BeginTransaction` and `CommitTransaction` |
| `frame` | per thread, the method it is in and that method's locals (`fields`, `result`, the messages left, the rowids left) |
| `stores`, `crashes` | history: `Store` calls begun, crashes so far |

A method that makes several database calls is several actions, one per call,
so that another thread's steps fall in between exactly where they can in the
program:

| Action | Code |
|---|---|
| `Construct` | the constructor: the loop over `tableNames` with `TableExists` and `CreateTable`; a throw after `k` tables leaves those tables and no object |
| `StoreBegin` | `Store` up to `BeginTransaction`: the three call columns, the lock |
| `StoreInsert`, `StoreInsertThrows`, `StoreDumpThrows` | one message: inserted, `Insert` threw, `dump()` threw; the `pop_back()` after the catch is part of each |
| `StoreCommit` | `CommitTransaction`, `return result`, end of scope of the lock |
| `RemoveBegin` | `RemoveMultiple` up to `BeginTransaction`: the filters, the lock |
| `RemoveSelect` | the `Select` of the first `n` rowids that match (or the outer catch when it throws); a `Clear` of another thread can fall between `BeginTransaction` and it |
| `RemoveRow`, `RemoveRowThrows` | one `Remove` by rowid, or the catch inside the loop, which goes on with the next rowid |
| `RemoveCommit` | `CommitTransaction`, return, unlock |
| `CommitThrows` | `CommitTransaction` throws: nothing catches it, the lock leaves scope, the transaction is rolled back |
| `ClearBegin`, `ClearTable`, `ClearReturn` | `Clear`: one `Remove(table, {})` per table; a return from any point (the catch) |
| `Crash` | the process dies and starts again: no object, no lock, no call, and the connection shows the file |

The reads are operators evaluated on the current tables: `RetrieveMultiple`,
`RetrieveBySize`, `GetElementCount`, `GetElementsStoredSize`, all through
`Criteria` (an empty module name or type adds no filter) and `ProcessRequest`
(whose loop is the recursive `ProcessRows`). A read whose database call throws
logs the error and returns an empty result; the operators describe the read
that succeeds.

The persistence layer is not in `src/`. `Select`, `Without`, `Satisfies` and
`NextRowid` state what `storage.cpp` relies on: criteria joined by AND, rows in
ascending rowid order, a limit where 0 is none, a new rowid one above the
largest in the table. Transactions are those of one SQLite connection:
`Persist` writes a statement through to the file when no transaction is open,
and otherwise leaves it to the commit of whichever thread opened one. A
throwing `BeginTransaction` releases the lock and changes nothing, which is a
stuttering step.

Data is abstract: a module name, a type, a metadata string and a message are
model values, and `StrSize` gives each its `size()`. `BadMessages` are the
messages whose `dump()` throws. A row also records which `Store` call wrote it
and as which element; no action reads these.

### `DBSync`

| Variable | Code |
|---|---|
| `live`, `created` | the process-wide registry of handles |
| `objs` | per `DBSync` object, `m_dbsyncHandle` and `m_shouldBeRemoved` |
| `db` | the table: rows by primary key, and the keys in insertion order |
| `maxRows` | the bound `setTableMaxRow` set, 0 for none |
| `writer` | the thread whose write transaction is open |
| `frame` | per thread, the `updateWithSnapshot` it is in: the rows left, the entries found so far, the table as it was |
| `out` | per thread, how its last call ended (the error taxonomy) |
| `mirror`, `tornDown` | history: the table as the callbacks describe it; the handles `teardown()` released |

`Create`, `Wrap`, `Destroy` and `Teardown` are the registry. `InsertData`,
`SetTableMaxRow`, `SyncRow` and `DeleteRows` are one action each, under the
store's write transaction. `updateWithSnapshot` is `UpdateBegin`, one
`UpdateRow` per row of the work list (upserts in snapshot order, then the
deletions), and `UpdateCommit`, which calls the callback; `UpdateFails` rolls
the snapshot back and `UpdateStale` is the call that finds its instance
released. `StaleCall` and `CallFails` are a call with a dead handle and a call
the store refuses. The class is declared in `dbsync.hpp` and implemented
elsewhere: the signatures and their comments are mapped to the header, the
behaviour behind them to the design document, and `PROJECT.json` says which is
which.

### `DBSyncDrivers`

The two programs are one thread with a program counter (`program`, `pc`), the
example's output (`printed`) and the test tool's loop (`idx`, `count`).
`ExCreate`, `ExInsert`, `ExUpdate`, `ExUpdating`, `ExPrompt` follow
`example/main.cpp`; `TtCreate`, `TtNoHandle`, `TtAction`, `TtActing`,
`TtThrows`, `TtLoopEnds` follow `testtool/main.cpp`; `Quit` is the teardown at
the end of both and `Exit` the end of the process, after which either program
can be started again over the file the last one left. The rows are those of
the example's `insert_sql` and `update_sql`.

### `DBSyncTxn` and `SerialTxn`

| Variable | Code |
|---|---|
| `phase` | `m_txn`: none, open, closing (inside the owner's destructor), closed |
| `engine`, `capacity`, `pool` | the constructor's `handle`, `maxQueueSize`, and the threads `threadNumber` started |
| `holds` | per producer, its object: the owner or one built from `handle()` (`m_shouldBeRemoved`) |
| `queue`, `taken` | the rows queued; per worker, the row it took |
| `call` | per producer, the call it is inside: its own upsert, `getDeletedRows`, the destructor |
| `atOpen`, `touched` | the keys stored at open; the keys `syncTxnRow` was called with |
| `next` | the number of `syncTxnRow` calls |
| `drained`, `log` | history: `getDeletedRows` has returned; the rows upserted, in commit order |

| Action | Code |
|---|---|
| `Open`, `OpenFails` | the explicit constructor, with `threadNumber` 0 meaning `hardware_concurrency()`; with a handle the registry does not know |
| `Attach`, `Release` | `DBSyncTxn(handle)` and its destructor |
| `SyncTxnRow` | the row is queued and the call returns, or the queue is full and the row is the caller's to upsert |
| `SyncNow` | the caller's upsert |
| `Take`, `Work` | a worker takes the head of the queue, unless a row of that key is in a worker's hands, and upserts it |
| `GetDeletedBegin`, `GetDeletedRun` | `getDeletedRows` waits for the work to end, then deletes the rows nobody named and reports them |
| `CloseBegin`, `CloseEnd` | the owner's destructor waits for the work to end, then invalidates the handle |
| `StaleTxnCall` | a call through an object whose transaction is closed |
| `Teardown` (of `DBSync`) | the engine released under the transaction: upserts find no instance and the rows are given up |

An upsert is the engine's `syncRow` (`Synced`, `Change`, `Applied` of module
`DBSync`); the store may refuse it, and the row is then given up.

`SerialTxn` has a table, a set of pending requests and a phase. `ASubmit`
takes a request, `AApply` carries one out or skips it, `ADrain` and `AClose`
need the set empty. `DBSyncTxn` instantiates it with

    table <- db.rows          pending <- Outstanding
    phase <- open while closing, else phase
    untouched <- atOpen \ touched

where `Outstanding` is the rows in the queue, in workers' hands and in callers'
hands. `Refines` states that every behaviour of the pipeline is a behaviour of
`SerialTxn`.

### `RelationshipGraph`

| Variable | Code |
|---|---|
| `edges` | the relationships registered: base table, target table, action |
| `rows` | per table and key, the row's referencing column, or no row |
| `txn` | the delete in progress: the rows when it began, the rows the query matched, the removals still to do |
| `out` | how the last call ended |

A relationship says that the referencing column of the target table holds
keys of the base table. `AddRelationship` accepts one whose tables exist
(`Known`) and that keeps the graph acyclic (`KeepsAcyclic`, the topological
sort `Sorts`); `AddRelationshipFails` is the `ConfigurationError`.
`DeleteBegin` opens the transaction of `deleteRows` (and of the deletion phase
of a snapshot) with the rows the query matched; `CascadeStep` removes one row
and adds the rows that depend on it through a `CascadeDelete` relationship
(`Dependents`) to the work; `DeleteCommit` ends it, and `DeleteFails` is a
removal the store refuses, which rolls everything back. `InsertData` fills
the tables; nothing stops it from inserting a row whose parent does not
exist. Other connections read `Visible`, the rows as of the last commit. One
call runs at a time: the engine's calls are synchronous and the store admits
one writer (the interleaving of writers is the subject of `DBSync`).

The two calls are declared in `dbsync.hpp` and implemented elsewhere; their
behaviour is the design document's. Of `addTableRelationship` the header
says only that it generates triggers: the refusal of a cycle is the design's,
and no run checks a property of it.

## Runs

| Run | Configuration | Checks | Result |
|---|---|---|---|
| `threads` | `MCStorage.cfg`: 2 threads, 2 tables, messages `good` and `bad`, batches of up to 2, 2 `Store` calls | `TypeOK`, `TablesExistWhenReady`, `TransactionExclusive`, `BatchContiguous`, `FreshRowsSurviveRemove` | holds, 425 251 states |
| `reads` | `MCStorageReads.cfg`: 1 thread, 1 table, name, type and metadata each empty or not, limits 0..2, sizes 0..5 | `RetrieveBySizeShortestPrefix` | holds, 53 596 states |
| `faults` | `MCStorageFaults.cfg`: 2 threads, 1 table, 2 `Store` calls, 1 crash, `FairSpec` | `UncommittedNotInFile`, `SelectedStayInFile`, `CrashKeepsReturnedStores`, `CallsReturn` | holds, 179 024 states |
| `fields` | `MCStorageFields.cfg`: 1 thread, all three call columns non-empty | `RowsCarryCallFields` | **violated** |
| `clear` | `MCStorageClear.cfg`: 2 threads, 1 table, 1 crash | `ClearedWhenReturned` | **violated** |
| `fifo` | `MCStorageFifo.cfg`: 1 thread, 1 table, a `Remove` that can throw | `RemoveKeepsQueueOrder` | **violated** |
| `engine` | `MCDBSync.cfg`: 2 threads, 2 objects, 2 handles, 2 keys, 2 contents, snapshots of up to 2 rows, `maxRows` 0..1 | `TypeOK`, `ConsumerMirrorsTable`, `OwnerKeepsHandle`, `NoPartialSnapshot`, `NoChangeAfterRelease`, `ChangesetIsTheDiff` | holds, 682 437 states |
| `bound` | `MCDBSyncBound.cfg`: 1 thread, 1 object, 1 handle, 3 keys, 1 content, snapshots of up to 2 rows, `maxRows` 0..2 | `BoundedTableIsQueue` | holds, 44 675 states |
| `cascade` | `MCRelationshipGraph.cfg`: 3 tables, 2 keys, up to 3 relationships | `RelTypeOK`, `DeleteLeavesNoOrphans`, `DeleteRemovesItsCone` | holds, 341 949 states |
| `drivers` | `MCDBSyncDrivers.cfg`: the rows of the example, up to 3 passes and 2 actions, programs run one after another | `DriversTypeOK`, `ExamplePassesRepeat`, `HandleReleasedAtExit` | holds, 62 394 states |
| `pipeline` | `MCDBSyncTxn.cfg`: 2 producers, pools of 1 or 2 workers, queue of 0..2 rows, 2 keys, 2 calls of `syncTxnRow`, `TxnFairSpec` | `TxnTypeOK`, `QueuedKeepOrder`, `StreamIsSnapshot`, `Refines`, `RowsLeave`, `TxnCallsReturn` | holds, 109 165 states |
| `order` | `MCDBSyncTxnOrder.cfg`: as `pipeline`, without fairness | `PerKeyOrder` | **violated** |

What the passing runs show:

* **`TransactionExclusive`**: the connection never has two transactions open.
* **`BatchContiguous`**: the rows of one `Store` call lie together and in array
  order, whatever the other thread stores, removes or clears meanwhile.
* **`FreshRowsSurviveRemove`**: `RemoveMultiple` deletes only rows its `Select`
  saw. The dangerous sequence is `Select` by one thread, `Clear` by another (no
  lock), then a `Store` that is given the rowid just freed; the mutex rules out
  the `Store`.
* **`TablesExistWhenReady`**: a constructor that threw half way through the
  list can be followed by one that succeeds, and the object has all its tables.
* **`RetrieveBySizeShortestPrefix`**: `RetrieveBySize` returns a prefix of
  the matching messages, never empty when there is one and just long enough
  to reach `n`.
* **`CallsReturn`**: every call returns and has released the mutex, unless
  the process crashes under it.
* **`UncommittedNotInFile`**, **`CrashKeepsReturnedStores`**: the file holds
  nothing of a `Store` that has not returned, and a crash loses only rows of
  calls that were in progress.
* **`SelectedStayInFile`**: until `RemoveMultiple` commits, the file holds
  every message it selected, so a crash in the middle of the loop gives the
  consumer the whole batch again and never a part of it, also when `Clear`
  empties the table on the connection meanwhile.
* **`ConsumerMirrorsTable`**: a consumer that applies the callbacks' entries
  knows the table; a failed snapshot reports nothing.
* **`NoPartialSnapshot`**, **`NoChangeAfterRelease`**: the table does not
  change while a thread is inside `updateWithSnapshot`, and not at all after
  `teardown()`.
* **`OwnerKeepsHandle`**: the destructor of a borrowing `DBSync` leaves the
  instance to its owner.
* **`BoundedTableIsQueue`**: with `maxRows` set, a write that inserts leaves
  at most `maxRows` rows, the rows it keeps are the ones stored last, in
  their order and in front of the new ones, and a row is pushed out only
  when the table is full. It is checked on every write of the stored table
  and on every row of a snapshot's working copy, with three keys under a
  bound of two, so that there is a choice of which row goes. The clauses on
  order leave aside an `insertData` that pushes a stored key out and inserts
  it again in the same call, which the tables before and after do not tell
  from a wrong victim.
* **`ChangesetIsTheDiff`**: the design's diff completeness. The changeset of
  a snapshot that commits has one entry for every key whose row the call
  changed, with the type and the old and new content of that change, and
  none for a row it left as it was. The changeset is built row by row against
  the copy the call started from, and the property compares it with the table
  just before and just after the commit: a row reported without being
  compared breaks it, and so does a `syncRow` of another thread that lands
  under a snapshot taken without the write transaction.
* **`DeleteRemovesItsCone`**: a delete that commits has removed the rows the
  query matched and every row that depended on them through `CascadeDelete`
  relationships, and nothing else, whatever order the removals were made in.
* **`DeleteLeavesNoOrphans`**: no reader sees a row gone and the rows that
  depended on it still there, while a delete runs, when it commits and when
  a removal fails after the parent and some children are gone: a rollback
  that kept the removals made so far breaks it.
* **`ExamplePassesRepeat`**, **`HandleReleasedAtExit`**: the example's first
  pass that succeeds reports its four rows and later passes none, however many
  passes failed; a program that leaves its `if` has called `dbsync_teardown()`.
* **`Refines`**: queue, pool and callers together carry out each row once; the
  table changes only by the upsert of an outstanding row; `getDeletedRows`
  deletes and the destructor returns only with nothing outstanding; no row is
  accepted after close.
* **`QueuedKeepOrder`**: rows of one key that went through the queue are
  upserted in call order, whichever workers took them.
* **`StreamIsSnapshot`**: after `getDeletedRows` every stored row is one a call
  named, no upserted row is ever deleted by it, and the consumer was told of
  every change.
* **`RowsLeave`**, **`TxnCallsReturn`**: every row that was accepted is
  upserted or given up, and `getDeletedRows` and the destructor return, for
  every pool size, `threadNumber` 0 included, and after the engine was torn
  down.

## Findings

**`Store` loses columns after a message that cannot be dumped** (`fields`,
storage.cpp:174). `Store` is given `[bad, good]`. `bad.dump()` throws inside
the argument list of `fields.emplace_back(...)`, before the message column is
added; `fields.pop_back()` then removes `metadata`, and `good` is inserted
without it. Each further failure of the batch costs one more column, and the
fourth is `pop_back()` on an empty vector.

**`Clear` reports done what a crash undoes** (`clear`, storage.cpp:132).
`Clear` takes neither `m_mutex` nor a transaction. When another thread is
between `BeginTransaction` and `CommitTransaction`, `Clear`'s deletions run
inside that transaction: `Clear` returns true, and a crash or a throwing
commit brings the messages back.

**`RemoveMultiple` takes messages out of the middle of the queue** (`fifo`,
storage.cpp:240). The catch inside the loop logs a `Remove` that threw and
goes on with the next rowid. When the `Remove` of the first selected message
fails and the second succeeds, the call returns 1 and the table keeps the
older message while the newer one is gone: the consumer, which was told that
one message was removed, cannot know that it was not the head of the queue.

**Per-key order and the synchronous path contradict each other** (`order`,
dbsync.hpp:103). With a queue of one row, `syncTxnRow(k, a)` is queued and
returns; `syncTxnRow(k, b)` finds the queue full and is upserted by its
caller; a worker then takes `a` and writes it over `b`. The older value wins.
The header and the design give no rule for a row that is upserted by its
caller while rows of its key wait in the queue; the pipeline as described
keeps order among queued rows only.

## Bounds

| Constant | Value | Why it is enough |
|---|---|---|
| `Threads` (`Storage`) | 2 (1 in `reads`, `fields`) | every property is about one call against one interfering thread; the reads are functions of the tables |
| `TableNames` | 2 in `threads`, else 1 | `Clear` of a list needs two tables to stop half way, the constructor two to fail after the first |
| `MaxBatch` | 2 | a batch needs two rows to be split, and one failure followed by one insert to lose a column; 3 is the most the code survives |
| `MaxStores` | 2 (1 in `fields`, `fifo`) | two batches to interleave; a row before the `Select` and one after |
| `MaxCount`, `MaxBytes` | 1 or 2; 5 | no limit, a limit below and at the number of rows; `n` below, on and above every partial sum |
| `MaxCrashes` | 1 (0 where crashes are not the question) | one crash at every point of every call |
| `Keys`, `Values` (`DBSync`) | 2 and 2 (3 and 1 in `bound`) | an entry is inserted, modified or deleted; one key changes while the other stays; a third key arrives at a table of two |
| `MaxHandles`, `Objects` | 2 and 2 (1 and 1 in `bound`) | an owner and a borrower of one handle beside another instance |
| `MaxRowsLimit` | 1 in `engine`, 2 in `bound` | a table of one row evicts on the second insert; a table of two has an oldest and a newest row to choose between, and a bound lowered from 2 to 1 is below the rows stored |
| `MaxPasses`, `MaxActions` | 3 and 2 | a failed pass before, between and after successful ones; the empty list, one action, the last turn of the loop |
| `Producers`, `Workers` | 2 and 2 | an owner and a second object; two rows in two workers' hands |
| `MaxQueueSize` | 2 | queues of 0 (every row synchronous), 1 (full after one row) and 2 (two rows of one key waiting) |
| `MaxRequests` | 2 | order is a relation between two rows; three rows do not finish in reasonable time |
| `Tables`, `Keys` (`RelationshipGraph`) | 3 and 2 | a chain of two relationships, two parents of one table, a cycle through three tables; a delete that takes one row and leaves its sibling |
| `MaxEdges` | 3 | a chain of two relationships beside a second parent, and a cycle of three to refuse |

`threads`, `engine` and `cascade` use symmetry (threads; threads, objects and
row contents; tables and keys). The runs with liveness properties use none.

## Fairness

`Storage!FairSpec` has `WF_vars(Step(t))` for every thread: a thread inside a
method keeps executing it. A crash is under no fairness, and `CallsReturn`
holds with it because a crash ends every call. No step of `Step(t)` waits for another thread, since
the lock is taken in the `Begin` actions, which are not under fairness.
Nothing is assumed about who wins the mutex.

`TxnFairSpec` has weak fairness on `Take(w)` and `Work(w)` for every worker
and on `Finish(p)` for every producer: pool threads run while there is work,
and a thread inside a call goes on. `Take` can be disabled by another worker
holding a row of the same key, and `GetDeletedRun` and `CloseEnd` by
outstanding rows; weak fairness is enough because the number of calls is
bounded, so each of them stays enabled once the work has ended. Starting a
call is never under fairness: a producer may stop calling.

`pipeline` and `drivers` are checked without the deadlock test, since a closed
transaction and a program that has exited are states the system may stay in.

## Assumptions

* One table per engine and per transaction in `DBSync` and `DBSyncTxn`; the
  `tables` argument and table names are not modelled. Several tables appear
  in `RelationshipGraph` only, where a row is a key and one referencing
  column and one call runs at a time.
* A relationship ties the referencing column of the target to the primary key
  of the base table; the graph is acyclic over tables.
* An upsert, and the deletion phase of `getDeletedRows`, are atomic steps: the
  store's transaction isolates them.
* One transaction per behaviour of `DBSyncTxn`; the engine under it is created
  and filled before.
* A call through an object while its transaction is being closed is accepted,
  as the handle is invalidated only when the destructor returns.
* `updateWithSnapshot` looks its handle up again at every row and at the
  commit (`UpdateRow`, `UpdateCommit`, `UpdateStale`): the implementation is
  not in `src/`, and `NoChangeAfterRelease` is about an engine that does so.
* The engine evicts without a callback: the header says that a bounded table
  works as a queue and nothing about reporting the rows pushed out.
* `Storage`: the lock and `BeginTransaction` of `Store` and `RemoveMultiple`
  are one step, since nothing of the store changes between them; a
  `BeginTransaction` that throws releases the lock and leaves the state as
  it was, so it is a step that changes nothing and has no action. A
  `CommitTransaction` that throws is taken to roll back at once
  (`CommitThrows`); the transaction object is not in `src/`.

## Not modelled

* WAL, page I/O and `SQLITE_BUSY` of the persistence layer.
* The cascades of `CascadeUpdate` relationships: no call of the engine changes
  a primary key. Schema creation and upgrade statements.
* Whether the rows a cascade removes are reported to anyone: neither the
  header nor the design says.
* The query builders of `dbsync.hpp`: `Query<T>::table()` and `query()` store
  and return a JSON object, the other setters are declarations. A builder is
  the value a call is given; the models take what it describes (a table, keys,
  rows, a snapshot) as the inputs of the engine's actions. Whether `data()`
  appends or replaces, and what `reset()` keeps, is neither in `src/` nor in
  the design.
* `Logcollector::AddPlatformSpecificReader` and `MacOSReader`: the first reads
  the configuration and calls `AddReader` once per channel, the second is a
  class declaration. `AddReader`, the readers' `Run` loops, the coroutine
  scheduler and the class that owns the readers are not in `src/`, and the
  design treats collectors as external. The hazard of these lines, a reader's
  callback that runs after the `Logcollector` it captured is gone, has no code
  to be modelled from.
* The consumer of the message store (`multitype_queue.cpp`, not in `src/`):
  the sequence retrieve, send, remove. `RemoveMultiple` selects the first `n`
  rows again, and the read methods take no lock and see the rows of a `Store`
  that has not committed; what that means for a consumer depends on calls the
  models have no code for. Both are listed as hazards.
* The unit tests under `tests/`: parsing of plist and sysctl values behind
  mocks.

## Plan

1. The query descriptors (`SelectQuery`, `DeleteQuery`, `InsertQuery`,
   `SyncRowQuery`) as the inputs of the engine's calls, once their
   implementation is in the tree.
2. Reader registration of the logcollector (`logcollector_win.cpp`), with the
   reader life cycle when `Run` and `Stop` are available.
3. Larger instances of `pipeline` (three rows) under a state constraint that
   keeps the per-key cases.
