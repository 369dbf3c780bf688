------------------------------ MODULE Storage ------------------------------
(***************************************************************************)
(* The message store of the agent's multi-type queue                       *)
(* (src/agent/multitype_queue/src/storage.cpp).                            *)
(*                                                                         *)
(* One Storage object owns one database connection (m_db) and one mutex    *)
(* (m_mutex).  Any number of threads call its methods.  Store and          *)
(* RemoveMultiple take the mutex and bracket their work in a transaction;  *)
(* Clear and the read methods take no lock.  A call that spans several     *)
(* calls of the persistence layer is one action per such call, so that     *)
(* the steps of different threads interleave as they do in the program.    *)
(*                                                                         *)
(* A table is the sequence of its rows in rowid order.  The fields call    *)
(* and idx of a row are history: which Store call wrote the row, and as    *)
(* which element of its batch.  No action reads them.                      *)
(***************************************************************************)
EXTENDS Integers, Sequences, FiniteSets, SequencesExt

CONSTANTS
    Threads,      \* the threads that call into the Storage object
    TableNames,   \* the constructor's tableNames, a sequence of tables
    ModuleNames,  \* non-empty module_name strings
    ModuleTypes,  \* non-empty module_type strings
    Metadata,     \* non-empty metadata strings
    Messages,     \* JSON values a caller may pass as a message
    BadMessages,  \* the messages whose dump() throws (invalid UTF-8)
    StrSize,      \* size() of every string the store can hold
    MaxBatch,     \* bound: longest JSON array passed to Store
    MaxStores,    \* bound: number of Store calls in a behaviour
    MaxCount,     \* bound: largest n passed as a row count
    MaxBytes,     \* bound: largest n passed to RetrieveBySize
    MaxCrashes,   \* bound: number of crashes of the process in a behaviour
    EMPTY,        \* the empty string
    NONE          \* nobody holds the mutex

Tables == ToSet(TableNames)
Names  == ModuleNames \cup {EMPTY}
Types  == ModuleTypes \cup {EMPTY}
Metas  == Metadata \cup {EMPTY}

ASSUME /\ BadMessages \subseteq Messages
       /\ \A s \in Names \cup Types \cup Metas \cup Messages : StrSize[s] \in Nat
       /\ StrSize[EMPTY] = 0
       \* A fourth failed dump() of one batch calls pop_back() on an empty
       \* vector, which is undefined; batches stay below that.
       /\ MaxBatch \in 1..3
       /\ MaxStores \in Nat /\ MaxCount \in Nat /\ MaxBytes \in Nat
       /\ MaxCrashes \in Nat

VARIABLES
    ready,   \* the constructor has returned: there is a Storage object
    exists,  \* the tables the database file holds
    tables,  \* m_db: the rows of every table as the connection sees them
    durable, \* the rows the database file holds: what a restart finds
    mutex,   \* m_mutex: the thread that holds it, or NONE
    txn,     \* the threads with a transaction begun and not committed
    frame,   \* per thread, the call it is in and that call's locals
    stores,  \* history: the number of Store calls begun
    crashes  \* history: the number of crashes so far

vars == <<ready, exists, tables, durable, mutex, txn, frame, stores, crashes>>

-----------------------------------------------------------------------------
(* Columns, rows and call frames *)

\* The columns Store puts into `fields` before the message, in order.
Columns == <<"module_name", "module_type", "metadata">>

Args == [module_name : Names, module_type : Types, metadata : Metas]

Row == [rowid : Nat \ {0}, module_name : Names, module_type : Types,
        metadata : Metas, message : Messages,
        call : 1..MaxStores, idx : 1..MaxBatch]

\* What Store accepts as `message`: a JSON array of messages, or one message.
Payloads ==
    [array : {TRUE}, items : BoundedSeq(Messages, MaxBatch)] \cup
    [array : {FALSE}, items : {<<m>> : m \in Messages}]

Idle == [op |-> "idle"]

Frames ==
    {Idle} \cup
    [op : {"store"}, table : Tables, args : Args, array : BOOLEAN,
     fields : Seq(ToSet(Columns)), pending : Seq(Messages),
     result : Nat, call : 1..MaxStores, idx : 1..(MaxBatch + 1)] \cup
    [op : {"select"}, table : Tables, n : 0..MaxCount,
     filters : SUBSET ({"module_name", "module_type"} \X (Names \cup Types))] \cup
    [op : {"remove"}, table : Tables, selected : Seq(Nat \ {0}),
     chosen : SUBSET ((1..MaxStores) \X (1..MaxBatch)), result : Nat] \cup
    [op : {"clear"}, pending : Seq(Tables),
     removed : SUBSET ((1..MaxStores) \X (1..MaxBatch))]

TypeOK ==
    /\ ready \in BOOLEAN
    /\ exists \subseteq Tables
    /\ tables \in [Tables -> Seq(Row)]
    /\ durable \in [Tables -> Seq(Row)]
    /\ mutex \in Threads \cup {NONE}
    /\ txn \subseteq Threads
    /\ frame \in [Threads -> Frames]
    /\ stores \in 0..MaxStores
    /\ crashes \in 0..MaxCrashes

Uid(row) == <<row.call, row.idx>>

Uids(rows) == {Uid(rows[i]) : i \in DOMAIN rows}

-----------------------------------------------------------------------------
(* The persistence layer, as Storage uses it *)

\* The rowid SQLite gives a row inserted without one: one more than the
\* largest in the table.
NextRowid(rows) == IF rows = <<>> THEN 1 ELSE Last(rows).rowid + 1

\* A row satisfies criteria joined by LogicalOperator::AND.
Satisfies(row, filters) == \A f \in filters : row[f[1]] = f[2]

\* Select ... ORDER BY rowid ASC, with a row limit; a limit of 0 is no limit.
Select(table, filters, limit) ==
    LET found == SelectSeq(tables[table], LAMBDA r : Satisfies(r, filters))
    IN  IF limit = 0 \/ limit >= Len(found) THEN found
        ELSE SubSeq(found, 1, limit)

\* Remove(table, criteria) deletes the rows that satisfy the criteria.
Without(rows, filters) == SelectSeq(rows, LAMBDA r : ~Satisfies(r, filters))

\* A statement outside a transaction is committed as it ends.  While the
\* connection has a transaction open, every statement on it, of whichever
\* thread, belongs to that transaction and reaches the file at its commit.
Persist == durable' = IF txn = {} THEN tables' ELSE durable

-----------------------------------------------------------------------------
(* Mutation variants: faults a property of this module must detect *)

\* Store without its unique_lock.
UnlockedStore(t) == UNCHANGED mutex

\* RemoveMultiple without its unique_lock.
UnlockedRemove(t) == UNCHANGED mutex

\* A path out of a method on which the lock is not released.
KeepMutex(t) == UNCHANGED mutex

\* Store and RemoveMultiple without BeginTransaction.
NoTransaction(t) == UNCHANGED txn

\* A commit that closes the transaction and writes nothing.
CommitForgotten(t) == txn' = txn \ {t} /\ UNCHANGED durable

\* ProcessRequest's loop with > for >= in the size test.
RECURSIVE BreakAbove(_, _, _)
BreakAbove(rows, maxSize, sizeAccum) ==
    IF rows = <<>> THEN <<>>
    ELSE LET r    == Head(rows)
             size == StrSize[r.module_name] + StrSize[r.module_type]
                     + StrSize[r.metadata] + StrSize[r.message]
         IN  IF maxSize # 0 /\ sizeAccum + size > maxSize
             THEN <<r>>
             ELSE <<r>> \o BreakAbove(Tail(rows), maxSize, sizeAccum + size)

-----------------------------------------------------------------------------
(* Storage::Storage and CreateTable *)

\* Mutation variant of CreateTable: the table is not created.
SkipCreate(db, table) == db

CreateTable(db, table) == db \cup {table}

\* The constructor walks tableNames and creates the tables the file lacks.
\* Any throw (the factory, TableExists, CreateTable) is rethrown and no
\* object comes to exist; the tables created before the throw remain.  k is
\* the number of tables handled before the throw, Len(TableNames) if none.
Construct ==
    /\ ~ready
    /\ \E k \in 0..Len(TableNames) :
          /\ exists' = FoldLeft(LAMBDA db, tb : IF tb \in db THEN db
                                                ELSE CreateTable(db, tb),
                                exists, SubSeq(TableNames, 1, k))
          /\ ready' = (k = Len(TableNames))
    /\ UNCHANGED <<tables, durable, mutex, txn, frame, stores, crashes>>

-----------------------------------------------------------------------------
(* The mutex and the transaction of Store and RemoveMultiple *)

\* const std::unique_lock<std::mutex> lock(m_mutex), in Store.
StoreLock(t) == mutex = NONE /\ mutex' = t

\* The same line of RemoveMultiple.
RemoveLock(t) == mutex = NONE /\ mutex' = t

\* The lock leaves scope when the method returns or throws.
Unlock(t) == mutex' = IF mutex = t THEN NONE ELSE mutex

\* auto transaction = m_db->BeginTransaction().
BeginTransaction(t) == txn' = txn \cup {t}

\* m_db->CommitTransaction(transaction): what the connection sees is now in
\* the file.
CommitTransaction(t) == txn' = txn \ {t} /\ durable' = tables

Enter(t, f) == frame' = [frame EXCEPT ![t] = f]

Return(t) == Enter(t, Idle)

-----------------------------------------------------------------------------
(* Storage::Store *)

\* Entry: the three call columns go into `fields`, the mutex is taken and
\* the transaction begun.
StoreBegin(t, table, args, payload) ==
    /\ ready /\ frame[t] = Idle
    /\ stores < MaxStores
    /\ StoreLock(t)
    /\ BeginTransaction(t)
    /\ stores' = stores + 1
    /\ Enter(t, [op |-> "store", table |-> table, args |-> args,
                 array |-> payload.array, fields |-> Columns,
                 pending |-> payload.items, result |-> 0,
                 call |-> stores + 1, idx |-> 1])
    /\ UNCHANGED <<ready, exists, tables, durable, crashes>>

\* The row Insert writes for `fields` plus the message: a column that is
\* not in `fields` is stored as NULL, which every reader sees as EMPTY.
InsertedRow(f, m) ==
    LET Value(c) == IF c \in ToSet(f.fields) THEN f.args[c] ELSE EMPTY
    IN  [rowid |-> NextRowid(tables[f.table]), module_name |-> Value("module_name"),
         module_type |-> Value("module_type"), metadata |-> Value("metadata"),
         message |-> m, call |-> f.call, idx |-> f.idx]

\* One message is done with: the next one is Head(pending).
Advance(t, fields, inserted) ==
    Enter(t, [frame[t] EXCEPT !.pending = Tail(@), !.idx = @ + 1,
                              !.fields = fields, !.result = @ + inserted])

\* dump() throws before emplace_back has added the message column.  In the
\* array branch the pop_back() after the catch then removes a call column.
StoreDumpThrows(t) ==
    LET f == frame[t] IN
    /\ f.op = "store" /\ f.pending # <<>>
    /\ Head(f.pending) \in BadMessages
    /\ Advance(t, IF f.array THEN Front(f.fields) ELSE f.fields, 0)
    /\ UNCHANGED <<ready, exists, tables, durable, mutex, txn, stores, crashes>>

\* Insert throws: the message column was added, and is popped again.
StoreInsertThrows(t) ==
    LET f == frame[t] IN
    /\ f.op = "store" /\ f.pending # <<>>
    /\ Head(f.pending) \notin BadMessages
    /\ Advance(t, f.fields, 0)
    /\ UNCHANGED <<ready, exists, tables, durable, mutex, txn, stores, crashes>>

\* Mutation variant of StoreInsert: no pop_back() after the Insert, so the
\* message column stays in `fields` for the next message.
InsertWithoutPop(t) ==
    LET f == frame[t] IN
    /\ f.op = "store" /\ f.pending # <<>>
    /\ Head(f.pending) \notin BadMessages
    /\ tables' = [tables EXCEPT ![f.table] =
                     Append(@, InsertedRow(f, Head(f.pending)))]
    /\ Advance(t, Append(f.fields, "message"), 1)
    /\ Persist
    /\ UNCHANGED <<ready, exists, mutex, txn, stores, crashes>>

StoreInsert(t) ==
    LET f == frame[t] IN
    /\ f.op = "store" /\ f.pending # <<>>
    /\ Head(f.pending) \notin BadMessages
    /\ tables' = [tables EXCEPT ![f.table] =
                     Append(@, InsertedRow(f, Head(f.pending)))]
    /\ Advance(t, f.fields, 1)
    /\ Persist
    /\ UNCHANGED <<ready, exists, mutex, txn, stores, crashes>>

\* CommitTransaction, return result; the lock leaves scope.
StoreCommit(t) ==
    /\ frame[t].op = "store" /\ frame[t].pending = <<>>
    /\ CommitTransaction(t)
    /\ Unlock(t)
    /\ Return(t)
    /\ UNCHANGED <<ready, exists, tables, stores, crashes>>

\* CommitTransaction throws, at the end of Store or of RemoveMultiple:
\* neither catches it, the lock leaves scope as the exception passes, and
\* the transaction, never committed, is rolled back with every statement
\* the connection ran inside it.
CommitThrows(t) ==
    /\ \/ frame[t].op = "store" /\ frame[t].pending = <<>>
       \/ frame[t].op = "remove" /\ frame[t].selected = <<>>
    /\ txn' = txn \ {t}
    /\ tables' = durable
    /\ Unlock(t)
    /\ Return(t)
    /\ UNCHANGED <<ready, exists, durable, stores, crashes>>

-----------------------------------------------------------------------------
(* The filters every method but Store and Clear builds from its arguments *)

\* An empty moduleName or moduleType adds no criterion.
Criteria(moduleName, moduleType) ==
    LET Criterion(column, value) ==
            IF value = EMPTY THEN {} ELSE {<<column, value>>}
    IN  Criterion("module_name", moduleName) \cup
        Criterion("module_type", moduleType)

-----------------------------------------------------------------------------
(* Storage::RemoveMultiple *)

\* Entry: the filters are built, the mutex is taken and the transaction
\* begun.
RemoveBegin(t, n, table, moduleName, moduleType) ==
    /\ ready /\ frame[t] = Idle
    /\ RemoveLock(t)
    /\ BeginTransaction(t)
    /\ Enter(t, [op |-> "select", table |-> table, n |-> n,
                 filters |-> Criteria(moduleName, moduleType)])
    /\ UNCHANGED <<ready, exists, tables, durable, stores, crashes>>

\* The Select of the first n rowids that match.  A throwing Select is
\* caught by the outer catch, which leaves nothing to remove.  `chosen` is
\* history: the rows the selected rowids stood for.
RemoveSelect(t) ==
    LET f == frame[t] IN
    /\ f.op = "select"
    /\ \E rows \in {<<>>, Select(f.table, f.filters, f.n)} :
          Enter(t, [op |-> "remove", table |-> f.table,
                    selected |-> [i \in DOMAIN rows |-> rows[i].rowid],
                    chosen |-> Uids(rows),
                    result |-> 0])
    /\ UNCHANGED <<ready, exists, tables, durable, mutex, txn, stores, crashes>>

\* Remove runs outside the transaction and reaches the file at once.
RemoveRowAutocommit(t) ==
    LET f == frame[t] IN
    /\ f.op = "remove" /\ f.selected # <<>>
    /\ tables' = [tables EXCEPT ![f.table] =
                     Without(@, {<<"rowid", Head(f.selected)>>})]
    /\ Enter(t, [f EXCEPT !.selected = Tail(@), !.result = @ + 1])
    /\ durable' = tables'
    /\ UNCHANGED <<ready, exists, mutex, txn, stores, crashes>>

\* Remove(tableName, rowid = Head(selected)) and result++.  Deleting a
\* rowid that is no longer there deletes nothing and does not throw.
RemoveRow(t) ==
    LET f == frame[t] IN
    /\ f.op = "remove" /\ f.selected # <<>>
    /\ tables' = [tables EXCEPT ![f.table] =
                     Without(@, {<<"rowid", Head(f.selected)>>})]
    /\ Enter(t, [f EXCEPT !.selected = Tail(@), !.result = @ + 1])
    /\ Persist
    /\ UNCHANGED <<ready, exists, mutex, txn, stores, crashes>>

\* Remove throws: the inner catch logs it and the loop goes on.
RemoveRowThrows(t) ==
    LET f == frame[t] IN
    /\ f.op = "remove" /\ f.selected # <<>>
    /\ Enter(t, [f EXCEPT !.selected = Tail(@)])
    /\ UNCHANGED <<ready, exists, tables, durable, mutex, txn, stores, crashes>>

RemoveCommit(t) ==
    /\ frame[t].op = "remove" /\ frame[t].selected = <<>>
    /\ CommitTransaction(t)
    /\ Unlock(t)
    /\ Return(t)
    /\ UNCHANGED <<ready, exists, tables, stores, crashes>>

-----------------------------------------------------------------------------
(* Storage::Clear: no mutex, no transaction, one Remove per table *)

ClearBegin(t, names) ==
    /\ ready /\ frame[t] = Idle
    /\ Enter(t, [op |-> "clear", pending |-> names, removed |-> {}])
    /\ UNCHANGED <<ready, exists, tables, durable, mutex, txn, stores, crashes>>

ClearTable(t) ==
    LET f == frame[t] IN
    /\ f.op = "clear" /\ f.pending # <<>>
    /\ tables' = [tables EXCEPT ![Head(f.pending)] = Without(@, {})]
    /\ Enter(t, [f EXCEPT !.pending = Tail(@),
                           !.removed = @ \cup Uids(tables[Head(f.pending)])])
    /\ Persist
    /\ UNCHANGED <<ready, exists, mutex, txn, stores, crashes>>

\* Returns true after the last table, or false at the first Remove that
\* throws, with the tables after it untouched.
ClearReturn(t) ==
    /\ frame[t].op = "clear"
    /\ Return(t)
    /\ UNCHANGED <<ready, exists, tables, durable, mutex, txn, stores, crashes>>

-----------------------------------------------------------------------------
(* The read methods: one Select each, no lock *)

RowSize(r) == StrSize[r.module_name] + StrSize[r.module_type]
              + StrSize[r.metadata] + StrSize[r.message]

\* ProcessRequest's loop: a row is pushed first and measured after, and the
\* loop breaks once the rows pushed reach maxSize.  maxSize = 0: no limit.
RECURSIVE ProcessRows(_, _, _)
ProcessRows(rows, maxSize, sizeAccum) ==
    IF rows = <<>> THEN <<>>
    ELSE LET r == Head(rows) IN
         IF maxSize # 0 /\ sizeAccum + RowSize(r) >= maxSize
         THEN <<r>>
         ELSE <<r>> \o ProcessRows(Tail(rows), maxSize, sizeAccum + RowSize(r))

\* The JSON object built for a row; data is parse(dump(message)).
Output(r) == [moduleName |-> r.module_name, moduleType |-> r.module_type,
              metadata |-> r.metadata, data |-> r.message]

ProcessRequest(rows, maxSize) ==
    LET kept == ProcessRows(rows, maxSize, 0)
    IN  [i \in DOMAIN kept |-> Output(kept[i])]

\* The first n rows that match, in rowid order.
RetrieveMultiple(n, table, moduleName, moduleType) ==
    ProcessRequest(Select(table, Criteria(moduleName, moduleType), n), 0)

RetrieveBySize(n, table, moduleName, moduleType) ==
    ProcessRequest(Select(table, Criteria(moduleName, moduleType), 0), n)

GetElementCount(table, moduleName, moduleType) ==
    Len(Select(table, Criteria(moduleName, moduleType), 0))

GetElementsStoredSize(table, moduleName, moduleType) ==
    FoldLeft(LAMBDA sum, r : sum + RowSize(r), 0,
             Select(table, Criteria(moduleName, moduleType), 0))

-----------------------------------------------------------------------------
(* The specification *)

Init ==
    /\ ready = FALSE
    /\ exists \in SUBSET Tables
    /\ tables = [tb \in Tables |-> <<>>]
    /\ durable = tables
    /\ mutex = NONE
    /\ txn = {}
    /\ frame = [t \in Threads |-> Idle]
    /\ stores = 0
    /\ crashes = 0

\* The steps of a call in progress: none of them waits for anything.
Step(t) ==
    \/ StoreDumpThrows(t) \/ StoreInsertThrows(t) \/ StoreInsert(t)
    \/ StoreCommit(t)
    \/ RemoveSelect(t)
    \/ RemoveRow(t) \/ RemoveRowThrows(t) \/ RemoveCommit(t)
    \/ CommitThrows(t)
    \/ ClearTable(t) \/ ClearReturn(t)

Call(t) ==
    \/ \E tb \in Tables, a \in Args, p \in Payloads : StoreBegin(t, tb, a, p)
    \/ \E n \in 0..MaxCount, tb \in Tables, mn \in Names, mt \in Types :
          RemoveBegin(t, n, tb, mn, mt)
    \/ \E names \in {s \in BoundedSeq(Tables, Len(TableNames)) :
                        IsInjective(s)} : ClearBegin(t, names)

\* The process dies at any point and is started again: the object, the lock
\* and every call in progress are gone, and the new process finds the file.
Crash ==
    /\ crashes < MaxCrashes
    /\ crashes' = crashes + 1
    /\ ready' = FALSE
    /\ tables' = durable
    /\ mutex' = NONE
    /\ txn' = {}
    /\ frame' = [t \in Threads |-> Idle]
    /\ UNCHANGED <<exists, durable, stores>>

Next == Construct \/ Crash \/ \E t \in Threads : Call(t) \/ Step(t)

Spec == Init /\ [][Next]_vars

\* A thread that is inside a call keeps running until the call returns.
FairSpec == Spec /\ \A t \in Threads : WF_vars(Step(t))

-----------------------------------------------------------------------------
(* Properties *)

\* A Storage object exists only over a database that holds every table of
\* tableNames, also when an earlier constructor call threw half way through
\* the list and left some of the tables behind.
TablesExistWhenReady == ready => Tables \subseteq exists

\* The connection never has two transactions open: Store and RemoveMultiple
\* begin theirs under m_mutex and commit before they release it.
TransactionExclusive == Cardinality(txn) <= 1

\* The rows one Store call wrote lie together in a table, in the order of
\* the array: nothing another thread stores ends up between two messages
\* of a batch (Store holds m_mutex from its first Insert to its last).
BatchContiguous ==
    \A tb \in Tables : \A i, j \in DOMAIN tables[tb] :
        i < j /\ tables[tb][i].call = tables[tb][j].call =>
            /\ tables[tb][i].idx < tables[tb][j].idx
            /\ \A k \in i..j : tables[tb][k].call = tables[tb][i].call

\* RemoveMultiple deletes by the rowids it selected earlier in the call.  A
\* row that was stored after that Select is never deleted by it, even when
\* a Clear has emptied the table in between and rowids start again at 1.
FreshRowsSurviveRemove ==
    [][\A t \in Threads :
          LET f == frame[t]
          IN  f.op = "remove" /\ frame'[t] # f /\ crashes' = crashes =>
                Uids(tables[f.table]) \ Uids(tables'[f.table]) \subseteq f.chosen
      ]_vars

\* RetrieveBySize(n, ...) returns the shortest run of the oldest matching
\* messages whose sizes add up to n or more, and all of them when they do
\* not reach n (ProcessRequest pushes a message before it measures it); a
\* caller that asks for at least GetElementsStoredSize bytes is given all
\* GetElementCount messages.
RetrieveBySizeShortestPrefix ==
    \A n \in 0..MaxBytes, tb \in Tables, mn \in Names, mt \in Types :
        LET all  == RetrieveMultiple(0, tb, mn, mt)
            got  == RetrieveBySize(n, tb, mn, mt)
            Size(out) == FoldLeft(LAMBDA sum, o : sum + StrSize[o.moduleName]
                                     + StrSize[o.moduleType] + StrSize[o.metadata]
                                     + StrSize[o.data], 0, out)
        IN  /\ IsPrefix(got, all)
            /\ got = <<>> => all = <<>>
            /\ got # all => n # 0 /\ Size(got) >= n
            /\ n # 0 /\ got # <<>> => Size(Front(got)) < n
            /\ GetElementsStoredSize(tb, mn, mt) <= n =>
                   Len(got) = GetElementCount(tb, mn, mt)

\* Every call that has begun returns, and does not keep m_mutex when it
\* has: the lock is released on every path out of Store and RemoveMultiple.
CallsReturn ==
    \A t \in Threads : frame[t] # Idle ~> (frame[t] = Idle /\ mutex # t)

\* The file holds nothing of a Store call that has not returned: until
\* CommitTransaction a restart finds none of the batch, whatever Clear and
\* the other threads do on the connection meanwhile.
UncommittedNotInFile ==
    \A t \in Threads : frame[t].op = "store" =>
        \A r \in ToSet(durable[frame[t].table]) : r.call # frame[t].call

\* A crash loses only rows of Store calls that were still in progress: every
\* message of a Store that returned, and that the connection still showed,
\* is found by the process that starts next.
CrashKeepsReturnedStores ==
    [][crashes' # crashes =>
          \A tb \in Tables : \A uid \in Uids(tables[tb]) \ Uids(tables'[tb]) :
              \E t \in Threads : frame[t].op = "store" /\ frame[t].call = uid[1]
      ]_vars

\* Until RemoveMultiple commits, the file holds every message it selected:
\* a crash between a Remove and CommitTransaction brings the whole batch
\* back to the consumer, never a part of it, whatever Clear does on the
\* connection meanwhile.
SelectedStayInFile ==
    \A t \in Threads : frame[t].op = "remove" =>
        frame[t].chosen \subseteq Uids(durable[frame[t].table])

\* The queue is first in, first out: of the messages RemoveMultiple
\* selected, the ones it leaves in the table are newer than the ones it
\* removed.  It is about the catch inside the loop, which skips a Remove
\* that threw and goes on with the next rowid.
RemoveKeepsQueueOrder ==
    [][\A t \in Threads :
          LET f    == frame[t]
              kept == f.chosen \cap Uids(tables'[f.table])
              Older(u, v) == u[1] < v[1] \/ (u[1] = v[1] /\ u[2] < v[2])
          IN  f.op = "remove" /\ frame'[t] = Idle /\ crashes' = crashes =>
                \A u \in f.chosen \ kept, v \in kept : Older(u, v)
      ]_vars

\* When Clear returns true the messages it removed are gone from the file:
\* mutations of the store go through the store's transaction, so that what
\* a call reports done is not undone by a crash.
ClearedWhenReturned ==
    [][\A t \in Threads :
          LET f == frame[t] IN
          /\ f.op = "clear" /\ f.pending = <<>>
          /\ frame'[t] = Idle /\ crashes' = crashes
          => \A tb \in Tables : Uids(durable'[tb]) \cap f.removed = {}
      ]_vars

\* Every row Store inserts carries the module name, module type and
\* metadata the call was given.
RowsCarryCallFields ==
    [][\A t \in Threads :
          LET f == frame[t] IN
          f.op = "store" /\ Len(tables'[f.table]) > Len(tables[f.table]) =>
              \A c \in ToSet(Columns) : Last(tables'[f.table])[c] = f.args[c]
      ]_vars

=============================================================================
