--------------------------- MODULE DBSyncDrivers ---------------------------
(***************************************************************************)
(* The two programs that drive the library through its C interface:        *)
(* src/common/dbsync/example/main.cpp and testtool/main.cpp.               *)
(*                                                                         *)
(* Each is one thread, Main, that runs from `start` to `done`; pc is where *)
(* it stands.  The example inserts three processes and then applies one    *)
(* snapshot again and again until the user types q.  The test tool opens   *)
(* the database as its configuration says, executes a list of actions and  *)
(* tears the library down.  A program that has exited can be run again,    *)
(* over the database file the run before it left.                          *)
(***************************************************************************)
EXTENDS DBSync

CONSTANTS
    Main,        \* the thread of main()
    MaxPasses,   \* bound: passes of the example's loop in one run
    MaxActions   \* bound: action files on the test tool's command line

ASSUME /\ Main \in Threads
       /\ MaxPasses \in Nat /\ MaxActions \in Nat

VARIABLES
    program,  \* which main() is running
    pc,       \* where it is
    printed,  \* the example: what it wrote to stdout, pass by pass
    idx,      \* the test tool: the loop index
    count     \* the test tool: actions.size()

dvars == <<program, pc, printed, idx, count>>

allvars == <<vars, dvars>>

Programs == {"example", "testtool"}

Places == {"start", "insert", "update", "updating", "prompt", "actions",
           "acting", "teardown", "caught", "done"}

\* A pass of the example prints the changeset, or an error message.
Result(changes) == [error |-> FALSE, changes |-> changes]
Error           == [error |-> TRUE, changes |-> <<>>]

DriversTypeOK ==
    /\ TypeOK
    /\ program \in Programs
    /\ pc \in Places
    /\ printed \in Seq([error : BOOLEAN, changes : Seq(Entry)])
    /\ Len(printed) <= MaxPasses
    /\ idx \in 0..MaxActions
    /\ count \in 0..MaxActions

-----------------------------------------------------------------------------
(* The example's data.  A row content stands for all columns but pid and   *)
(* is named after the name column.                                         *)

\* The three processes of insert_sql.
insert_sql ==
    << [key |-> 4, value |-> "System"],
       [key |-> 5, value |-> "System"],
       [key |-> 6, value |-> "System"] >>

\* The snapshot of update_sql: pid 4 with a new name, path, cmdline and
\* cwd, pid 53 new, pid 5 with a new name, pid 6 missing.  The text has
\* two stray characters after the JSON value, which cJSON_Parse ignores.
update_sql ==
    << [key |-> 4,  value |-> "Systemsss"],
       [key |-> 53, value |-> "System"],
       [key |-> 5,  value |-> "Systemaa"] >>

ASSUME {insert_sql, update_sql} \subseteq Snapshots

\* The handle this run was given.
handle == created

At(place) == pc = place

Goto(place) == pc' = place

Engine == UNCHANGED vars

-----------------------------------------------------------------------------
(* example/main.cpp *)

\* dbsync_create: a volatile database in temp.db, or nullptr, and then the
\* program ends without a call.
ExCreate ==
    /\ At("start") /\ program = "example"
    /\ \/ Create(NONE, "VOLATILE") /\ Goto("insert")
       \/ Engine /\ Goto("done")
    /\ UNCHANGED <<program, printed, idx, count>>

\* Mutation variant of ExInsert: dbsync_teardown() inside the inner if.
ExInsertThenExit ==
    /\ At("insert")
    /\ \/ InsertData(Main, handle, insert_sql) /\ Goto("update")
       \/ CallFails(Main, handle) /\ Goto("done")
    /\ UNCHANGED <<program, printed, idx, count>>

\* dbsync_insert_data: on 0 the loop is entered, otherwise it is skipped.
ExInsert ==
    /\ At("insert")
    /\ \/ InsertData(Main, handle, insert_sql) /\ Goto("update")
       \/ CallFails(Main, handle) /\ Goto("teardown")
    /\ UNCHANGED <<program, printed, idx, count>>

\* One pass of the loop: dbsync_update_with_snapshot with update_sql, and
\* its result or the error message on stdout.
ExUpdate ==
    /\ At("update")
    /\ UpdateBegin(Main, handle, update_sql)
    /\ Goto("updating")
    /\ UNCHANGED <<program, printed, idx, count>>

ExUpdating ==
    /\ At("updating")
    /\ \/ /\ UpdateRow(Main)
          /\ UNCHANGED <<pc, printed>>
       \/ /\ UpdateCommit(Main)
          /\ printed' = Append(printed, Result(frame[Main].result))
          /\ Goto("prompt")
       \/ /\ UpdateFails(Main)
          /\ printed' = Append(printed, Error)
          /\ Goto("prompt")
    /\ UNCHANGED <<program, idx, count>>

\* while (getc(stdin) != 'q'): another pass, or out of the loop.
ExPrompt ==
    /\ At("prompt")
    /\ \/ Len(printed) < MaxPasses /\ Goto("update")
       \/ Goto("teardown")
    /\ Engine
    /\ UNCHANGED <<program, printed, idx, count>>

-----------------------------------------------------------------------------
(* testtool/main.cpp *)

\* Command line and configuration are read, and the database is opened
\* persistent or volatile as the configuration says.
TtCreate ==
    /\ At("start") /\ program = "testtool"
    /\ \E mode \in Modes : Create(NONE, mode)
    /\ \E n \in 0..MaxActions : count' = n
    /\ Goto("actions")
    /\ UNCHANGED <<program, printed, idx>>

\* The handle is null: a message, and the end of main.
TtNoHandle ==
    /\ At("start") /\ program = "testtool"
    /\ Engine
    /\ Goto("done")
    /\ UNCHANGED <<program, printed, idx, count>>

\* Mutation variant of TtAction: the loop runs while idx <= actions.size().
TtActionOnePast ==
    /\ At("actions") /\ idx <= count
    /\ idx' = idx + 1
    /\ Operation(Main, handle)
    /\ pc' = IF frame'[Main] = Idle THEN "actions" ELSE "acting"
    /\ UNCHANGED <<program, printed, count>>

\* One turn of the loop: the action file is parsed and the action executed.
TtAction ==
    /\ At("actions") /\ idx < count
    /\ idx' = idx + 1
    /\ Operation(Main, handle)
    /\ pc' = IF frame'[Main] = Idle THEN "actions" ELSE "acting"
    /\ UNCHANGED <<program, printed, count>>

\* The configuration or an action file does not parse, or the action is
\* not known: the exception ends in the catch of main, which is past
\* dbsync_teardown().
TtThrows ==
    /\ program = "testtool"
    /\ At("start") \/ (At("actions") /\ idx < count)
    /\ Engine
    /\ Goto("caught")
    /\ UNCHANGED <<program, printed, idx, count>>

\* The action is a snapshot: the call runs to its end.
TtActing ==
    /\ At("acting")
    /\ Step(Main)
    /\ pc' = IF frame'[Main] = Idle THEN "actions" ELSE "acting"
    /\ UNCHANGED <<program, printed, idx, count>>

TtLoopEnds ==
    /\ At("actions") /\ idx = count
    /\ Engine
    /\ Goto("teardown")
    /\ UNCHANGED <<program, printed, idx, count>>

-----------------------------------------------------------------------------
(* Both programs *)

\* dbsync_teardown().
Quit ==
    /\ At("teardown")
    /\ Teardown
    /\ Goto("done")
    /\ UNCHANGED <<program, printed, idx, count>>

\* return 0: the process ends, and with it the registry and whatever was
\* not torn down.  One of the programs is started next, and finds the file.
Exit ==
    /\ At("done") \/ At("caught")
    /\ created < MaxHandles
    /\ live' = {}
    /\ program' \in Programs
    /\ Goto("start")
    /\ printed' = <<>>
    /\ idx' = 0
    /\ count' = 0
    /\ UNCHANGED <<created, objs, db, maxRows, writer, frame, out, mirror,
                   tornDown>>

DriversInit ==
    /\ Init
    /\ program \in Programs
    /\ pc = "start"
    /\ printed = <<>>
    /\ idx = 0
    /\ count = 0

Example == ExCreate \/ ExInsert \/ ExUpdate \/ ExUpdating \/ ExPrompt

TestTool ==
    TtCreate \/ TtNoHandle \/ TtAction \/ TtActing \/ TtLoopEnds \/ TtThrows

DriversNext == Example \/ TestTool \/ Quit \/ Exit

DriversSpec == DriversInit /\ [][DriversNext]_allvars

-----------------------------------------------------------------------------
(* Properties *)

\* The changesets of the passes that succeeded, in order.
Successes ==
    LET passed == SelectSeq(printed, LAMBDA p : ~p.error)
    IN  [i \in DOMAIN passed |-> passed[i].changes]

\* The example's loop is idempotent and can be retried: however many
\* passes failed before, between and after, the first pass that succeeds
\* prints one entry for each of the four rows the snapshot changes, and
\* every later one prints an empty result.
ExamplePassesRepeat ==
    program = "example" =>
        \A i \in DOMAIN Successes :
            /\ i = 1 => {<<e.type, e.key>> : e \in ToSet(Successes[i])} =
                           {<<"MODIFIED", 4>>, <<"INSERTED", 53>>,
                            <<"MODIFIED", 5>>, <<"DELETED", 6>>}
            /\ i > 1 => Successes[i] = <<>>

\* A program that was given a handle and returns from its if has called
\* dbsync_teardown(), on the paths where a call failed too: when
\* dbsync_insert_data fails, when every pass of the loop fails, when the
\* list of actions is empty.
HandleReleasedAtExit == At("done") => live = {}

=============================================================================
