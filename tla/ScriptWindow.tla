----------------------------- MODULE ScriptWindow -----------------------------
(***************************************************************************)
(* A script in a thread of its own (RunSql) and the window that shows its  *)
(* results (MainWindow::executeQuery).  After every statement the script   *)
(* sends a signal and sleeps until the window calls startNextStatement,    *)
(* for a result only when its rows are loaded and counted.  The user may   *)
(* stop the script, or close the file, which stops it and waits for it.    *)
(* The savepoints of the script are in Savepoints, the loader in detail in *)
(* RowLoader and the waiting for the database in DbAccess.  Here a call    *)
(* that needs the database or the mutex happens when it gets it.           *)
(***************************************************************************)
EXTENDS Naturals, Sequences

CONSTANTS
  Kinds,     \* what statements there are; setting a pragma and VACUUM are one
  MaxLength  \* bound: the number of statements in the text

ASSUME ScriptWindowAssumption ==
  /\ Kinds \subseteq {"empty", "rows", "write", "pragma", "invalid"}
  /\ MaxLength \in Nat

VARIABLES
  \* The script.
  pc,          \* what its thread does
  left,        \* queries_left_to_execute
  position,    \* execute_current_position, in statements
  until,       \* execute_to_position
  mayContinue, \* may_continue_with_execution
  m,           \* does the script's thread hold the mutex?
  savepoint,   \* savepoint_created
  local,       \* of the statement: its kind, its end, whether it has failed
  \* Shared with the window.
  db,          \* who holds the database
  events,      \* the queued signals
  \* The window.
  window,      \* "idle", "asking" in a message box, "joining" in wait()
  callback,    \* does it wait for the loader's signal?
  loading,     \* does the row loader load and count?
  \* History.
  stopped,     \* has the script been stopped?
  uncounted,   \* did the loader fail to count?
  prepared,    \* how many statements were prepared
  asked        \* how many statements the user wanted to have executed

script == <<pc, left, position, until, mayContinue, m, savepoint, local>>
gui == <<window, callback, loading>>
history == <<stopped, uncounted, prepared, asked>>
vars == <<script, db, events, gui, history>>

Signals == {"confirm", "executed", "rows", "errored", "finished", "counted"}

NoStatement == [kind |-> "empty", end |-> 0, failed |-> FALSE]

Init ==
  /\ \E length \in 1..MaxLength : left \in [1..length -> Kinds]
  /\ until \in 1..Len(left)
  /\ asked = until
  /\ pc = "begin"
  /\ position = 0
  /\ mayContinue = TRUE
  /\ m = FALSE
  /\ savepoint = FALSE
  /\ local = NoStatement
  /\ db = "none"
  /\ events = <<>>
  /\ window = "idle"
  /\ callback = FALSE
  /\ loading = FALSE
  /\ stopped = FALSE
  /\ uncounted = FALSE
  /\ prepared = 0

Emit(signal) == events' = Append(events, signal)

(***************************************************************************)
(* RunSql.                                                                 *)
(***************************************************************************)
\* Mutant: the statements that are left stay.
StopExecution_KeepText ==
  /\ position' = 0
  /\ until' = 0
  /\ UNCHANGED left

\* The caller says what becomes of m, pc, savepoint and local.
StopExecution ==
  /\ position' = 0
  /\ until' = 0
  /\ left' = <<>>

\* executeNextStatement takes the mutex and keeps it until the database is
\* free and the statement prepared.
Begin ==
  /\ pc = "begin"
  /\ ~m
  /\ IF left = <<>>
     THEN pc' = "done" /\ Emit("finished") /\ UNCHANGED m
     ELSE pc' = "acquire" /\ m' = TRUE /\ UNCHANGED events
  /\ UNCHANGED <<left, position, until, mayContinue, savepoint, local>>
  /\ UNCHANGED <<db, gui, history>>

\* Whether the database is dirty when a pragma is set depends on what else
\* was done; other statements make sure that there is a savepoint.
Prepare ==
  /\ pc = "acquire"
  /\ db = "none"
  /\ LET kind == Head(left)
     IN  /\ local' = [kind |-> kind, end |-> position + 1,
                      failed |-> kind = "invalid"]
         /\ \/ kind = "empty" /\ pc' = "empty"
            \/ kind = "invalid" /\ pc' = "cleanup"
            \/ kind = "pragma" /\ pc' \in {"confirm", "step"}
            \/ /\ kind \in {"rows", "write"}
               /\ pc' = IF savepoint THEN "step" ELSE "savepoints"
         /\ db' = IF pc' = "savepoints" THEN "none" ELSE "script"
         /\ IF pc' = "confirm" THEN Emit("confirm") ELSE UNCHANGED events
  /\ left' = Tail(left)
  /\ m' = FALSE
  /\ prepared' = prepared + 1
  /\ UNCHANGED <<position, until, mayContinue, savepoint>>
  /\ UNCHANGED <<gui, stopped, uncounted, asked>>

\* Mutant: the whole text is executed.
Proceed_All ==
  /\ IF left = <<>>
     THEN /\ StopExecution
          /\ mayContinue' = FALSE
          /\ pc' = "done"
          /\ Emit("finished")
     ELSE /\ position' = local.end
          /\ pc' = "begin"
          /\ UNCHANGED <<left, until, mayContinue, events>>

\* Go on to the next statement, or end when the last one asked for is done.
Proceed ==
  /\ IF local.end >= until
     THEN /\ StopExecution
          /\ mayContinue' = FALSE
          /\ pc' = "done"
          /\ Emit("finished")
     ELSE /\ position' = local.end
          /\ pc' = "begin"
          /\ UNCHANGED <<left, until, mayContinue, events>>

Empty ==
  /\ pc = "empty"
  /\ ~m
  /\ db' = "none"
  /\ Proceed
  /\ UNCHANGED <<m, savepoint, local, gui, history>>

\* The statements that set the savepoints wait for the database as well.
SetSavepoints ==
  /\ pc = "savepoints"
  /\ db = "none"
  /\ savepoint' = TRUE
  /\ pc' = "reacquire"
  /\ UNCHANGED <<left, position, until, mayContinue, m, local>>
  /\ UNCHANGED <<db, events, gui, history>>

Reacquire ==
  /\ pc = "reacquire"
  /\ db = "none"
  /\ db' = "script"
  /\ pc' = "step"
  /\ UNCHANGED <<left, position, until, mayContinue, m, savepoint, local>>
  /\ UNCHANGED <<events, gui, history>>

\* After the blocking signal the script knows the answer by its end position.
Answered ==
  /\ pc = "answered"
  /\ db' = "none"
  /\ IF until > 0
     THEN pc' = "commit" /\ UNCHANGED events
     ELSE pc' = "done" /\ events' = events \o <<"errored", "finished">>
  /\ UNCHANGED <<left, position, until, mayContinue, m, savepoint, local>>
  /\ UNCHANGED <<gui, history>>

ReleaseAllSavepoints ==
  /\ pc = "commit"
  /\ db = "none"
  /\ savepoint' = FALSE
  /\ pc' = "reacquire"
  /\ UNCHANGED <<left, position, until, mayContinue, m, local>>
  /\ UNCHANGED <<db, events, gui, history>>

\* A statement may fail, for one because it is interrupted.
Step ==
  /\ pc = "step"
  /\ \/ /\ pc' = "report"
        /\ db' = "none"
        /\ UNCHANGED local
     \/ /\ pc' = "cleanup"
        /\ local' = [local EXCEPT !.failed = TRUE]
        /\ UNCHANGED db
  /\ UNCHANGED <<left, position, until, mayContinue, m, savepoint>>
  /\ UNCHANGED <<events, gui, history>>

\* The signal is sent and the script sleeps.  A pragma may return rows.
Report ==
  /\ pc = "report"
  /\ ~m
  /\ mayContinue' = FALSE
  /\ \/ local.kind \in {"rows", "pragma"} /\ Emit("rows")
     \/ local.kind \in {"write", "pragma"} /\ Emit("executed")
  /\ pc' = "parked"
  /\ UNCHANGED <<left, position, until, m, savepoint, local>>
  /\ UNCHANGED <<db, gui, history>>

Continue ==
  /\ pc = "parked"
  /\ mayContinue
  /\ pc' = "cleanup"
  /\ UNCHANGED <<left, position, until, mayContinue, m, savepoint, local>>
  /\ UNCHANGED <<db, events, gui, history>>

\* Savepoints that were not needed are released, which waits for the
\* database with the mutex held.
Cleanup ==
  /\ pc = "cleanup"
  /\ ~m
  /\ m' = TRUE
  /\ db' = IF db = "script" THEN "none" ELSE db
  /\ pc' \in {"conclude"} \cup (IF savepoint THEN {"unneeded"} ELSE {})
  /\ UNCHANGED <<left, position, until, mayContinue, savepoint, local>>
  /\ UNCHANGED <<events, gui, history>>

ReleaseUnneeded ==
  /\ pc = "unneeded"
  /\ db = "none"
  /\ savepoint' = FALSE
  /\ pc' = "conclude"
  /\ UNCHANGED <<left, position, until, mayContinue, m, local>>
  /\ UNCHANGED <<db, events, gui, history>>

Conclude ==
  /\ pc = "conclude"
  /\ m' = FALSE
  /\ IF local.failed
     THEN /\ StopExecution
          /\ mayContinue' = FALSE
          /\ pc' = "done"
          /\ events' = events \o <<"errored", "finished">>
     ELSE Proceed
  /\ UNCHANGED <<savepoint, local, db, gui, history>>

(***************************************************************************)
(* The window.                                                             *)
(***************************************************************************)
Handle(signal) ==
  /\ window \in {"idle", "asking"}
  /\ events # <<>>
  /\ Head(events) = signal

\* Mutant: a script that was stopped is not woken again.
StartNextStatement_IfAsked ==
  /\ ~m
  /\ mayContinue' = (mayContinue \/ until > 0)
  /\ UNCHANGED <<pc, left, position, until, m, savepoint, local>>

StartNextStatement ==
  /\ ~m
  /\ mayContinue' = TRUE
  /\ UNCHANGED <<pc, left, position, until, m, savepoint, local>>

HandleExecuted ==
  /\ Handle("executed")
  /\ events' = Tail(events)
  /\ StartNextStatement
  /\ UNCHANGED <<db, gui, history>>

\* Mutant: the script goes on before the rows are loaded.
HandleRows_AtOnce ==
  /\ Handle("rows")
  /\ db \in {"none", "loader"}
  /\ events' = Tail(events)
  /\ db' = "loader"
  /\ loading' = TRUE
  /\ callback' = TRUE
  /\ StartNextStatement
  /\ UNCHANGED <<window, history>>

\* setQuery, which needs the database for the loader.
HandleRows ==
  /\ Handle("rows")
  /\ db \in {"none", "loader"}
  /\ events' = Tail(events)
  /\ db' = "loader"
  /\ loading' = TRUE
  /\ callback' = TRUE
  /\ UNCHANGED <<script, window, history>>

\* Mutant: the script is not woken by the count.
HandleCounted_Keep ==
  /\ Handle("counted")
  /\ events' = Tail(events)
  /\ callback' = FALSE
  /\ UNCHANGED <<script, db, window, loading, history>>

\* finishedFetch with the row count; the callback disconnects itself.
HandleCounted ==
  /\ Handle("counted")
  /\ events' = Tail(events)
  /\ callback' = FALSE
  /\ IF callback THEN StartNextStatement ELSE UNCHANGED script
  /\ UNCHANGED <<db, window, loading, history>>

HandleEnd ==
  /\ Handle("errored") \/ Handle("finished")
  /\ events' = Tail(events)
  /\ UNCHANGED <<script, db, gui, history>>

\* The message box runs an event loop of its own.
HandleConfirm ==
  /\ Handle("confirm")
  /\ window = "idle"
  /\ events' = Tail(events)
  /\ window' = "asking"
  /\ UNCHANGED <<script, db, callback, loading, history>>

Stop ==
  /\ ~m
  /\ StopExecution
  /\ mayContinue' = TRUE
  /\ stopped' = TRUE
  /\ UNCHANGED <<m, savepoint, local, uncounted, prepared, asked>>

\* Only No stops the script.  The end of the slot wakes it.
Answer ==
  /\ window = "asking"
  /\ window' = "idle"
  /\ pc' = "answered"
  /\ \/ Stop
     \/ UNCHANGED <<left, position, until, mayContinue, m, savepoint, local,
                     history>>
  /\ UNCHANGED <<db, events, callback, loading>>

\* The button to stop.
StopScript ==
  /\ window = "idle"
  /\ pc # "done"
  /\ Stop
  /\ UNCHANGED <<pc, db, events, gui>>

\* fileClose, executeQuery and closeSqlTab stop the script and wait for it.
Close ==
  /\ window = "idle"
  /\ pc # "done"
  /\ Stop
  /\ window' = "joining"
  /\ UNCHANGED <<pc, db, events, callback, loading>>

Joined ==
  /\ window = "joining"
  /\ pc = "done"
  /\ window' = "closed"
  /\ UNCHANGED <<script, db, events, callback, loading, history>>

\* Mutant: the loader keeps the database.
LoadEnd_KeepDb ==
  /\ loading
  /\ loading' = FALSE
  /\ Emit("counted")
  /\ UNCHANGED <<script, db, window, callback, history>>

\* The loader ends.  A query that cannot be counted gives no signal.
LoadEnd ==
  /\ loading
  /\ loading' = FALSE
  /\ db' = "none"
  /\ \/ Emit("counted") /\ UNCHANGED uncounted
     \/ uncounted' = TRUE /\ UNCHANGED events
  /\ UNCHANGED <<script, window, callback, stopped, prepared, asked>>

ScriptStep ==
  \/ Begin \/ Prepare \/ Empty \/ SetSavepoints \/ Reacquire \/ Answered
  \/ ReleaseAllSavepoints \/ Step \/ Report \/ Continue \/ Cleanup
  \/ ReleaseUnneeded \/ Conclude

HandleEvent ==
  \/ HandleExecuted \/ HandleRows \/ HandleCounted \/ HandleEnd
  \/ HandleConfirm

Next ==
  \/ ScriptStep \/ HandleEvent \/ Answer \/ StopScript \/ Close \/ Joined
  \/ LoadEnd

\* The threads run, the window handles its events, the user answers, and
\* loading ends.  Nothing makes the user stop or close anything.
Fairness ==
  /\ WF_vars(ScriptStep)
  /\ WF_vars(HandleEvent)
  /\ WF_vars(Answer)
  /\ WF_vars(Joined)
  /\ WF_vars(LoadEnd)

Spec == Init /\ [][Next]_vars /\ Fairness

(***************************************************************************)
(* Properties.                                                             *)
(***************************************************************************)
\* The mutex and the database are held where the code holds them.
TypeOK ==
  /\ pc \in {"begin", "acquire", "empty", "savepoints", "reacquire",
             "confirm", "answered", "commit", "step", "report", "parked",
             "cleanup", "unneeded", "conclude", "done"}
  /\ position \in 0..MaxLength
  /\ until \in 0..MaxLength
  /\ mayContinue \in BOOLEAN
  /\ m = (pc \in {"acquire", "unneeded", "conclude"})
  /\ db \in {"none", "script", "loader"}
  /\ db = "script" =>
       pc \in {"empty", "confirm", "answered", "step", "cleanup"}
  /\ (db = "loader") = loading
  /\ events \in Seq(Signals)
  /\ window \in {"idle", "asking", "joining", "closed"}

\* "Make sure the next statement isn't executed until we're told to do so":
\* when a statement begins the results of those before it have been shown,
\* unless the script was stopped.
ShownBeforeNext ==
  pc \in {"begin", "acquire", "step"} /\ ~stopped =>
    /\ \A i \in 1..Len(events) : events[i] \notin {"executed", "rows"}
    /\ ~callback

\* No statement is prepared beyond those that were asked for (run).
OnlyAskedFor == prepared <= asked

\* After stop() no statement is prepared at all, wherever the script was.
StoppedPreparesNothing == [][stopped => prepared' = prepared]_vars

\* What keeps a script from ending: the window waits for it while it waits
\* for the window, in the blocking signal or after a stop that was lost.
Stranded ==
  /\ window = "joining"
  /\ \/ pc = "confirm"
     \/ pc = "parked" /\ ~mayContinue

\* A script that is stopped ends, unless it parks again after the stop with
\* a result that cannot be counted.
StopEnds ==
  stopped ~> \/ pc = "done"
             \/ Stranded
             \/ uncounted /\ pc = "parked" /\ ~mayContinue

\* A script goes on after every statement and ends, unless the rows of its
\* result cannot be counted and the user does not stop it.
ScriptEnds == <>(pc = "done" \/ Stranded \/ uncounted)
===============================================================================
