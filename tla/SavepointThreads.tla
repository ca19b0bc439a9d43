------------------------- MODULE SavepointThreads -------------------------
(***************************************************************************)
(* The user interface and a script of the SQL editor, each in its thread,  *)
(* at work on the savepoints of one database.  A call of setSavepoint,     *)
(* releaseSavepoint or revertToSavepoint looks at savepointList, runs its  *)
(* SQL, for which the user interface may have to wait until the script     *)
(* gives the database back, and then changes the list; no lock holds these *)
(* three steps together.  Module Savepoints takes a call as one step.      *)
(*                                                                         *)
(* A step reads or writes the list as a whole; what two threads do to the  *)
(* memory of a std::vector at the same instant is outside the model.       *)
(***************************************************************************)
EXTENDS Integers, FiniteSets, Sequences, SequencesExt, Functions

CONSTANTS MaxDepth,        \* bound: length of the list and of SQLite's stack
          MaxStatements    \* bound: statements of one script

ASSUME SavepointThreadsAssumption == MaxDepth \in Nat /\ MaxStatements \in Nat

RESTOREPOINT == "RESTOREPOINT"
UNDOPOINT == "UNDOPOINT"
Names == {RESTOREPOINT, UNDOPOINT}
Threads == {"ui", "script"}
Other(t) == CHOOSE u \in Threads : u # t

VARIABLES savepointList,  \* the names of the savepoints, oldest first
          stack,          \* the names of the savepoints SQLite has
          calls,          \* the calls each thread is about to make, in order
          at,             \* where each thread is in the first of them
          ui,             \* what the user interface is in the middle of
          waiting,        \* does its thread sleep until the database is free?
          script,         \* the running script
          undefined,      \* was the list erased from before its beginning?
          ended,          \* did a statement of a script end a transaction?
          overlapped      \* were both threads inside a call at once?

vars == <<savepointList, stack, calls, at, ui, waiting, script, undefined,
          ended, overlapped>>

database == <<savepointList, stack>>
layer == <<calls, at, waiting>>
history == <<undefined, ended, overlapped>>

getDirty == savepointList # << >>

\* The script has the database.
DbUsed == script.pc \in {"prepared", "asking", "ready", "pragma"}

---------------------------------------------------------------------------
(* The calls of the savepoint layer. *)

Call(what, name) == [what |-> what, name |-> name]

\* The most recent savepoint of that name, 0 if there is none.
LastOf(names, name) == SelectLastInSeq(names, LAMBDA n : n = name)

\* The names without the most recent entry of that name and those after it.
Forget(names, name) == SubSeq(names, 1, LastOf(names, name) - 1)

Calling(t, step) == calls[t] # << >> /\ at[t] = step

\* Past its look at the list, or at the COMMIT of releaseAllSavepoints.
InCall(t) == at[t] # "look" \/ (t = "ui" /\ ui = "committing")

\* Thread t goes into a call, or into that COMMIT.
Enter(t) == overlapped' = (overlapped \/ InCall(Other(t)))

\* Mutant: the result of a call in a loop is not looked at.
GiveUp_Never(t) == UNCHANGED <<ui, script>>

\* What a call that returned false ends: a loop of the user interface, or
\* the loop before a script's pragma.
GiveUp(t) ==
    /\ ui' = IF t = "ui" THEN "idle" ELSE ui
    /\ script' = IF t = "script" /\ script.pc = "commit"
                 THEN [script EXCEPT !.pc = "pragma",
                                     !.savepoint_created = FALSE]
                 ELSE script

Return(t, result) ==
    /\ calls' = [calls EXCEPT ![t] = Tail(@)]
    /\ at' = [at EXCEPT ![t] = "look"]
    /\ IF result THEN UNCHANGED <<ui, script>> ELSE GiveUp(t)

\* A unique savepoint is set once; there is nothing to release or to revert
\* to for a name that is not on the list.
NothingToDo(call) ==
    LET listed == call.name \in Range(savepointList)
    IN  IF call.what = "set" THEN call.name = RESTOREPOINT /\ listed ELSE ~listed

\* The look at the list.
LookAndReturn(t) ==
    /\ Calling(t, "look")
    /\ NothingToDo(Head(calls[t]))
    /\ Return(t, Head(calls[t]).what # "revert")
    /\ UNCHANGED <<database, waiting, history>>

LookAndGoOn(t) ==
    /\ Calling(t, "look")
    /\ ~NothingToDo(Head(calls[t]))
    /\ at' = [at EXCEPT ![t] = "exec"]
    /\ Enter(t)
    /\ UNCHANGED <<database, calls, ui, waiting, script, undefined, ended>>

\* executeSQL in the thread of the user interface finds the database in use
\* and asks; once that box is answered, the thread sleeps.  A question of the
\* script that came up in the meantime is on top of the box.
WaitForDb ==
    /\ Calling("ui", "exec") \/ ui = "committing"
    /\ DbUsed /\ script.pc # "asking" /\ ~waiting
    /\ waiting' = TRUE
    /\ UNCHANGED <<database, calls, at, ui, script, history>>

\* The thread may run SQL: the script's has given the database back itself.
MayRun(t) == t = "ui" => ~DbUsed

Awake(t) == waiting' = (waiting /\ t # "ui")

\* SAVEPOINT
ExecSet(t) ==
    /\ Calling(t, "exec") /\ Head(calls[t]).what = "set" /\ MayRun(t)
    /\ Len(stack) < MaxDepth
    /\ stack' = Append(stack, Head(calls[t]).name)
    /\ at' = [at EXCEPT ![t] = "update"]
    /\ Awake(t)
    /\ UNCHANGED <<savepointList, calls, ui, script, history>>

\* RELEASE of a savepoint that SQLite has not fails; that of the outermost is
\* a COMMIT, which may be refused.
ReleaseFails(name, refused) ==
    LET k == LastOf(stack, name) IN k = 0 \/ (k = 1 /\ refused)

\* Mutant: the entries are erased although RELEASE failed.
ExecRelease_Unchecked(t, refused) ==
    /\ Calling(t, "exec") /\ Head(calls[t]).what = "release" /\ MayRun(t)
    /\ LET name == Head(calls[t]).name
       IN  stack' = IF ReleaseFails(name, refused) THEN stack
                    ELSE Forget(stack, name)
    /\ at' = [at EXCEPT ![t] = "update"]
    /\ Awake(t)
    /\ UNCHANGED <<savepointList, calls, ui, script, history>>

ExecRelease(t, refused) ==
    /\ Calling(t, "exec") /\ Head(calls[t]).what = "release" /\ MayRun(t)
    /\ LET name == Head(calls[t]).name
       IN  IF ReleaseFails(name, refused)
           THEN Return(t, FALSE) /\ UNCHANGED stack
           ELSE /\ stack' = Forget(stack, name)
                /\ at' = [at EXCEPT ![t] = "update"]
                /\ UNCHANGED <<calls, ui, script>>
    /\ Awake(t)
    /\ UNCHANGED <<savepointList, history>>

\* ROLLBACK TO and RELEASE, whose results are not looked at.
ExecRevert(t) ==
    /\ Calling(t, "exec") /\ Head(calls[t]).what = "revert" /\ MayRun(t)
    /\ LET name == Head(calls[t]).name
       IN  stack' = IF name \in Range(stack) THEN Forget(stack, name) ELSE stack
    /\ at' = [at EXCEPT ![t] = "update"]
    /\ Awake(t)
    /\ UNCHANGED <<savepointList, calls, ui, script, history>>

\* The change of the list.  Where the entry is gone by then, the search ends
\* one before the beginning of the list: undefined behaviour.
Update(t) ==
    /\ Calling(t, "update")
    /\ LET call == Head(calls[t])
           found == call.name \in Range(savepointList)
       IN  /\ call.what = "set" => Len(savepointList) < MaxDepth
           /\ undefined' = (call.what # "set" /\ ~found)
           /\ savepointList' =
                  CASE call.what = "set" -> Append(savepointList, call.name)
                    [] call.what # "set" /\ found -> Forget(savepointList, call.name)
                    [] OTHER -> savepointList
    /\ Return(t, TRUE)
    /\ UNCHANGED <<stack, waiting, ended, overlapped>>

CallStep(t) ==
    \/ LookAndReturn(t) \/ LookAndGoOn(t)
    \/ ExecSet(t) \/ ExecRevert(t) \/ Update(t)
    \/ \E refused \in BOOLEAN : ExecRelease(t, refused)

\* The thread goes on with what it does when its calls are made.
Made(t) == calls[t] = << >>

Begin(t, todo) ==
    /\ calls' = [calls EXCEPT ![t] = todo]
    /\ UNCHANGED <<at, waiting>>

---------------------------------------------------------------------------
(* The user interface. *)

\* Editing a cell, with the old value or a new one; and whatever is run with
\* `dirtyDB`, like adding a record.
Edit ==
    /\ ui = "idle"
    /\ ui' = "edit"
    /\ \E todo \in {<<Call("set", UNDOPOINT)>>,
                    <<Call("set", UNDOPOINT), Call("set", RESTOREPOINT)>>,
                    <<Call("set", RESTOREPOINT)>>} : Begin("ui", todo)
    /\ UNCHANGED <<database, script, history>>

\* Undo.  Its button shows the last dbChanged signal, so the list may already
\* be empty.
Undo ==
    /\ ui = "idle"
    /\ ui' = "edit"
    /\ Begin("ui", <<Call("revert", UNDOPOINT)>>)
    /\ UNCHANGED <<database, script, history>>

EditDone ==
    /\ ui = "edit" /\ Made("ui")
    /\ ui' = "idle"
    /\ UNCHANGED <<database, layer, script, history>>

\* Write Changes, which waits for the database before it starts, and Revert
\* Changes.
Start(what) ==
    /\ ui = "idle"
    /\ what = "save" => ~DbUsed
    /\ ui' = what
    /\ UNCHANGED <<database, layer, script, history>>

\* One round of the loop in releaseAllSavepoints and in revertAll: the oldest
\* entry.  A call that returns false ends the loop (GiveUp).
Round ==
    /\ ui \in {"save", "revert"} /\ Made("ui") /\ getDirty
    /\ Begin("ui", <<Call(IF ui = "save" THEN "release" ELSE "revert",
                          Head(savepointList))>>)
    /\ UNCHANGED <<database, ui, script, history>>

RoundsDone ==
    /\ ui \in {"save", "revert"} /\ Made("ui") /\ ~getDirty
    /\ ui = "revert" \/ stack = << >>
    /\ ui' = "idle"
    /\ UNCHANGED <<database, layer, script, history>>

\* COMMIT of a transaction that is still open, which may be refused.
RoundsToCommit ==
    /\ ui = "save" /\ Made("ui") /\ ~getDirty /\ stack # << >>
    /\ ui' = "committing"
    /\ Enter("ui")
    /\ UNCHANGED <<database, layer, script, undefined, ended>>

CommitRest ==
    /\ ui = "committing" /\ MayRun("ui")
    /\ stack' \in {stack, << >>}
    /\ ui' = "idle"
    /\ Awake("ui")
    /\ UNCHANGED <<savepointList, calls, at, script, history>>

\* Signals of the script are handled when nothing else is done, and by the
\* event loop of the box that says that the database is in use.
Listening ==
    \/ ui = "idle"
    \/ (Calling("ui", "exec") \/ ui = "committing") /\ DbUsed /\ ~waiting

---------------------------------------------------------------------------
(* The script. *)

Off == [pc |-> "off", was_dirty |-> FALSE, savepoint_created |-> FALSE,
        modified |-> FALSE, left |-> 0]

GoTo(pc) == script' = [script EXCEPT !.pc = pc]

Execute ==
    /\ ui = "idle" /\ script.pc = "off"
    /\ \E n \in 1..MaxStatements :
           script' = [Off EXCEPT !.pc = "next", !.was_dirty = getDirty,
                                 !.left = n]
    /\ UNCHANGED <<database, layer, ui, history>>

\* The script takes the database and prepares the next statement.
Prepare ==
    /\ script.pc = "next"
    /\ GoTo("prepared")
    /\ UNCHANGED <<database, layer, ui, history>>

\* Nothing but a comment is left of the text, or comes before the next ";".
Skip ==
    /\ script.pc = "prepared"
    /\ script' = IF script.left = 1 THEN Off
                 ELSE [script EXCEPT !.pc = "next", !.left = @ - 1]
    /\ UNCHANGED <<database, layer, ui, history>>

\* The savepoints of the script: the database is given back for them.
NeedsSavepoints ==
    /\ script.pc = "prepared" /\ ~script.savepoint_created
    /\ GoTo("setting")
    /\ Begin("script", <<Call("set", UNDOPOINT), Call("set", RESTOREPOINT)>>)
    /\ UNCHANGED <<database, ui, history>>

HasSavepoints ==
    /\ \/ script.pc = "prepared" /\ script.savepoint_created
       \/ script.pc = "setting" /\ Made("script")
    /\ script' = [script EXCEPT !.pc = "ready", !.savepoint_created = TRUE]
    /\ UNCHANGED <<database, layer, ui, history>>

\* A pragma or VACUUM: on a dirty database the user is asked, by a signal that
\* blocks the script with the database in its hands.
Pragma ==
    /\ script.pc = "prepared"
    /\ GoTo(IF getDirty THEN "asking" ELSE "pragma")
    /\ UNCHANGED <<database, layer, ui, history>>

Answer ==
    /\ script.pc = "asking" /\ Listening
    /\ \/ GoTo("commit") \/ script' = Off
    /\ UNCHANGED <<database, layer, ui, history>>

\* releaseAllSavepoints in the thread of the script.
CommitRound ==
    /\ script.pc = "commit" /\ Made("script") /\ getDirty
    /\ Begin("script", <<Call("release", Head(savepointList))>>)
    /\ UNCHANGED <<database, ui, script, history>>

CommitDone ==
    /\ script.pc = "commit" /\ Made("script") /\ ~getDirty
    /\ \/ stack = << >> /\ UNCHANGED <<stack, overlapped>>
       \/ stack # << >> /\ stack' \in {stack, << >>} /\ Enter("script")
    /\ script' = [script EXCEPT !.pc = "pragma", !.savepoint_created = FALSE]
    /\ UNCHANGED <<savepointList, layer, ui, undefined, ended>>

\* A statement that is done, ...
Statement ==
    /\ script.pc \in {"ready", "pragma"}
    /\ \E modified \in BOOLEAN :
           script' = [script EXCEPT !.pc = "paused",
                                    !.modified = @ \/ modified]
    /\ UNCHANGED <<database, layer, ui, history>>

\* ... that cannot be prepared or that fails, the last one then, ...
Fail ==
    /\ script.pc \in {"prepared", "ready", "pragma"}
    /\ script' = [script EXCEPT !.pc = "cleanup", !.left = 1]
    /\ UNCHANGED <<database, layer, ui, history>>

\* ... or that ends the transaction: COMMIT, ROLLBACK, or an error.
EndTransaction ==
    /\ script.pc = "ready"
    /\ stack' = << >>
    /\ ended' = TRUE
    /\ \/ script' = [script EXCEPT !.pc = "paused", !.modified = TRUE]
       \/ script' = [script EXCEPT !.pc = "cleanup", !.left = 1]
    /\ UNCHANGED <<savepointList, layer, ui, undefined, overlapped>>

StartNextStatement ==
    /\ script.pc = "paused" /\ Listening
    /\ GoTo("cleanup")
    /\ UNCHANGED <<database, layer, ui, history>>

\* Savepoints that turned out not to be needed are given back ...
Unneeded == ~script.modified /\ ~script.was_dirty /\ script.savepoint_created

Cleanup ==
    /\ script.pc = "cleanup" /\ Unneeded
    /\ script' = [script EXCEPT !.pc = "releasing"]
    /\ Begin("script", <<Call("release", RESTOREPOINT),
                         Call("release", UNDOPOINT)>>)
    /\ UNCHANGED <<database, ui, history>>

\* ... before the next statement, or the end.
NextStatement ==
    /\ \/ script.pc = "cleanup" /\ ~Unneeded
       \/ script.pc = "releasing" /\ Made("script")
    /\ script' = IF script.left = 1 THEN Off
                 ELSE [script EXCEPT !.pc = "next", !.left = @ - 1,
                           !.savepoint_created = @ /\ script.pc = "cleanup"]
    /\ UNCHANGED <<database, layer, ui, history>>

---------------------------------------------------------------------------

Init ==
    /\ savepointList = << >> /\ stack = << >>
    /\ calls = [t \in Threads |-> << >>]
    /\ at = [t \in Threads |-> "look"]
    /\ ui = "idle" /\ waiting = FALSE
    /\ script = Off
    /\ undefined = FALSE /\ ended = FALSE /\ overlapped = FALSE

\* What the thread of the user interface does by itself, and what the user
\* answers.
UiStep ==
    ~undefined /\ (CallStep("ui") \/ WaitForDb \/ EditDone \/ Round
                   \/ RoundsDone \/ RoundsToCommit \/ CommitRest \/ Answer
                   \/ StartNextStatement)

ScriptStep ==
    ~undefined /\ (CallStep("script") \/ Prepare \/ Skip
                   \/ NeedsSavepoints \/ HasSavepoints \/ Pragma \/ CommitRound \/ CommitDone
                   \/ Statement \/ Fail \/ EndTransaction \/ Cleanup
                   \/ NextStatement)

\* What the user begins.
UserStep ==
    ~undefined /\ (Edit \/ Undo \/ Execute
                   \/ \E what \in {"save", "revert"} : Start(what))

Next == UiStep \/ ScriptStep \/ UserStep

\* Neither thread stops for ever where it can go on, and the user answers.
Spec == Init /\ [][Next]_vars /\ WF_vars(UiStep) /\ WF_vars(ScriptStep)
---------------------------------------------------------------------------
(* Properties. *)

\* As long as no call of one thread, or the COMMIT of releaseAllSavepoints,
\* begins inside a call of the other, the interleaving of whole operations is harmless: the list is never erased
\* from before its beginning, the savepoint of the transaction is set once
\* ("Don't set more than one savepoint", executeNextStatement), and between
\* calls the list is SQLite's stack, until a statement ends the transaction.
ApartIsSafe ==
    ~overlapped =>
        /\ ~undefined
        /\ Cardinality({i \in DOMAIN savepointList :
                           savepointList[i] = RESTOREPOINT}) <= 1
        /\ ~ended /\ (\A t \in Threads : ~InCall(t)) => savepointList = stack

\* Each thread waits for the other: the box of the user interface was answered
\* before the script, which has the database, came to ask its question.
Deadlocked == waiting /\ script.pc = "asking"

\* Write Changes and Revert Changes end, whatever the list names and whatever
\* a script sets, releases and commits between two rounds of their loops,
\* unless the threads wait for each other or the behaviour is undefined.
LoopsEnd ==
    ui \in {"save", "revert"} ~> ui = "idle" \/ undefined \/ Deadlocked
===========================================================================
