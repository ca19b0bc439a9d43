---------------------------- MODULE Savepoints ----------------------------
(***************************************************************************)
(* Unsaved changes in DB Browser: the list of savepoints DBBrowserDB keeps *)
(* beside SQLite's own stack, and the operations of the window, the        *)
(* dialogs and the SQL editor that push on it, release it and revert to    *)
(* it.  The user interface runs in one thread; a script of the SQL editor  *)
(* (RunSql) runs in another, one statement at a time.  Here the user waits *)
(* for the script; SavepointThreads lets the two threads interleave.       *)
(***************************************************************************)
EXTENDS Integers, FiniteSets, Sequences, SequencesExt, Functions,
        SQLiteTransactions

CONSTANTS Dialogs,         \* the savepoint names the dialogs generate
          MaxWrites,       \* bound: successful writes
          MaxDepth,        \* bound: length of the list of savepoints and of
                           \* SQLite's stack
          MaxStatements    \* bound: statements of one script

RESTOREPOINT == "RESTOREPOINT"
UNDOPOINT == "UNDOPOINT"
NoDialog == "none"

ASSUME SavepointsAssumption ==
    /\ {RESTOREPOINT, UNDOPOINT, NoDialog} \cap Dialogs = {}
    /\ MaxWrites \in Nat
    /\ MaxDepth \in Nat
    /\ MaxStatements \in Nat

VARIABLES savepointList,  \* the names of the savepoints, oldest first
          conn,           \* SQLite's connection
          written,        \* the number of writes so far
          ui,             \* what the user interface is in the middle of
          dialog,         \* the savepoint of the open dialog
          opened,         \* the content when that dialog was opened
          script,         \* the running script
          saved,          \* the content the user last asked to have saved
          unclassed,      \* the writes of statements that a script does not
                          \* count as modifications
          ended           \* did a statement of a script end a transaction?

vars == <<savepointList, conn, written, ui, dialog, opened, script, saved,
          unclassed, ended>>

\* What the program does not keep.
history == <<saved, unclassed, ended>>

Names == Dialogs \cup {RESTOREPOINT, UNDOPOINT}
Writes == 1..MaxWrites

getDirty == savepointList # << >>

---------------------------------------------------------------------------
(* The savepoint layer of DBBrowserDB, on a pair of a list and a           *)
(* connection.                                                             *)

Db(list, c) == [list |-> list, conn |-> c]

db == Db(savepointList, conn)

\* setSavepoint: a unique one is set once.
SetSavepoint(d, name) ==
    IF name \in Range(d.list) THEN d
    ELSE Db(Append(d.list, name), Savepoint(d.conn, name))

SetUndoSavepoint(d) ==
    Db(Append(d.list, UNDOPOINT), Savepoint(d.conn, UNDOPOINT))

\* Mutant: the search goes from the front of the list.
Forget_Oldest(list, name) ==
    SubSeq(list, 1, SelectInSeq(list, LAMBDA n : n = name) - 1)

\* The list without the most recent entry of that name and those after it.
Forget(list, name) ==
    SubSeq(list, 1, SelectLastInSeq(list, LAMBDA n : n = name) - 1)

\* releaseSavepoint: when it returns false
ReleaseSavepointFails(d, name, refused) ==
    name \in Range(d.list) /\ ReleaseFails(d.conn, name, refused)

\* Mutant: the entries are erased although RELEASE failed.
ReleaseSavepoint_Unchecked(d, name, refused) ==
    IF name \notin Range(d.list) THEN d
    ELSE Db(Forget(d.list, name),
            IF ReleaseFails(d.conn, name, refused) THEN d.conn
            ELSE Release(d.conn, name))

\* releaseSavepoint: a name that is not on the list was released before, and
\* a RELEASE that fails leaves everything as it is.
ReleaseSavepoint(d, name, refused) ==
    IF name \notin Range(d.list) \/ ReleaseFails(d.conn, name, refused) THEN d
    ELSE Db(Forget(d.list, name), Release(d.conn, name))

\* revertToSavepoint: the results of the two statements are not looked at.
RevertToSavepoint(d, name) ==
    IF name \notin Range(d.list) THEN d
    ELSE Db(Forget(d.list, name), RollbackAndRelease(d.conn, name))

\* The new list and stack are those of d, within the bound.
Become(d) ==
    /\ Len(d.list) <= MaxDepth /\ Len(d.conn.stack) <= MaxDepth
    /\ savepointList' = d.list
    /\ conn' = d.conn

\* Statements that write: the next write, applied to d.
CanWrite == written < MaxWrites
WriteTo(d) ==
    /\ Become(Db(d.list, Write(d.conn, written + 1)))
    /\ written' = written + 1

---------------------------------------------------------------------------
(* The user interface. *)

ScriptOff == script.pc = "off"

UiFree == ui = "idle" /\ ScriptOff

\* Editing a cell sets an undo point first; then nothing happens if the value
\* is the old one, or the UPDATE is run in a savepoint and may fail.
EditCell ==
    /\ UiFree
    /\ LET undo == SetUndoSavepoint(db)
           both == SetSavepoint(undo, RESTOREPOINT)
       IN  \/ Become(undo) /\ UNCHANGED written
           \/ Become(both) /\ UNCHANGED written
           \/ CanWrite /\ WriteTo(both)
    /\ UNCHANGED <<ui, dialog, opened, script, history>>

\* Adding or deleting records, and whatever else is run through executeSQL
\* with its `dirtyDB` set.
ExecuteDirty ==
    /\ UiFree
    /\ LET d == SetSavepoint(db, RESTOREPOINT)
       IN  \/ Become(d) /\ UNCHANGED written
           \/ CanWrite /\ WriteTo(d)
    /\ UNCHANGED <<ui, dialog, opened, script, history>>

\* A dialog that edits a table or an index, or a CSV import, opens with a
\* savepoint of its own, ...
OpenDialog ==
    /\ UiFree
    /\ \E name \in Dialogs \ Range(savepointList) :
           /\ Become(SetSavepoint(db, name))
           /\ dialog' = name
    /\ ui' = "dialog"
    /\ opened' = conn.content
    /\ UNCHANGED <<written, script, history>>

\* ... writes, where a statement may fail, ...
DialogWrite ==
    /\ ui = "dialog"
    /\ LET d == SetSavepoint(db, RESTOREPOINT)
       IN  \/ Become(d) /\ UNCHANGED written
           \/ CanWrite /\ WriteTo(d)
    /\ UNCHANGED <<ui, dialog, opened, script, history>>

CloseDialog ==
    /\ ui' = "idle"
    /\ dialog' = NoDialog
    /\ opened' = {}
    /\ UNCHANGED <<written, script, history>>

\* ... and is accepted, which keeps the savepoint, or rejected.
AcceptDialog ==
    /\ ui = "dialog"
    /\ CloseDialog
    /\ UNCHANGED <<savepointList, conn>>

\* Mutant: the savepoint of the transaction instead of the dialog's own.
RejectDialog_RestorePoint ==
    /\ ui = "dialog"
    /\ CloseDialog
    /\ Become(RevertToSavepoint(db, RESTOREPOINT))

RejectDialog ==
    /\ ui = "dialog"
    /\ CloseDialog
    /\ Become(RevertToSavepoint(db, dialog))

Undo ==
    /\ UiFree /\ getDirty
    /\ Become(RevertToSavepoint(db, UNDOPOINT))
    /\ UNCHANGED <<written, ui, dialog, opened, script, history>>

\* Setting a pragma, after the user agreed to a commit.  PRAGMA itself is
\* not part of the content.
SetPragma(refused) ==
    /\ UiFree
    /\ Become(ReleaseSavepoint(db, RESTOREPOINT, refused))
    /\ saved' = conn.content
    /\ UNCHANGED <<written, ui, dialog, opened, script, unclassed, ended>>

\* Write Changes, Revert Changes, and closing the file, for which a running
\* script is stopped and, if there are changes, the user asked for either.
Start(what) ==
    /\ UiFree
    /\ getDirty <=> what # "close"
    /\ ui' = what
    /\ saved' = IF what \in {"save", "close_save"} THEN conn.content ELSE saved
    /\ UNCHANGED <<savepointList, conn, written, dialog, opened, script,
                   unclassed, ended>>

After(what) == CASE what \in {"save", "revert"} -> "idle"
                 [] what = "close_save" -> "close_saved"
                 [] what = "close_discard" -> "close"

Releasing == ui \in {"save", "close_save"}
Reverting == ui \in {"revert", "close_discard"}

\* One round of the loop in releaseAllSavepoints: release the oldest entry,
\* give up at the first that fails.
ReleaseFront(refused) ==
    /\ Releasing /\ getDirty
    /\ LET name == Head(savepointList)
       IN  /\ Become(ReleaseSavepoint(db, name, refused))
           /\ ui' = IF ReleaseSavepointFails(db, name, refused)
                    THEN After(ui) ELSE ui
    /\ UNCHANGED <<written, dialog, opened, script, history>>

\* After the loop a transaction that is still open is committed; the result
\* of that COMMIT is not looked at.
ReleaseDone(refused) ==
    /\ Releasing /\ ~getDirty
    /\ conn' = IF conn.stack = << >> \/ refused THEN conn ELSE Commit(conn)
    /\ ui' = After(ui)
    /\ UNCHANGED <<savepointList, written, dialog, opened, script, history>>

\* One round of the loop in revertAll.
RevertFront ==
    /\ Reverting /\ getDirty
    /\ Become(RevertToSavepoint(db, Head(savepointList)))
    /\ UNCHANGED <<written, ui, dialog, opened, script, history>>

RevertDone ==
    /\ Reverting /\ ~getDirty
    /\ ui' = After(ui)
    /\ UNCHANGED <<savepointList, conn, written, dialog, opened, script, history>>

\* The connection is closed whatever releaseAllSavepoints returned; the file
\* is opened again later.
Close ==
    /\ ui \in {"close_saved", "close"}
    /\ savepointList' = << >>
    /\ conn' = Rollback(conn)
    /\ ui' = "idle"
    /\ UNCHANGED <<written, dialog, opened, script, history>>

---------------------------------------------------------------------------
(* A script of the SQL editor. *)

Script(pc, was_dirty, savepoint_created, modified, left) ==
    [pc |-> pc, was_dirty |-> was_dirty,
     savepoint_created |-> savepoint_created, modified |-> modified,
     left |-> left]

Off == Script("off", FALSE, FALSE, FALSE, 0)

\* The script at another point, with these values of the two flags.
GoTo(pc, savepoint_created, modified) ==
    script' = Script(pc, script.was_dirty, savepoint_created, modified,
                     script.left)

Execute ==
    /\ ui = "idle" /\ ScriptOff
    /\ \E n \in 1..MaxStatements :
           script' = Script("next", getDirty, FALSE, FALSE, n)
    /\ UNCHANGED <<savepointList, conn, written, ui, dialog, opened, history>>

\* Before a statement: an undo point and the savepoint of the transaction,
\* once for the script unless they were given back.
Prepare ==
    /\ script.pc = "next"
    /\ IF script.savepoint_created
       THEN UNCHANGED <<savepointList, conn>>
       ELSE
            /\ Become(SetSavepoint(SetUndoSavepoint(db), RESTOREPOINT))
    /\ GoTo("ready", TRUE, script.modified)
    /\ UNCHANGED <<written, ui, dialog, opened, history>>

\* A pragma or VACUUM on a clean database is run without a savepoint.  On a
\* dirty one the user is asked: the script is aborted, or everything is
\* released first.
PragmaClean ==
    /\ script.pc = "next" /\ ~getDirty
    /\ GoTo("pragma", script.savepoint_created, script.modified)
    /\ UNCHANGED <<savepointList, conn, written, ui, dialog, opened, history>>

PragmaAborted ==
    /\ script.pc = "next" /\ getDirty
    /\ script' = Off
    /\ UNCHANGED <<savepointList, conn, written, ui, dialog, opened, history>>

PragmaConfirmed ==
    /\ script.pc = "next" /\ getDirty
    /\ GoTo("commit", script.savepoint_created, script.modified)
    /\ saved' = conn.content
    /\ UNCHANGED <<savepointList, conn, written, ui, dialog, opened,
                   unclassed, ended>>

\* releaseAllSavepoints again; a script does not look at its result.
CommitFront(refused) ==
    /\ script.pc = "commit" /\ getDirty
    /\ LET name == Head(savepointList)
       IN  /\ Become(ReleaseSavepoint(db, name, refused))
           /\ IF ReleaseSavepointFails(db, name, refused)
              THEN GoTo("pragma", FALSE, script.modified)
              ELSE UNCHANGED script
    /\ UNCHANGED <<written, ui, dialog, opened, history>>

CommitDone(refused) ==
    /\ script.pc = "commit" /\ ~getDirty
    /\ conn' = IF conn.stack = << >> \/ refused THEN conn ELSE Commit(conn)
    /\ GoTo("pragma", FALSE, script.modified)
    /\ UNCHANGED <<savepointList, written, ui, dialog, opened, history>>

\* Only VACUUM counts as a modification: PRAGMA is treated like SELECT.
RunPragma ==
    /\ script.pc = "pragma"
    /\ \/ \E vacuum \in BOOLEAN :
              GoTo("paused", script.savepoint_created,
                   script.modified \/ vacuum)
       \/ GoTo("failed", script.savepoint_created, script.modified)
    /\ UNCHANGED <<savepointList, conn, written, ui, dialog, opened, history>>

\* A statement that returns rows, or changes nothing in this database.
Read ==
    /\ script.pc = "ready"
    /\ GoTo("paused", script.savepoint_created, script.modified)
    /\ UNCHANGED <<savepointList, conn, written, ui, dialog, opened, history>>

\* A statement with columns is not stepped by the script: the window runs it
\* to show its rows.  Where that writes (a SELECT of a function with side
\* effects, REPLACE or WITH with RETURNING), `modified` is not set.
UnclassedWrite ==
    /\ script.pc = "ready" /\ CanWrite
    /\ WriteTo(db)
    /\ unclassed' = unclassed \cup {written + 1}
    /\ GoTo("paused", script.savepoint_created, script.modified)
    /\ UNCHANGED <<ui, dialog, opened, saved, ended>>

ScriptWrite ==
    /\ script.pc = "ready" /\ CanWrite
    /\ WriteTo(db)
    /\ GoTo("paused", script.savepoint_created, TRUE)
    /\ UNCHANGED <<ui, dialog, opened, history>>

\* A statement that cannot be prepared or that fails ends the script, after
\* the cleanup.
Fail ==
    /\ script.pc \in {"next", "ready"}
    /\ GoTo("failed", script.savepoint_created, script.modified)
    /\ UNCHANGED <<savepointList, conn, written, ui, dialog, opened, history>>

\* COMMIT and ROLLBACK of the user's own, and an error that makes SQLite undo
\* the transaction (an interrupted write, a full disk).
EndTransaction ==
    /\ script.pc = "ready"
    /\ \/ conn' = Commit(conn) /\ GoTo("paused", script.savepoint_created, TRUE)
       \/ conn' = Rollback(conn) /\ GoTo("paused", script.savepoint_created, TRUE)
       \/ conn' = Rollback(conn)
          /\ GoTo("failed", script.savepoint_created, script.modified)
    /\ ended' = TRUE
    /\ UNCHANGED <<savepointList, written, ui, dialog, opened, saved, unclassed>>

\* The window has shown the result and starts the next statement.
StartNextStatement ==
    /\ script.pc = "paused"
    /\ GoTo("cleanup", script.savepoint_created, script.modified)
    /\ UNCHANGED <<savepointList, conn, written, ui, dialog, opened, history>>

\* Mutant: without the look at `modified`.
Unneeded_Modified == ~script.was_dirty /\ script.savepoint_created

Unneeded == ~script.modified /\ ~script.was_dirty /\ script.savepoint_created

\* Mutant: the undo point is not given back.
Cleanup_KeepUndo(refused) ==
    /\ script.pc \in {"cleanup", "failed"}
    /\ Become(IF Unneeded THEN ReleaseSavepoint(db, RESTOREPOINT, refused)
              ELSE db)
    /\ script' = IF script.pc = "failed" \/ script.left = 1 THEN Off
                 ELSE Script("next", script.was_dirty,
                             script.savepoint_created /\ ~Unneeded,
                             script.modified, script.left - 1)
    /\ UNCHANGED <<written, ui, dialog, opened, history>>

\* Mutant: a script is not stopped at its end.
Cleanup_PastEnd(refused) ==
    /\ script.pc \in {"cleanup", "failed"}
    /\ Become(db)
    /\ script' = Script("next", script.was_dirty, script.savepoint_created,
                        script.modified, script.left - 1)
    /\ UNCHANGED <<written, ui, dialog, opened, history>>

\* Savepoints that turned out not to be needed are given back; then comes the
\* next statement, or the end.
Cleanup(refused) ==
    /\ script.pc \in {"cleanup", "failed"}
    /\ Become(IF Unneeded
              THEN ReleaseSavepoint(
                       ReleaseSavepoint(db, RESTOREPOINT, refused),
                       UNDOPOINT, refused)
              ELSE db)
    /\ script' = IF script.pc = "failed" \/ script.left = 1 THEN Off
                 ELSE Script("next", script.was_dirty,
                             script.savepoint_created /\ ~Unneeded,
                             script.modified, script.left - 1)
    /\ UNCHANGED <<written, ui, dialog, opened, history>>

---------------------------------------------------------------------------

Init ==
    /\ savepointList = << >>
    /\ conn = Connection(<< >>, {}, {})
    /\ written = 0
    /\ ui = "idle"
    /\ dialog = NoDialog
    /\ opened = {}
    /\ script = Off
    /\ saved = {}
    /\ unclassed = {}
    /\ ended = FALSE

UiNext ==
    \/ EditCell \/ ExecuteDirty
    \/ OpenDialog \/ DialogWrite \/ AcceptDialog \/ RejectDialog
    \/ Undo
    \/ \E what \in {"save", "revert", "close_save", "close_discard", "close"} :
           Start(what)
    \/ \E refused \in BOOLEAN :
           SetPragma(refused) \/ ReleaseFront(refused) \/ ReleaseDone(refused)
    \/ RevertFront \/ RevertDone \/ Close

ScriptNext ==
    \/ Execute
    \/ Prepare \/ PragmaClean \/ PragmaAborted \/ PragmaConfirmed
    \/ RunPragma \/ Read \/ UnclassedWrite \/ ScriptWrite \/ Fail
    \/ EndTransaction \/ StartNextStatement
    \/ \E refused \in BOOLEAN :
           CommitFront(refused) \/ CommitDone(refused) \/ Cleanup(refused)

Next == UiNext \/ ScriptNext

Spec == Init /\ [][Next]_vars
---------------------------------------------------------------------------
(* Properties. *)

UiStates == {"idle", "dialog", "save", "revert", "close_save",
             "close_saved", "close_discard", "close"}
ScriptStates == {"off", "next", "ready", "commit", "pragma", "paused",
                 "cleanup", "failed"}

\* The types of the variables.
TypeOK ==
    /\ savepointList \in Seq(Names)
    /\ conn \in [stack : Seq([name : Names, content : SUBSET Writes]),
                content : SUBSET Writes, disk : SUBSET Writes]
    /\ written \in 0..MaxWrites
    /\ ui \in UiStates
    /\ dialog \in Dialogs \cup {NoDialog}
    /\ opened \in SUBSET Writes
    /\ script \in [pc : ScriptStates, was_dirty : BOOLEAN,
                  savepoint_created : BOOLEAN, modified : BOOLEAN,
                  left : 0..MaxStatements]
    /\ saved \in SUBSET Writes
    /\ unclassed \in SUBSET Writes
    /\ ended \in BOOLEAN

\* The other properties are about the time until a statement of the user's own
\* ends a transaction: COMMIT and ROLLBACK in a script are not known to
\* DBBrowserDB, whose list then names savepoints that SQLite has not.

\* savepointList is SQLite's stack: the comments in releaseSavepoint and
\* revertToSavepoint give this as the reason for what they erase.
ListMirrorsStack ==
    ~ended =>
        /\ Len(savepointList) = Len(conn.stack)
        /\ \A i \in 1..Len(conn.stack) : savepointList[i] = conn.stack[i].name

\* A database shown as clean has nothing unsaved to lose: close() asks only
\* when getDirty(), and then closes the connection.
CleanMeansSaved == ~ended /\ ~getDirty => conn.content = conn.disk

\* The file holds what the user asked to have saved, and no more than that
\* but for the side effects RunSql saves at once: no edit and no statement
\* that is known to write is committed by itself, whatever mix of savepoints
\* is open at that time; and when a save has emptied the list, nothing of what
\* was there when the user asked for it is missing from the file.
FileHoldsOnlySaved ==
    ~ended =>
        /\ conn.disk \ saved \subseteq unclassed
        /\ (Releasing \/ script.pc = "commit") /\ ~getDirty
               => conn.disk = saved

\* Rejecting a dialog, or a failing import, restores what was there when it
\* was opened, whatever the dialog has written through other savepoints.
RejectRestoresOpened ==
    [][~ended /\ RejectDialog => conn'.content = opened]_vars

\* A script without a statement known to write, on a clean database, leaves
\* it clean, also if it ends with an error: the savepoints set for it are all
\* given back, unless a side effect of it is still unsaved.
ReadingLeavesClean ==
    [][~ended /\ script.pc # "off" /\ script'.pc = "off"
           /\ ~script.was_dirty /\ ~script.modified
           /\ conn'.content = conn'.disk
       => savepointList' = << >>]_vars

\* Answering Save when closing keeps the changes: close() asks "Do you want
\* to save the changes made to the database file".
SavingCloseKeeps ==
    [][~ended /\ Close /\ ui = "close_saved"
       => conn'.content = conn.content]_vars
===========================================================================
