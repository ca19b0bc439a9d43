---------------------------- MODULE AlterTable ----------------------------
(***************************************************************************)
(* The table editor (EditTableDialog) and DBBrowserDB::alterTable: a       *)
(* table is changed by a sequence of statements, each of which may fail,   *)
(* inside a savepoint of the function, which is inside the savepoint of    *)
(* the dialog.  After a failure the dialog stays open and the user may     *)
(* change what is wanted and try again.                                    *)
(*                                                                         *)
(* The content of the database is the tables that are there: "old" is the  *)
(* name the dialog was opened with, "new" another one in the same schema,  *)
(* "moved" the old one in another schema and "temp" the generated one.  A  *)
(* table has a layout, the set of the changes made to it, and has its rows *)
(* or not.  `schema` is what the program believes (schemata): the layouts  *)
(* at the last updateSchema, which alterTable disables for the statements  *)
(* it runs (NoStructureUpdateChecks).                                      *)
(*                                                                         *)
(* The list of savepoints is SQLite's stack (Savepoints!ListMirrorsStack), *)
(* so only the stack is kept here.  Not modelled: moving and renaming at   *)
(* once, and the indices, triggers and views of the table, which are put   *)
(* back or reported.                                                       *)
(***************************************************************************)
EXTENDS SQLiteTransactions

CONSTANTS
    Names,     \* the names the user may give the table
    Changes    \* the changes of the layout the user may make: "add" a column,
               \* give a "column" another name, "rest" needs a new table

ASSUME NamesAssumption == Names \subseteq {"old", "new", "moved"}
ASSUME ChangesAssumption == Changes \subseteq {"add", "column", "rest"}

VARIABLES
    conn,      \* the connection
    schema,    \* schemata: the layouts the program knows
    deferred,  \* PRAGMA defer_foreign_keys
    pc,        \* where the dialog and alterTable are
    want,      \* m_table and comboSchema when OK was pressed
    opened,    \* the connection when the dialog opened (for the properties)
    before     \* what alterTable was called with (for the properties)

vars == <<conn, schema, deferred, pc, want, opened, before>>
call == <<want, opened, before>>

EDIT == "edittable"
RENAME == "renamecolumn"
RESTOREPOINT == "RESTOREPOINT"

Wants == [name : Names, layout : SUBSET Changes]
Table(layout, rows) == [layout |-> layout, rows |-> rows]

\* updateSchema: the layouts of the tables that are there
Known(content) == [n \in DOMAIN content |-> content[n].layout]

Only(name, table) == [n \in {name} |-> table]

\* The content with one more table, without a table, and with that table
\* under another name
With(content, name, table) ==
    [n \in DOMAIN content \cup {name} |->
        IF n = name THEN table ELSE content[n]]
Without(content, name) == Restrict(content, DOMAIN content \ {name})
Renamed(content, from, to) == With(Without(content, from), to, content[from])

\* What the file holds when the dialog opens
Initial == Only("old", Table({}, TRUE))

Call == [conn |-> conn, schema |-> schema, deferred |-> deferred]

Init ==
    \E stack \in {<< >>, << [name |-> RESTOREPOINT, content |-> Initial] >>} :
        /\ conn = Connection(stack, Initial, Initial)
        /\ schema = Known(conn.content)
        /\ deferred = FALSE
        /\ pc = "closed"
        /\ want = [name |-> "old", layout |-> {}]
        /\ opened = conn
        /\ before = Call

---------------------------------------------------------------------------
\* The dialog

OpenDialog ==
    /\ pc = "closed"
    /\ opened' = conn
    /\ conn' = Savepoint(conn, EDIT)
    /\ pc' = "open"
    /\ UNCHANGED <<schema, deferred, want, before>>

\* alterTable looks the table and its columns up in the schema it knows.  A
\* column that was given another name is tracked by its old one; one that was
\* added has to be in the new table as well.
Finds(w, known) ==
    /\ "old" \in DOMAIN known
    /\ "column" \notin known["old"]
    /\ "add" \in known["old"] => "add" \in w.layout

\* "Check if any changes were made to the table schema": compares the names
\* and the layouts, not where the table is to go.
NoChange(w, known) == w.name # "new" /\ w.layout = known["old"]

Refuse(w) ==
    /\ ~Finds(w, schema)
    /\ pc' = "false"
    /\ UNCHANGED conn

NothingToDo(w) ==
    /\ Finds(w, schema) /\ NoChange(w, schema)
    /\ pc' = "true"
    /\ UNCHANGED conn

BeginAlter(w) ==
    /\ Finds(w, schema) /\ ~NoChange(w, schema)
    /\ conn' = Savepoint(conn, RENAME)
    /\ pc' = "rename"

Accept(w) ==
    /\ pc = "open"
    /\ want' = w
    /\ before' = Call
    /\ Refuse(w) \/ NothingToDo(w) \/ BeginAlter(w)
    /\ UNCHANGED <<schema, deferred, opened>>

\* The dialog closes when alterTable returned true; else it stays open.
Returned ==
    /\ pc \in {"true", "false"}
    /\ pc' = IF pc = "true" THEN "accepted" ELSE "open"
    /\ UNCHANGED <<conn, schema, deferred, call>>

\* Mutant: the dialog reverts with the updates of the schema disabled.
RejectDialog_NoUpdate ==
    /\ pc = "open"
    /\ conn' = RollbackAndRelease(conn, EDIT)
    /\ pc' = "rejected"
    /\ UNCHANGED <<schema, deferred, call>>

\* The updates of the schema are enabled here: the rollback is followed by one.
RejectDialog ==
    /\ pc = "open"
    /\ conn' = RollbackAndRelease(conn, EDIT)
    /\ schema' = Known(conn'.content)
    /\ pc' = "rejected"
    /\ UNCHANGED <<deferred, call>>

---------------------------------------------------------------------------
\* The statements of alterTable

\* executeSQL with dirtyDB sets RESTOREPOINT unless it is set
Dirtied ==
    IF Innermost(conn, RESTOREPOINT) = 0 THEN Savepoint(conn, RESTOREPOINT)
    ELSE conn

Succeed(content, next) ==
    /\ conn' = [Dirtied EXCEPT !.content = content]
    /\ pc' = next

\* Mutant: a statement that failed is taken back to RESTOREPOINT instead.
Fail_RestorePoint ==
    /\ conn' = RollbackAndRelease(Dirtied, RESTOREPOINT)
    /\ pc' = "false"

\* No update of the schema follows this rollback.
Fail ==
    /\ conn' = RollbackAndRelease(Dirtied, RENAME)
    /\ pc' = "false"

Statement(here, content, next) ==
    /\ pc = here
    /\ Succeed(content, next) \/ Fail

\* A part of the changes that may not be wanted
Skip(here, next) ==
    /\ pc = here
    /\ pc' = next
    /\ UNCHANGED conn

\* ObjectIdentifier(tablename.schema(), new_table.name())
Here == IF want.name = "new" THEN "new" ELSE "old"

WithChange(c) == [conn.content EXCEPT ![Here].layout = @ \cup {c}]

RenameTable ==
    /\ IF want.name = "new"
       THEN Statement("rename", Renamed(conn.content, "old", "new"), "add")
       ELSE Skip("rename", "add")
    /\ UNCHANGED <<schema, deferred, call>>

AddColumn ==
    /\ IF "add" \in want.layout
       THEN Statement("add", WithChange("add"), "column")
       ELSE Skip("add", "column")
    /\ UNCHANGED <<schema, deferred, call>>

RenameColumn ==
    /\ IF "column" \in want.layout
       THEN Statement("column", WithChange("column"), "update")
       ELSE Skip("column", "update")
    /\ UNCHANGED <<schema, deferred, call>>

\* The release is not of the outermost savepoint and so cannot fail.
Released ==
    /\ conn' = Release(conn, RENAME)
    /\ pc' = "true"

\* Is there still more work to be done?  changed_something is always true
\* here, as every table has a column.
UpdateSchema ==
    /\ pc = "update"
    /\ schema' = Known(conn.content)
    /\ IF want.name # "moved" /\ schema'[Here] = want.layout
       THEN Released
       ELSE Skip("update", "create")
    /\ UNCHANGED <<deferred, call>>

CreateTable ==
    /\ Statement("create",
            With(conn.content, "temp", Table(want.layout, FALSE)), "copy")
    /\ UNCHANGED <<schema, deferred, call>>

\* Mutant: the old table is dropped although the rows could not be copied.
CopyData_NoCheck ==
    /\ \/ Statement("copy", [conn.content EXCEPT
              !["temp"].rows = conn.content[Here].rows], "drop")
       \/ Skip("copy", "drop")
    /\ UNCHANGED <<schema, deferred, call>>

CopyData ==
    /\ Statement("copy", [conn.content EXCEPT
            !["temp"].rows = conn.content[Here].rows], "drop")
    /\ UNCHANGED <<schema, deferred, call>>

\* Mutant: the old table is left in place.
DropTable_Never ==
    /\ Skip("drop", "name")
    /\ deferred' = TRUE
    /\ UNCHANGED <<schema, call>>

\* Foreign keys are deferred first, which no rollback to a savepoint undoes.
DropTable ==
    /\ Statement("drop", Without(conn.content, Here), "name")
    /\ deferred' = TRUE
    /\ UNCHANGED <<schema, call>>

NameTable ==
    /\ Statement("name", Renamed(conn.content, "temp", want.name), "finish")
    /\ UNCHANGED <<schema, deferred, call>>

Finish ==
    /\ pc = "finish"
    /\ deferred' = before.deferred
    /\ Released
    /\ schema' = Known(conn.content)
    /\ UNCHANGED call

---------------------------------------------------------------------------
Next ==
    \/ OpenDialog
    \/ \E w \in Wants : Accept(w)
    \/ Returned \/ RejectDialog
    \/ RenameTable \/ AddColumn \/ RenameColumn \/ UpdateSchema
    \/ CreateTable \/ CopyData \/ DropTable \/ NameTable \/ Finish

Spec == Init /\ [][Next]_vars

---------------------------------------------------------------------------
\* The types: what is there has a name and a layout, there is at most one
\* table and its copy, and at most the three savepoints.
TypeOK ==
    /\ DOMAIN conn.content \in {{n} : n \in {"old", "new", "moved", "temp"}}
           \cup {{n, "temp"} : n \in {"old", "new"}}
    /\ DOMAIN schema \subseteq {"old", "new", "moved"}
    /\ \A n \in DOMAIN conn.content :
           conn.content[n] \in [layout : SUBSET Changes, rows : BOOLEAN]
    /\ \A n \in DOMAIN schema : schema[n] \in SUBSET Changes
    /\ deferred \in BOOLEAN
    /\ want \in [name : Names \cup {"old"}, layout : SUBSET Changes]
    /\ Len(conn.stack) <= 3

\* An alterTable that returns false has changed nothing, in the database or on
\* the stack of savepoints, whichever statement failed: also not the
\* RESTOREPOINT that its own statements have set inside its savepoint.
FailureRestores == pc = "false" => conn = before.conn

\* The two cases in which the comparison with the known schema misleads: only
\* the place of the table is to be changed, or a failed attempt has left a
\* schema behind that already has the change.
Misled ==
    /\ Finds(want, before.schema) /\ NoChange(want, before.schema)
    /\ want.name = "moved" \/ before.schema # Known(before.conn.content)

\* An alterTable that returns true, not misled, has done everything: the one
\* table has the name, the layout and the rows, no savepoint of its own is
\* left, the schema is the new one and foreign keys are checked as before.
SuccessIsWhole ==
    pc = "true" /\ ~Misled =>
        /\ conn.content = Only(want.name, Table(want.layout, TRUE))
        /\ conn.stack = before.conn.stack
        /\ schema = Known(conn.content)
        /\ deferred = before.deferred

\* Cancelling the dialog takes everything back to when it was opened, however
\* many attempts failed, and the schema is that of the database again.
RejectRestores ==
    pc = "rejected" => conn = opened /\ schema = Known(conn.content)

===========================================================================
