# Verification of DB Browser for SQLite

TLA+ models of the parts of DB Browser for SQLite whose correctness depends on
the order of events: the row cache and the loader behind every table view,
editing a table through that view, the savepoints behind Write Changes, Revert
Changes, Undo, dialogs and SQL scripts, the sharing of the connection between
threads, the window that shows a script's results, changing a table's
definition, and the CSV parser.  TLC checks the models on small instances;
TLAPS proves the theorems of the modules named `...Proofs` for every value of
the constants.  Paths are relative to the repository; the program's own code is
in `src/` (written `src/src/` in PROJECT.json, whose map gives the lines of
every definition).

## 1. The system

The program is one Qt process with one SQLite connection (`DBBrowserDB::_db`).
The user interface runs in the main thread.  Every table view has a
`SqliteTableModel` with a `RowLoader` thread that reads rows in the background;
a loader starts counter threads; a script of the SQL editor runs in a `RunSql`
thread.  They share the connection through `DBBrowserDB::get`, one at a time,
and talk to the main thread by queued signals.

| component | state | operations | interacts with |
|---|---|---|---|
| `RowCache` | segments of contiguous rows | set, insert, erase, clear, look-ups, the smallest range not loaded | table model, loader (under a mutex) |
| `RowLoader` | query, current and next task, number of tasks, database handle, future of the counter, a mutex | setQuery, triggerFetch, cancel, waitUntilIdle, the worker's loop, row counting | table model (signals with the model's "life"), `DBBrowserDB::get`, `sqlite3_interrupt` |
| `SqliteTableModel` | life, row counts, cache | setQuery, clearCache, triggerCacheLoad, completeCache, edits, sort | loader, views, `DBBrowserDB` |
| `DBBrowserDB` | connection, list of savepoints, user of the handle, known schema | savepoints, save, revert, close, edits, alterTable, executeMultiSQL, pragmas, get | everything |
| `RunSql` | position in the script, `savepoint_created`, `was_dirty`, `modified`, a mutex | one statement after the other, stop, hand-over of results | `DBBrowserDB`, main window (blocking and queued signals) |
| `MainWindow` | actions enabled by "dirty", the running script | save, revert, undo, close, pragmas, execute, stop | all of the above |
| `TableBrowser` | selection, sort order | delete the selected rows, sort, refresh | table model |
| `EditTableDialog`, `EditIndexDialog`, `ImportCsvDialog` | the name of their savepoint | open, write, accept, reject or roll back | savepoints, `alterTable` |
| `CSVParser` | parser state, buffer, record | parse, look_ahead | import dialog |
| `sqlb::Query`, `sqlitetypes`, parser | representation of tables and queries | building of SQL text | table model, dialogs |
| the other dialogs, editors, plot, settings, network | user interface | | |

What is hard about them, and what makes them correct:

* **Row cache.** `insert` and `erase` move all later segments, so a wrong bound
  shows only calls later.  Correct: it behaves as a vector of optional rows,
  its counts are exact, and the range it asks to load is neither too small nor
  padded with loaded rows.
* **Row loader.** Three kinds of threads, a task that may be replaced while
  another is being cancelled, an interrupt that may arrive at any point,
  results that arrive after the query has changed.  Correct: the cache holds
  rows of the present query, the count shown as final is its count, the handle
  is held exactly while it is used, and loading ends.
* **Edits in a table view.** The view addresses rows by position, the database
  by rowid, and nothing is fetched again after an edit.  Correct: positions keep
  their meaning, so that the view shows the table and deletes what was selected.
* **Savepoints.** The program keeps a list beside SQLite's own stack.  Names are
  not unique, RELEASE of the outermost is a commit that may be refused, a script
  decides afterwards whether its savepoints were needed.  Correct: the list is
  the stack, "clean" means nothing can be lost, nothing is saved unasked,
  rejecting a dialog restores what was there.
* **Sharing the handle.** A wait and an assignment without the lock between
  them, a single notification for several waiters of which some never pass it
  on.  Correct: nobody shares the handle, the mark is not left behind, nobody
  sleeps unnoticed; each but for the exceptions the models name.
* **Scripts and the window.** Results travel by queued signals and are loaded by
  another thread; stop comes at any moment; one signal blocks the script.
  Correct: results are shown in turn, a stop is final, scripts end.
* **alterTable.** Up to seven statements, each of which may fail, inside two
  savepoints, and a schema that is updated on the way.  Correct: all or nothing.
* **CSV parser.** Blocks cut line ends, separators and quotes in two.  Correct:
  the rows do not depend on the blocks.

PROJECT.json lists each of these hazards at its line.

## 2. Modules

| module | models |
|---|---|
| `SparseVector` | the abstract promise of the cache: a partial function from positions to rows |
| `RowCache` | `RowCache.h`; each operation is an action on `segments`, one disjunct per branch of the code |
| `MCRowCache` | the bound on the cache for TLC |
| `RowCacheProofs` | the cache stays well formed, implements `SparseVector`, and answers exactly what is loaded |
| `SQLiteTransactions` | external: one SQLite connection with its stack of savepoints, as operators on records |
| `Savepoints` | the savepoint layer of `sqlitedb.cpp`, its users in the window and the dialogs, and a script of `RunSql` |
| `SavepointsProofs` | the list mirrors the stack and the file holds nothing that was not saved; a rejected dialog restores; a reading script leaves nothing to save |
| `SavepointThreads` | the same layer call by call, in the window's thread and the script's at once |
| `RowLoader`, `MCRowLoader` | `RowLoader.cpp` and the loading half of `sqlitetablemodel.cpp`; the sizes of the queries |
| `RowLoaderProofs` | tasks are counted, the cache is of the present query, a final count is right, `completeCache` loads all rows |
| `TableEdits` | the editing half of `sqlitetablemodel.cpp` and `TableBrowser::deleteRecord`, with the cache as a `SparseVector` |
| `TableEditsProofs` | the view shows the table, a deletion deletes the selection |
| `DbAccess`, `DbAccessProofs` | `get`, `waitForDbRelease` and the releaser |
| `ScriptWindow`, `ScriptWindowProofs` | `RunSql`'s thread and `MainWindow::executeQuery` with its handlers |
| `AlterTable`, `AlterTableProofs` | `EditTableDialog` and `DBBrowserDB::alterTable` |
| `CsvParser`, `MCCsvParser` | `csvparser.cpp`; the files of some small tables |
| `CsvWriter` | what a file is: a text written character by character from the rows of a table |
| `CsvParserProofs` | the parser hands over the rows that were written |

How they fit together: `RowCache` implements `SparseVector`, and `TableEdits`
uses `SparseVector`'s actions for what the model does with the cache;
`RowLoader` keeps the set of loaded rows only.  `Savepoints` and `AlterTable`
use the same external connection; `AlterTable` keeps only SQLite's stack, which
`ListMirrorsStack` allows.  `Savepoints` takes a call of the layer as one step and
lets the user wait for scripts; `SavepointThreads` does neither, and `ApartIsSafe`
says when the first is justified.  `ScriptWindow` abstracts the loader to "loads,
then sends the count or fails to" (how a load ends is `InitialLoadEnds` of
`RowLoader`), and waiting for the database to "happens when it is free",
which is what `DbAccess` is about.

Operators whose name has a suffix after an underscore, each with the comment
"Mutant", are wrong variants of the definition that follows them.  No
specification uses them: they show that the properties can fail.

### RowCache

`segments` is the member of that name, with positions counted as in the code and
indices from 1.  `GetSegmentBeyond` is `std::upper_bound`; an iterator is an
index, `end()` the index past the last segment, and 0 stands for "not found" in
`GetSegmentContaining`.  `SparseVector` is shown to be implemented by mapping
`vec` to the function from loaded positions to their rows.  Rows are model
values.  The unsigned width of positions is not modelled: `erase` subtracts one
from a first position that is above the erased one, so never from zero.

### Savepoints

`savepointList` is the member; `conn` is SQLite's side (`stack`, `content` seen
by the connection, `disk` what the file holds).  Content is the set of the
writes applied, so that states before and after can be compared; a write adds a
fresh number.  `saved` is a history variable: the content at the last moment the
user asked to have saved it (Write Changes, Save on close, a pragma); it is set
when the user asks, before anything is released.  `unclassed` are the writes of
statements that a script does not count as modifications, `ended` says that a
statement has ended a transaction; both are history too.
`opened` is the content when the open dialog was opened.  `ui` says in the
middle of which loop the user interface is, since `releaseAllSavepoints` and
`revertAll` change the list round by round.  `refused` is SQLite refusing the
COMMIT: a lock of another process or a violated deferred foreign key.

A script (`script`) is modelled statement by statement with the three flags of
`RunSql`.  A statement reads, writes, is a pragma or VACUUM, fails, or ends the
transaction (COMMIT, ROLLBACK, an error after which SQLite rolls back).
`UnclassedWrite` is a statement with columns that writes: a SELECT of a function
with side effects, REPLACE or WITH with RETURNING.  The script does not step it;
the window runs it to show its rows, and `modified` stays false, so that on a
clean database the cleanup saves its effect at once (RunSql.cpp:283-288).
Between "paused" and "cleanup" the script waits for the window, and here the
user waits for the script.  Stopping a script is a script of fewer statements.

The properties hold until a statement ends a transaction (`ended`): DBBrowserDB
does not know of that, and its list then names savepoints that SQLite has not.

Abstracted: read-only databases (nothing is set there), the text of the
statements, what the dialogs edit, the second connection in memory, that the
window runs a statement with columns again for every chunk of rows and for their
count.  Each operation of `DBBrowserDB` on the list is one step.

### SavepointThreads

A call of `setSavepoint`, `releaseSavepoint` or `revertToSavepoint` has three
steps: the look at `savepointList` (`LookAndReturn`, `LookAndGoOn`), `executeSQL`
(`ExecSet`, `ExecRelease`, `ExecRevert`), and the change of the list (`Update`).
`calls` holds the calls that each thread is about to make, `at` how far it is in
the first.  Between look and change nothing is locked, and in the thread of the
user interface `executeSQL` waits while the script has the database (`DbUsed`):
first in the message box, whose event loop still handles the script's signals
(`Listening`), then, once that is answered, asleep (`waiting`).  The script gives
the database back before it sets, releases or commits anything.

The user edits, undoes, saves and reverts while a script of up to
`MaxStatements` statements, comments, pragmas and ends of transactions runs.
`GiveUp` is what a call that returns false does: it ends the loops of
`releaseAllSavepoints` and `revertAll` and is ignored by everything else.  The
COMMIT at the end of `releaseAllSavepoints` is a step of its own after the look
at the transaction.  `Update` sets `undefined` where the entry to erase is gone:
`std::find` returns `rend()` then, and the list would be erased from before its
beginning; nothing is said of what the program does after that.

Abstracted: content (a COMMIT of the outermost savepoint may be refused whether
or not there are changes), dialogs, closing, `setPragma` and loaders, which wait
in the same way.  One step reads or writes the whole list: what two threads do
to the memory of the `std::vector` at the same instant is undefined and left
out, and a reference to its first entry is a copy of the name.

### RowLoader

The variables named like members are those members; a query is named by the life
it is set in, and `Rows[q]` is its size.  `m` is held over several steps only
where the code does so while it waits (`triggerFetch` waiting for the database,
the worker waiting in the assignment of a future); all other critical sections
are single actions.  A new query is one of `updateAndRunQuery` (a sort, a filter,
another row id).  `setQuery` waits for more before its first load: the one for a
table clears the cache twice, the one for a text asks `DBBrowserDB::get` for the
names of the columns, so both go on only when a running counter has given the
database back.  `ui` is the program counter of the main thread in the
methods of the model that wait.  `cache` is the set of rows with the query they
were read for: what `RowCache` does with them is its own module, and
`SmallestNonAvailable` is the function `AnswersExact` checks there.  The future of
a counter is its number; it is ready when the counter has ended.  An interrupt
makes the read or the counts that run at that time fail.  `dbUser` is `db_used`;
others get and give back the database at any time, and, with `Interrupts`,
answer the question whether to abort the loader; `aborted` remembers that a
first chunk was cut so.  A query in `Broken` cannot be prepared.

Abstracted: column values, statement texts, `stop()` and the destructor, LIMIT
clauses that are not added (queries with a LIMIT or UNION are read whole by each
task), edits between loads.

### TableEdits

`table` is SQLite's side, from rowid to content, and the position of a row in a
query is the number of rows that come before it (`Place`, the external ORDER
BY); `cache` is `m_cache`; `count`
is the row count, which is final before edits are allowed.  Edits are refused
while the loader reads (`readingData`), so a load is one step here.  `selection`
and `kept` are a `deleteRecord` under way, one round of its loop per step:
`rows_to_remove` never exceeds one there, because `previous_row` is not advanced.
`drifted` remembers that an edit has given a row another place in the order of
the query (a content that sorts elsewhere, a default row that does not sort
last, a row deleted from the view but not from the database): from then on until
the next query, positions mean something else in the cache and in the database.

Abstracted: several columns, changes of the rowid, default values other than
one constant, `insertRows` of several rows (no caller does that), rows changed by
others.

### DbAccess

`used` is `db_used`; `pc` says for every thread how far its call is, and whether
a loader holds a handle that the main thread passed on.  The end of the wait and
the mark are two steps (`get` marks without the mutex), and so are the release
and the notification.  `kind` tells a `get` from the many functions that call
`waitForDbRelease` and then use the connection without marking it.  `raced` and
`swallowed` are history variables that name the two holes of the code: two
threads between wait and mark at once, and a notification taken by a use that
passes nothing on.  The answer in the message box is one step that only goes on;
what an interrupt does to the interrupted read is in `RowLoader`.

### ScriptWindow

`pc` follows `executeNextStatement`; `m` is its mutex, `left` and `until` the
text and the end that `stopExecution` clears, `local` what the function keeps in
local variables across the unlocked part.  `events` is the queue of signals to
the window, which handles one at a time; the blocking question before a pragma
is the state "confirm", which only the window's answer leaves.  `callback` is the
connection to `finishedFetch`, `loading` the loader.  A query that cannot be
counted gives no signal (`uncounted`).  Texts are sequences of kinds of
statements; positions are counted in statements.

Abstracted: progress texts, timing, `structureUpdated`, the log, the interrupt of
a running statement (a statement may always fail), a second SQL tab (starting
another script first stops the first and waits, which is `Close`).

### AlterTable

The content is a function from the names of tables that are there to their
layout (the set of the changes made) and whether they have the rows.  `schema` is
`schemata`, updated where the code updates it; `want` is what the dialog asked
for; `before` and `opened` are history.  One action per statement; each of them
either succeeds or fails and reverts to the function's savepoint.  Without
`PRAGMA defer_foreign_keys` being set back after a failure, `deferred` stays set.

Abstracted: indices, triggers and views, moving and renaming at once (the code
reads a table that is not there, sqlitedb.cpp:1822), names that differ in case
only, deleting columns apart from "rest".

### CsvParser

One action per branch of the switch; the two states outside quotes share their
actions, since their code differs in what it does to the state only.  Bytes are
model values; a character becomes one or two bytes by `Utf8`.  `LookBuffer` and
`LookIt` are the buffer and the iterator after `look_ahead` has read one more
character.  A job is one call of `parse` with the rows the file was made of.

`CsvWriter` is not part of the program.  It says which texts are files of which
rows: an automaton that adds one character after the other, in a field without
quotes, inside quotes, after a closing quote or at a line end (line feed, carriage
return and line feed, or a carriage return alone), and knows how many rows it has
finished.  `WrittenBy(j, w)` says that its run `w` has written the text of job
`j`.  Fields may be quoted or not, whether they have to be or not; they may have
any bytes that the parser cannot mistake; separators have one byte or two, quotes
one.

Abstracted: surrogate pairs (a character is one unit of the stream), the
progress dialog but for its answer, memory.

## 3. Runs

| run | instance | shows |
|---|---|---|
| `row_cache` | 2 rows, positions 0..4, at most 4 loaded | order, exact counts and ranges, refinement to `SparseVector` |
| `savepoints` | 1 dialog name, 2 writes, depth 4, scripts of up to 2 statements of every kind, the user waits for scripts | until a transaction is ended: the list is the stack; clean means saved; the file holds what was saved, and what scripts do not count; a rejected dialog restores what was there; a reading script leaves a clean database clean |
| `savepoints_race` | depth 3, scripts of up to 2 statements, the user acts meanwhile | calls that do not overlap are harmless to list and stack; saving and reverting end |
| `row_loader` | queries of 5, 2 and 3 rows, the second broken, block size 4, limit of 4 rows, reads aborted by the user | the final count is that of the present query and no row beyond its end is shown; tasks are counted and the database held exactly as long as there are any; the cache is of the present query |
| `row_loader_long` | one query of 7 rows, block size 4 | `completeCache` ends with every row loaded; the first load ends |
| `db_access` | the main thread, one script, two loaders | the handle is shared only by the race in `get`; the mark has a holder; no sleeper is forgotten, and somebody wakes |
| `script_window` | texts of up to 3 statements of 5 kinds, any end | results shown in turn; no statement beyond those asked for or after a stop; scripts end |
| `csv_parser` | tables of up to 2 rows of 7 fields, 24 styles of files, blocks of 1 to 3 characters, with and without trimming, limit, open quote | the rows are those written; the result is true; `parse` returns |
| `table_edits` | 4 rowids, 2 contents, half chunk 1 | the view shows the table; a deletion deletes the selection |
| `alter_table` | 3 names, 3 changes | failure restores, success is whole, cancelling restores |

Runs that find a disagreement between the code and what it says of itself (each
checks one property; the finding in PROJECT.json quotes the text):

| run | property | what happens |
|---|---|---|
| `savepoints_close` | `SavingCloseKeeps` | Save on close, COMMIT refused, connection closed |
| `row_loader_stuck` | `InitialLoadEnds` | a table is sorted or filtered while its first chunk is read; the worker later waits for the old counter with the mutex that counter needs |

**Known differences** between the code and its comments that the models contain
and that the properties above except by name, or avoid by their bounds:

* `setPragma` releases RESTOREPOINT only; with an undo point below it the
  transaction stays open (sqlitedb.cpp:2155, against the comment at 2150).
* The cleanup of a script that has only read commits an edit made meanwhile
  (RunSql.cpp:289); in `Savepoints` the user waits for scripts.  It also commits
  what statements write that are not counted as modifications, as the comment at
  RunSql.cpp:283 wants it: `unclassed`.
* A COMMIT or ROLLBACK in a script makes the list name savepoints that are gone
  (RunSql.cpp:169): `ended`.  What is written then is committed at once.
* Two threads inside calls of the savepoint layer at once can both set
  RESTOREPOINT (sqlitedb.cpp:630 and 634, against RunSql.cpp:166), leave a list
  that is empty while a transaction is open or in another order than SQLite's,
  or erase an entry that is gone: `overlapped`, `undefined`.
* A script asks before a pragma with the database in its hands (RunSql.cpp:149,
  released at 152): a window that sleeps until the database is free by then
  never answers (`Deadlocked`).
* With an odd block size `completeCache` leaves out a row between two blocks
  (sqlitetablemodel.cpp:1029); `row_loader_long` has an even one.
* A first chunk that the user aborted is reported as the whole table
  (RowLoader.cpp:278): the variable `aborted` in `CountIsTotal` and
  `CompleteLoadsAll`.
* Two threads can both get the handle (sqlitedb.cpp:862): `raced`.  A plain use
  can take the notification of another waiter (sqlitedb.h:76): `swallowed`.
* Closing while a script asks its question, or after a stop that was overwritten
  (RunSql.cpp:223 and 253), waits for ever (MainWindow.cpp:747): `Stranded`.  A
  query that cannot be counted leaves the script waiting until it is stopped
  (MainWindow.cpp:1328): `uncounted`.
* `alterTable` returns true without doing anything when only the schema of the
  table is to change (sqlitedb.cpp:1733, against sqlitedb.h:226), and after a
  failed attempt it compares with a layout that was rolled back: `Misled`.  A
  failed drop or rename leaves foreign keys deferred (sqlitedb.cpp:1954).
* After an edit that moves a row in the order of the query the view and the
  database number rows differently until the next query; deleting rows that are
  not loaded takes them out of the view only (sqlitetablemodel.cpp:719):
  `drifted`.
* The CSV parser misreads a lone carriage return after a quoted field
  (csvparser.cpp:259), and a carriage return before a character of two bytes at
  the end of a block loses a byte (csvparser.cpp:324): `OldLineEnd` and the
  writer of `CsvWriter` keep such files out.  A byte that begins a separator of
  two bytes but is not followed by the second is dropped (csvparser.cpp:177).

**Bounds.** The cache bound lets three segments stand side by side, so that
every branch of `insert` and `erase` meets a segment before, at and after it.
Depth four gives RESTOREPOINT, an undo point below and above it
and a dialog's savepoint at once, which is every relation of two names in the
stack; two writes give what is in the file, what is saved next and what is
unsaved three different contents.  In `savepoints_race` depth three has room for
every pair of names that the two threads can set at once, above a third; two
statements let a script give its savepoints back and set them again.  Queries of different size around a broken one give stale signals,
overlapping counters, and chunks that are full and not.  `MaxSignals` only delays
new requests of the user while signals wait; it loses none.  One script and the
main thread are both sides of every race between two callers of `get`; two
loaders give a holder that is not the main thread while the main thread calls
again.  Three statements are one before, one at and one after the end of what
was asked for.  Blocks of one to three characters cut every pair of bytes or
characters that the parser looks at together.  With a half chunk of one the view
of four rows always starts with rows that are not loaded.  Every attempt of the
table editor starts from a state of a finite set, so any number of attempts is
covered.

Deadlock checking is off in `row_loader` and `row_loader_stuck` because the code
really deadlocks there, in `savepoints_race` for the same reason and because
the model ends with undefined behaviour, in `script_window` because a window that waits for a
script may wait for ever and a script may end, in `csv_parser` and `alter_table`
because parsing and the dialog end, in `table_edits` because nothing needs to be
possible in an empty table, and on everywhere else.

**Fairness.** `SavepointThreads`: neither thread stops where it can go on, and
the user answers questions; nothing makes the user begin anything.
`RowLoader`: every thread runs when it can, Qt delivers signals, and others that
hold the database give it back.  Strong fairness for the main thread's waits
says that it gets the database (or the mutex) in the end although others take it
in between; the condition variable and mutex of the platform provide that in
practice, and without it starvation by others would be a counterexample to every
liveness property.  `DbAccess`: threads run, the user answers the message box,
uses end.  `ScriptWindow`: the script's thread runs, the window handles its
events, the user answers the question, and loading ends; nothing makes the user
stop or close.  `CsvParser`: the loop goes on.

## 4. Proofs

Every theorem holds for every value of the constants that the ASSUMEs of its
model allow, and from no hypotheses but those it names.  Each module states its
inductive invariant as a conjunction of named parts, proves that `Init` implies
it and that every action keeps each part, and derives the properties.

**The row cache** (`RowCacheProofs`, no assumption besides `MaxPosAssumption`).

* `CacheWellFormed`: `Spec => [](TypeOK /\ WellFormed)`.  The invariant is
  inductive as it stands.  One lemma per operation splits it as the action is
  split, and the lemmas on `GetSegmentBeyond` (the least index past the positions
  at or before `pos`, by well-founded induction on the naturals), on one changed
  entry, on one inserted and one removed segment and on shifting the tail carry
  the arithmetic.
* `RefinesSparseVector`: `Spec => ImplementsSparseVector`, the refinement of
  `SparseVector` under the mapping from segments to a partial function.
  `Holds(segs, q, x)` says that the segments have row x at position q.  Each
  operation works at one index, which splits well-formed segments into those
  that end before it and those that begin after it (`Low`, `High`); `SetHolds`,
  `InsertHolds` and `EraseHolds` say for every branch which positions hold which
  rows afterwards, `SameVector` that two sets of segments that hold the same are
  the same vector, and `SetRefined`, `InsertRefined` and `EraseRefined` conclude
  that the step is the abstract action.
* `AnswersAreExact`: `Spec => []AnswersExact`.  `numSet` is a fold over the
  segments: its partial sums are the sizes of the sets of positions of the first
  k segments, which are disjoint.  The two loops of `smallestNonAvailableRange`
  are recursive functions.  That such a function exists is shown one argument at
  a time (`AscentExists`, `DescentExists`): of the arguments at which no function
  solves the equation there is no least one.  `RangeOfSegments` then says that
  each loop passes loaded rows only and stops at a row that is not.

**The loader** (`RowLoaderProofs`, from `RowLoaderAssumption`): `Typed`,
`TasksAreCounted`, `CacheOfQuery` and `FinalCountIsTotal`, for any number of
queries of any size, any block size and any interleaving of the worker, the
counters, the main thread and the queue of signals.  `CountIsTotal` is far from
inductive: the count arrives in a signal that a counter, or the worker after the
first chunk, computed some time earlier, perhaps for another query.  The parts
of the invariant, in the order in which they need each other:

* `Types`, and `Tasks`: every counter has a number of its own, and the worker
  works only while there is a task; with this `num_tasks` is exact;
* `Tokens`: nothing in flight (tasks, counters, signals, rows of the cache) has a
  token later than `query`, and `query` lags behind `life` only between
  `clearCache` and the next `setQuery`, when the loader has nothing left to do;
* `Ranges`: tasks, the row the worker is at and the loaded rows lie within their
  query;
* `First`: until the first chunk was read, the only task begins at row 0, nothing
  but the user and the next query can cut it short, and no counter of this query
  exists, so a chunk that is not full ends where the query ends;
* `Totals`: counters, signals and the model's row count are right for the query
  they are of.

`AllIsLoaded` (`CompleteLoadsAll`) adds the hypothesis that the block size is
even: with an odd one a row is left out between two blocks and the property is
false.  `completeCache` never looks at what it has loaded.  It asks for a block,
waits until the loader is idle, waits for the counter, and goes on to the next
block up to the row count it sees then.  That this is enough needs a second
invariant, `CInv`:

* `Mutex`, `Own`: who waits with the mutex, and that the counter that is waited
  for is that of the present query;
* `FirstFull`, `Shown`: the whole first chunk is asked for, and once it was read
  its rows are shown, or will be;
* `Counts`: a count shown as final leaves no row out, and after the first chunk
  one is shown or under way;
* `Quiet`: the loader has nothing to do when a block is asked for, so the task
  is not lost;
* `Passed`, `Block`: the rows of the blocks before the present one are loaded, or
  the worker is about to load them, and those of the present one are loaded or
  within what is asked for;
* `Progress`: from the second block on the row count is final, so the loop does
  not end before the last row.

**Edits in a table view** (`TableEditsProofs`, from `TableEditsAssumption`):
`Typed`, `ViewShowsTable` and `SelectionIsDeleted`, for tables of any size.
`Lined`, `Placed` and `PlacesDiffer` show that ORDER BY gives every row a
position of its own below the number of rows; `AppendedPlaces` and
`RemainingPlaces` what an insertion at the end and a deletion do to the positions
of the others, and `FetchedRows` that a read gives each position its row.
`ShowsTable` is kept by every edit for its own reasons, but that a deletion
deletes the selection needs `KeptIsRest`: in the middle of the loop, `kept` is
exactly the rows whose present position is not in what is left of the selection.

**Savepoints** (`SavepointsProofs`), for any set of dialogs, any depth and any
number of writes and statements, from `SavepointsAssumption` alone: `Typed`,
`ListIsStack`, `CleanHasNothing`, `NothingUnasked`, `RejectingRestores` and
`ReadingIsClean`.  All but the first are about the time until a statement ends a
transaction, as the properties say: the invariants are proved in the form
`~ended => ...`, and `NotEnded` says that a step after which that is so is not
`EndTransaction`.

The properties are not inductive.  A RELEASE writes to the file when it takes
away the oldest savepoint, so `FileHoldsOnlySaved` needs to know what that
savepoint remembers, and when a script may give its savepoints back.  The
invariant `IInv` adds:

* `Sound`: the list and the stack have the same names, the oldest savepoint
  remembers what the file holds, with no savepoint open the connection sees the
  file, and neither it nor any savepoint lacks what the file holds;
* `ScriptKnows`: while a script believes its savepoints are set, the list is not
  empty (so its writes do not reach the file at once).

One lemma per operation of the layer shows that it keeps `Sound` and what it
does to content and file (`PushSound`, `CutSound` for the three that erase);
`SameIndex` shows that the search from the back of the list finds the savepoint
that SQLite takes.  `UiKeeps` and `ScriptKeeps` then have one step per action.
Four sections follow:

* `NothingUnasked`: `FileInv` says that the file holds only what was saved and
  what scripts do not count, that a script which has noted no modification, begun
  on a clean database, has added to it only what it does not count (so its
  cleanup commits no more than that), and that while a save or a confirmed pragma
  is under way the content is what the user asked to have saved, until the end.
* `RejectingRestores`: while a dialog is open, the innermost savepoint of its
  name remembers the content it was opened with (`DialogInv`), although its
  writes set RESTOREPOINT above it; a rejection goes back to that savepoint.
* `ReadingIsClean`: a script that began on a clean database and has modified
  nothing has none but its own savepoints on the list (`ReadInv`), so that its
  cleanup leaves the list empty, or, where a commit is refused, changes to save.
* `Typed`: the types are kept also after a transaction was ended, when the list
  and the stack have nothing to do with each other (`TypeInv`).

**Sharing the handle** (`DbAccessProofs`, for any number of scripts and loaders,
from `DbAccessAssumption`): `Typed`, `MarkHasHolder`, `SharingNeedsRace`,
`NobodySleepsUnnoticed`, and `MainAloneIsExclusive` (no script, no sharing).  The
strengthening is `MarkIsTrue`: as long as no race has happened, at most one user
holds or is about to mark, and the mark says which.

**Scripts and the window** (`ScriptWindowProofs`, for texts of any length):
`LocksAreHeldInOrder` (the type invariant, which also says where the mutex and
the database are held), `ResultsAreShownFirst`, `NoMoreThanAsked`, `StopIsFinal`.
The invariant says who holds the mutex and that a stopped script has nothing
left and is past preparing (`Cleared`), that the position follows what was
prepared (`Counted`), that the window asks only while the script is blocked in
the question (`Questions`), that a result not yet shown is the only one while
the script is parked (`Results`), and which steps the script and the loader can
be at while each has the database (`Holders`).

**Changing a table** (`AlterTableProofs`, for any choice of names and changes
and any number of attempts): `Typed`, `FailedIsUndone` (`FailureRestores`),
`CancelledIsUndone` (`RejectRestores`) and `DoneIsWhole` (`SuccessIsWhole`).
`IInv` says that during an attempt the stack is that of the dialog with the
attempt's own savepoint on it, which remembers the content the dialog was opened
with, and above it only savepoints of other names.  That is enough for failures.
Success needs `Shape` as well, which follows the attempt statement by statement:
where the table comes from and that it is one the dialog can ask for (`Opened`,
`Wanted`), which tables with which layout and rows are there before each
statement (`Content`), where foreign keys are deferred (`Deferral`), and that with
a third savepoint on the stack RESTOREPOINT is set, so that the attempt's
statements set no other (`Depth`).  `Settled` keeps what an ended attempt established.

**The CSV parser** (`CsvParserProofs`, from `CsvAssumption`), for any files, any
characters of one or more bytes and any size of the blocks.  `TypeCorrect` needs
separators and quotes of at most two bytes (`ShortMarks`; the code compares the
second byte only).  `RowsCorrect` (`RowsAsWritten`) and `ResultCorrect`
(`ResultIsTrue`) need `JobsWritten`: every job is what some run of the writer
leaves.  TLC evaluates that for the jobs of `csv_parser` (`JobsAreWritten`), for
runs that `WriterRun` builds.

The invariant `ReadingInv(w, at)` says where in the text the parser is: after p
characters and k bytes of the next one, in a buffer that holds the bytes of the
characters s + 1 to e.  There the columns and the field are those the run w of the
writer had after p characters (and the k bytes, which only a character that
belongs to a field has behind the parser), the state of the parser is that of the
writer's place, and the rows handed over are the first of the table.  So a byte
is enough to know which step of the writer is being read, and what follows it:

* `at` gives the number of bytes before each character; `OffsetsExist` shows that
  there is such a function, and `Flattened` that the bytes of a block
  (`FlattenSeq`, a recursive function) are those of its characters one after the
  other, both by looking for a least counterexample;
* `OneByteOn`, `OneCharacterOn`, `OneCharacterMore` and `NextBlock` say where the
  parser stands after the next byte, after a character, after a look ahead that
  has read one more character, and in a new block;
* `LooksAtNext`: a look ahead after a character of one byte sees the next
  character of the text, even if that is in the next block.  It needs that one to
  have one byte (else the position is lost, csvparser.cpp:324), which
  `AfterReturn` gets from the writer;
* `ReadsInto`, `ReadsQuote`, `ReadsSeparator`, `ReadsLineFeed` and `ReadsReturn`
  read the steps of the writer, and `FollowsWriter` puts them together;
* `BlockKept`, `ReadBlockKept`, `CancelKept` and `FinishKept` conclude, one per
  action.

**Induction.** The library's theorems on induction take an operator as a
parameter, which the installed provers cannot instantiate.  Where a proof needs
induction over numbers it takes the set of counterexamples, which has a least
element if it is not empty (`LeastNatural`, from the well-foundedness of the
naturals).  `GreatestNatural` says the same of `Max`; each module that needs
these has them at its beginning.

**Model-checked only.** `ApartIsSafe`, and every liveness property (`LoopsEnd`, `CompleteEnds`,
`InitialLoadEnds`, `SomebodyWakes`, `StopEnds`, `ScriptEnds`, `Terminates`):
fairness and ENABLED are outside the prover's reach.  All other invariants and
action properties of the passing runs are proved.

## 5. Not modelled

* `executeMultiSQL`: whether it has a savepoint depends on regular expressions
  over the text of the statements.
* Attaching databases, encryption, extensions, loading of the schema from SQLite.
* `sqlb::Query`, `sqlitetypes` and the parser: building and reading of SQL text.
* Display, encodings, conditional formats, filters, plot, export, the editors of
  cells and SQL, settings, start-up, network: user interface and input/output
  without an order of events to get wrong.
* The translations in `src/src/translations`: data without behaviour.
* Vendored libraries, extensions, tests and packaging.

## 6. Plan

Done: the modules above.  Next: smaller models, of the columns of `Query`, and of
`executeMultiSQL` with the test for a transaction statement as a nondeterministic
choice.
