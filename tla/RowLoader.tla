---------------------------- MODULE RowLoader ----------------------------
(***************************************************************************)
(* Lazy loading of the rows of a query.  SqliteTableModel lives in the     *)
(* user interface thread and asks its RowLoader for ranges of rows; the    *)
(* loader's worker thread reads them into the shared cache, and a counter  *)
(* thread, started after a full first chunk, finds out how many rows there *)
(* are.  Results come back as queued signals, each with the life of the    *)
(* model it was asked for in.  A query is named by that life.              *)
(***************************************************************************)
EXTENDS Integers, FiniteSets, Sequences

CONSTANTS Rows,        \* Rows[q] is the number of rows of query q
          Broken,      \* the queries whose statements cannot be prepared
          ChunkSize,   \* m_chunkSize, the prefetch block size setting
          RowsLimit,   \* m_rowsLimit, the most rows that are shown
          MaxSignals,  \* bound: signals waiting when a load is asked for
          Interrupts   \* may the user abort a running read?

Lives == DOMAIN Rows
HalfChunk == ChunkSize \div 2

ASSUME RowLoaderAssumption ==
    /\ Rows \in Seq(Nat)
    /\ Broken \subseteq Lives
    /\ ChunkSize \in Nat /\ ChunkSize >= 4
    /\ RowsLimit \in Nat
    /\ MaxSignals \in Nat
    /\ Interrupts \in BOOLEAN

VARIABLES
    \* SqliteTableModel, touched by the user interface only
    life,          \* m_lifeCounter
    available,     \* m_rowCountAvailable
    rowCount,      \* m_currentRowCount
    realRowCount,  \* m_realRowCount
    ui,            \* where the thread is, see UiAt
    signals,       \* the queued signals, oldest first
    \* shared
    cache,         \* the rows in m_cache, each with the query it is of
    m,             \* who holds the mutex of the loader over several steps
    query, first_chunk_loaded, num_tasks, pDb, current_task, next_task,
    row_counter,   \* the counter whose future is held, 0 if none
    \* threads
    worker,        \* where the worker is, see WorkerAt
    counters,      \* the counters that have not ended
    started,       \* the number of counters started
    dbUser,        \* who holds the database
    aborted        \* has the user aborted a read of the present query?

model == <<life, available, rowCount, realRowCount>>
loader == <<query, first_chunk_loaded, num_tasks, pDb, current_task,
            next_task, row_counter>>
vars == <<model, ui, signals, cache, m, loader, worker, counters, started,
          dbUser, aborted>>

NoTask == [token |-> 0, row_begin |-> 0, row_end |-> 0, cancel |-> FALSE]
Task(token, b, e) ==
    [token |-> token, row_begin |-> b, row_end |-> e, cancel |-> FALSE]
Cancelled(t) == IF t = NoTask THEN t ELSE [t EXCEPT !.cancel = TRUE]

\* What the user interface is doing: `op` is the method of the model it is
\* in, `i` the loop variable of completeCache, `fut` the counter it waits for
\* and [b, e) the range it asks for.
UiAt(pc, op, i, fut, b, e) ==
    [pc |-> pc, op |-> op, i |-> i, fut |-> fut, b |-> b, e |-> e]
UiIdle == UiAt("idle", "none", 0, 0, 0, 0)

\* The worker: the query and the row it reads, and how its last step ended.
WorkerAt(pc, q, row, result) ==
    [pc |-> pc, q |-> q, row |-> row, result |-> result]

---------------------------------------------------------------------------
(* Helpers of the loader. *)

CounterEnded(c) == c = 0 \/ \A k \in counters : k.id # c

\* nosync_taskDone, for n tasks at once: the last one gives the database back.
TasksDone(n) ==
    /\ num_tasks' = num_tasks - n
    /\ pDb' = (pDb /\ num_tasks' # 0)
    /\ dbUser' = IF pDb /\ ~pDb' THEN "none" ELSE dbUser

\* sqlite3_interrupt: every statement that is running fails.
Interrupt ==
    /\ worker' = IF worker.pc \in {"step", "row"}
                 THEN [worker EXCEPT !.result = "interrupted"] ELSE worker
    /\ counters' = {IF c.pc = "count" THEN [c EXCEPT !.pc = "failed"] ELSE c :
                       c \in counters}

NoInterrupt == UNCHANGED <<worker, counters>>

Emit(s) == signals' = Append(signals, s)
Signal(kind, token, b, e) ==
    [kind |-> kind, token |-> token, b |-> b, e |-> e]

---------------------------------------------------------------------------
(* The table model. *)

Larger(a, b) == IF a > b THEN a ELSE b
Smaller(a, b) == IF a < b THEN a ELSE b

InCache(row) == \E c \in cache : c.row = row

\* RowCache's smallestNonAvailableRange, on the rows that are in the cache.
SmallestNonAvailable(b, e) ==
    LET missing == {r \in b..e : r < e /\ ~InCache(r)}
    IN  IF missing = {} THEN <<b, b>>
        ELSE <<CHOOSE r \in missing : \A s \in missing : r <= s,
               1 + CHOOSE r \in missing : \A s \in missing : r >= s>>

\* Mutant: the end of the range is one row too early.
LoadRange_Short(row) ==
    LET b == Larger(0, row - HalfChunk)
        e == IF available = "Complete"
             THEN Smaller(row + HalfChunk - 1, rowCount)
             ELSE row + HalfChunk - 1
    IN  SmallestNonAvailable(b, e)

\* The range triggerCacheLoad(row) has to ask for.
LoadRange(row) ==
    LET b == Larger(0, row - HalfChunk)
        e == IF available = "Complete"
             THEN Smaller(row + HalfChunk, rowCount) ELSE row + HalfChunk
    IN  SmallestNonAvailable(b, e)

\* A new query, as a sort, a filter or another row id sets it
\* (updateAndRunQuery).  It starts with clearCache: a new life begins, the
\* loader is cancelled and then waited for.  A query of another table and one
\* of the SQL editor are not set before the loader has also given the database
\* back (reset clears the cache once more, getColumnNames gets the database):
\* they do the same in fewer orders.
NewQuery ==
    /\ ui = UiIdle /\ life + 1 \in Lives
    /\ m = "free"
    /\ life' = life + 1
    /\ IF pDb THEN Interrupt ELSE NoInterrupt
    /\ current_task' = Cancelled(current_task)
    /\ next_task' = NoTask
    /\ TasksDone(IF next_task = NoTask THEN 0 ELSE 1)
    /\ ui' = UiAt("future", "query", 0, row_counter, 0, 0)
    /\ UNCHANGED <<available, rowCount, realRowCount, signals, cache, m,
                   query, first_chunk_loaded, row_counter, started, aborted>>

\* waitUntilIdle looks at the counter first, without the mutex, ...
WaitForFuture ==
    /\ ui.pc = "future" /\ CounterEnded(ui.fut)
    /\ ui' = [ui EXCEPT !.pc = "wait"]
    /\ UNCHANGED <<model, signals, cache, m, loader, worker, counters,
                   started, dbUser, aborted>>

\* Mutant: only a task that waits is looked at.
Idle_Waiting == m = "free" /\ next_task = NoTask

\* ... and then waits for the worker.
Idle == m = "free" /\ current_task = NoTask /\ next_task = NoTask

\* The rest of clearCache, the new query, and the load of its first chunk.
ClearAndSetQuery ==
    /\ ui.pc = "wait" /\ ui.op = "query" /\ Idle
    /\ cache' = {}
    /\ available' = "Unknown"
    /\ rowCount' = 0
    /\ realRowCount' = 0
    /\ query' = life
    /\ first_chunk_loaded' = FALSE
    /\ aborted' = FALSE
    /\ ui' = UiAt("trigger", "query", 0, 0, 0, 2 * HalfChunk - 1)
    /\ UNCHANGED <<life, signals, m, num_tasks, pDb, current_task, next_task,
                   row_counter, worker, counters, started, dbUser>>

\* A view is scrolled to a row: nothing to do before there are rows.
Scroll ==
    /\ ui = UiIdle /\ Len(signals) < MaxSignals
    /\ \E row \in 0..(rowCount - 1) :
           LET r == LoadRange(row)
           IN  /\ r[1] # r[2]
               /\ ui' = UiAt("trigger", "scroll", 0, 0, r[1], r[2])
    /\ UNCHANGED <<model, signals, cache, m, loader, worker, counters,
                   started, dbUser, aborted>>

\* triggerFetch: with the mutex held, a running read is interrupted, unless
\* rows are being counted, ...
TriggerInterrupt ==
    /\ ui.pc = "trigger" /\ m = "free"
    /\ IF pDb /\ CounterEnded(row_counter) THEN Interrupt ELSE NoInterrupt
    /\ m' = "ui"
    /\ ui' = [ui EXCEPT !.pc = "queue"]
    /\ UNCHANGED <<model, signals, cache, loader, started, dbUser, aborted>>

\* Mutant: a task that is replaced is not taken off the number of tasks.
TriggerFetch_Replaced ==
    /\ ui.pc = "queue"
    /\ pDb \/ dbUser = "none"
    /\ m' = "free"
    /\ current_task' = Cancelled(current_task)
    /\ next_task' = Task(life, ui.b, ui.e)
    /\ num_tasks' = num_tasks + 1
    /\ pDb' = TRUE
    /\ dbUser' = "loader"
    /\ ui' = UiIdle
    /\ UNCHANGED <<model, signals, cache, query, first_chunk_loaded,
                   row_counter, worker, counters, started, aborted>>

\* ... the current task is cancelled, the database is waited for, and the
\* new task takes the place of one that has not been started.
TriggerFetch ==
    /\ ui.pc = "queue"
    /\ pDb \/ dbUser = "none"
    /\ m' = "free"
    /\ current_task' = Cancelled(current_task)
    /\ next_task' = Task(life, ui.b, ui.e)
    /\ num_tasks' = IF next_task = NoTask THEN num_tasks + 1 ELSE num_tasks
    /\ pDb' = TRUE
    /\ dbUser' = "loader"
    /\ ui' = IF ui.op = "complete"
             THEN UiAt("future", "complete", ui.i + ChunkSize, row_counter, 0, 0)
             ELSE UiIdle
    /\ UNCHANGED <<model, signals, cache, query, first_chunk_loaded,
                   row_counter, worker, counters, started, aborted>>

\* Mutants: no signal is late; those of the present life are.
Late_Never(s) == FALSE
Late_Same(s) == s.token <= life

\* The signals of an earlier life are dropped.
Late(s) == s.token < life

\* The user interface handles a signal.
HandleSignal ==
    /\ ui = UiIdle \/ ui.pc = "events"
    /\ signals # << >>
    /\ signals' = Tail(signals)
    /\ LET s == Head(signals)
           count == s.kind = "count"
           rows == IF count THEN Smaller(s.e, RowsLimit) ELSE s.e
       IN  IF Late(s) \/ s.kind = "error"
           THEN UNCHANGED model
           ELSE /\ rowCount' = Larger(rowCount, rows)
                /\ realRowCount' = IF count THEN s.e ELSE realRowCount
                /\ available' = IF count \/ available = "Complete"
                                THEN "Complete" ELSE "Partial"
                /\ UNCHANGED life
    /\ UNCHANGED <<ui, cache, m, loader, worker, counters, started, dbUser,
                    aborted>>

\* completeCache waits for what is going on and then loads block by block:
\* in each round events are processed first.
CompleteCache ==
    /\ ui = UiIdle /\ life > 0 /\ Len(signals) < MaxSignals
    /\ ui' = UiAt("future", "complete", 0, row_counter, 0, 0)
    /\ UNCHANGED <<model, signals, cache, m, loader, worker, counters,
                   started, dbUser, aborted>>

CompleteLoop ==
    /\ ui.pc = "wait" /\ ui.op = "complete" /\ Idle
    /\ ui.i < rowCount + HalfChunk
    /\ ui' = [ui EXCEPT !.pc = "events"]
    /\ UNCHANGED <<model, signals, cache, m, loader, worker, counters,
                   started, dbUser, aborted>>

\* Mutant: a block that is in the cache already is not passed.
CompleteLoad_Again ==
    /\ ui.pc = "events" /\ signals = << >>
    /\ LET r == LoadRange(ui.i)
       IN  ui' = IF r[1] # r[2]
                 THEN UiAt("trigger", "complete", ui.i, 0, r[1], r[2])
                 ELSE UiAt("future", "complete", ui.i, row_counter, 0, 0)
    /\ UNCHANGED <<model, signals, cache, m, loader, worker, counters,
                   started, dbUser, aborted>>

CompleteLoad ==
    /\ ui.pc = "events" /\ signals = << >>
    /\ LET r == LoadRange(ui.i)
       IN  ui' = IF r[1] # r[2]
                 THEN UiAt("trigger", "complete", ui.i, 0, r[1], r[2])
                 ELSE UiAt("future", "complete", ui.i + ChunkSize, row_counter,
                           0, 0)
    /\ UNCHANGED <<model, signals, cache, m, loader, worker, counters,
                   started, dbUser, aborted>>

CompleteReturn ==
    /\ ui.pc = "wait" /\ ui.op = "complete" /\ Idle
    /\ ui.i >= rowCount + HalfChunk
    /\ ui' = UiIdle
    /\ UNCHANGED <<model, signals, cache, m, loader, worker, counters,
                   started, dbUser, aborted>>

---------------------------------------------------------------------------
(* The worker thread. *)

\* Mutant: also without a task.
TaskEnd_NoTask ==
    /\ worker.pc = "loop" /\ m = "free"
    /\ TasksDone(1)
    /\ current_task' = NoTask
    /\ worker' = WorkerAt("idle", 0, 0, "ok")
    /\ UNCHANGED <<model, ui, signals, cache, m, query, first_chunk_loaded,
                   next_task, row_counter, counters, started, aborted>>

\* The top of run(): the task that was processed is destroyed.
TaskEnd ==
    /\ worker.pc = "loop" /\ m = "free"
    /\ TasksDone(IF current_task = NoTask THEN 0 ELSE 1)
    /\ current_task' = NoTask
    /\ worker' = WorkerAt("idle", 0, 0, "ok")
    /\ UNCHANGED <<model, ui, signals, cache, m, query, first_chunk_loaded,
                   next_task, row_counter, counters, started, aborted>>

\* The next task becomes the current one and its statement is prepared; if
\* that fails, nothing but the end of the task is reported.
TakeTask ==
    /\ worker.pc = "idle" /\ m = "free" /\ next_task # NoTask
    /\ current_task' = next_task
    /\ next_task' = NoTask
    /\ worker' = WorkerAt(IF query \in Broken THEN "fetched" ELSE "step",
                          query, next_task.row_begin, "ok")
    /\ UNCHANGED <<model, ui, signals, cache, m, query, first_chunk_loaded,
                   num_tasks, pDb, row_counter, counters, started, dbUser,
                    aborted>>

\* One row more, for as long as the task is not cancelled, there is one and
\* the range is not through; it is written under another mutex, by when the
\* task may be cancelled.
ReadRow ==
    /\ worker.pc = "step" /\ worker.result = "ok" /\ ~current_task.cancel
    /\ worker.row < Smaller(current_task.row_end, Rows[worker.q])
    /\ worker' = [worker EXCEPT !.pc = "row"]
    /\ UNCHANGED <<model, ui, signals, cache, m, loader, counters, started,
                   dbUser, aborted>>

WriteRow ==
    /\ worker.pc = "row"
    /\ cache' = {c \in cache : c.row # worker.row}
                    \cup {[row |-> worker.row, q |-> worker.q]}
    /\ worker' = [worker EXCEPT !.pc = "step", !.row = @ + 1]
    /\ UNCHANGED <<model, ui, signals, m, loader, counters, started, dbUser,
                    aborted>>

\* Any other end of the loop; an error that is not the effect of a
\* cancellation is reported.
ReadEnd ==
    /\ worker.pc = "step"
    /\ \/ worker.result # "ok" \/ current_task.cancel
       \/ worker.row >= Smaller(current_task.row_end, Rows[worker.q])
    /\ IF worker.result # "ok" /\ ~current_task.cancel
       THEN Emit(Signal("error", current_task.token, 0, 0))
       ELSE UNCHANGED signals
    /\ worker' = [worker EXCEPT !.pc = "first"]
    /\ UNCHANGED <<model, ui, cache, m, loader, counters, started, dbUser,
                    aborted>>

\* After the first chunk of a query: a full one means there may be more, and
\* the rows are counted; otherwise the rows read are taken for all.
FirstChunk ==
    /\ worker.pc = "first"
    /\ first_chunk_loaded' = TRUE
    /\ IF ~first_chunk_loaded /\ worker.row = current_task.row_end
       THEN worker' = [worker EXCEPT !.pc = "count"] /\ UNCHANGED signals
       ELSE /\ worker' = [worker EXCEPT !.pc = "fetched"]
            /\ IF first_chunk_loaded THEN UNCHANGED signals
               ELSE Emit(Signal("count", current_task.token,
                                worker.row - current_task.row_begin,
                                worker.row - current_task.row_begin))
    /\ UNCHANGED <<model, ui, cache, m, query, num_tasks, pDb, current_task,
                   next_task, row_counter, counters, started, dbUser,
                    aborted>>

\* triggerRowCountDetermination starts the counter ...
StartCounter ==
    /\ worker.pc = "count" /\ m = "free"
    /\ m' = "worker"
    /\ num_tasks' = num_tasks + 1
    /\ started' = started + 1
    /\ counters' = counters \cup
           {[id |-> started + 1, token |-> current_task.token,
             pc |-> "start", rows |-> 0]}
    /\ worker' = [worker EXCEPT !.pc = "assign"]
    /\ UNCHANGED <<model, ui, signals, cache, query, first_chunk_loaded, pDb,
                   current_task, next_task, row_counter, dbUser, aborted>>

\* ... and keeps its future: the one it replaces is waited for, with the
\* mutex held.
AssignFuture ==
    /\ worker.pc = "assign" /\ CounterEnded(row_counter)
    /\ row_counter' = started
    /\ m' = "free"
    /\ worker' = [worker EXCEPT !.pc = "fetched"]
    /\ UNCHANGED <<model, ui, signals, cache, query, first_chunk_loaded,
                   num_tasks, pDb, current_task, next_task, counters,
                   started, dbUser, aborted>>

EmitFetched ==
    /\ worker.pc = "fetched"
    /\ Emit(Signal("fetched", current_task.token, current_task.row_begin,
                   worker.row))
    /\ worker' = [worker EXCEPT !.pc = "loop"]
    /\ UNCHANGED <<model, ui, cache, m, loader, counters, started, dbUser,
                    aborted>>

---------------------------------------------------------------------------
(* A counter thread. *)

Replace(c, d) == counters' = (counters \ {c}) \cup {d}

\* countRows prepares whatever the count query is by then, ...
CountStart(c) ==
    /\ c.pc = "start"
    /\ Replace(c, [c EXCEPT !.pc = IF query \in Broken THEN "failed"
                                   ELSE "count",
                           !.rows = Rows[query]])
    /\ UNCHANGED <<model, ui, signals, cache, m, loader, worker, started,
                   dbUser, aborted>>

\* ... reports the result if there is one, ...
CountEnd(c) ==
    /\ c.pc \in {"count", "failed"}
    /\ IF c.pc = "count" THEN Emit(Signal("count", c.token, c.rows, c.rows))
       ELSE UNCHANGED signals
    /\ Replace(c, [c EXCEPT !.pc = "done"])
    /\ UNCHANGED <<model, ui, cache, m, loader, worker, started, dbUser,
                    aborted>>

\* ... and ends its task.
CountDone(c) ==
    /\ c.pc = "done" /\ m = "free"
    /\ counters' = counters \ {c}
    /\ TasksDone(1)
    /\ UNCHANGED <<model, ui, signals, cache, m, query, first_chunk_loaded,
                   current_task, next_task, row_counter, worker, started,
                    aborted>>

---------------------------------------------------------------------------
(* Others that use the database; waiting for it, they may ask the user      *)
(* whether to interrupt what the loader is doing.                           *)

OtherGets ==
    /\ dbUser = "none"
    /\ dbUser' = "other"
    /\ UNCHANGED <<model, ui, signals, cache, m, loader, worker, counters,
                   started, aborted>>

OtherReleases ==
    /\ dbUser = "other"
    /\ dbUser' = "none"
    /\ UNCHANGED <<model, ui, signals, cache, m, loader, worker, counters,
                   started, aborted>>

OtherInterrupts ==
    /\ Interrupts /\ dbUser = "loader"
    /\ Interrupt
    /\ aborted' = TRUE
    /\ UNCHANGED <<model, ui, signals, cache, m, loader, started, dbUser>>

---------------------------------------------------------------------------

Init ==
    /\ life = 0 /\ available = "Unknown" /\ rowCount = 0 /\ realRowCount = 0
    /\ ui = UiIdle /\ signals = << >> /\ cache = {} /\ m = "free"
    /\ query = 0 /\ first_chunk_loaded = FALSE /\ num_tasks = 0
    /\ pDb = FALSE /\ current_task = NoTask /\ next_task = NoTask
    /\ row_counter = 0 /\ worker = WorkerAt("loop", 0, 0, "ok")
    /\ counters = {} /\ started = 0 /\ dbUser = "none"
    /\ aborted = FALSE

UiWaits == WaitForFuture \/ ClearAndSetQuery \/ TriggerInterrupt
           \/ TriggerFetch \/ CompleteLoop \/ CompleteLoad \/ CompleteReturn

WorkerNext == TaskEnd \/ TakeTask \/ ReadRow \/ WriteRow \/ ReadEnd
              \/ FirstChunk \/ StartCounter \/ AssignFuture \/ EmitFetched

CounterNext(c) == CountStart(c) \/ CountEnd(c) \/ CountDone(c)

Next ==
    \/ NewQuery \/ Scroll \/ CompleteCache \/ UiWaits \/ HandleSignal
    \/ WorkerNext
    \/ \E c \in counters : CounterNext(c)
    \/ OtherGets \/ OtherReleases \/ OtherInterrupts

Spec == Init /\ [][Next]_vars

\* Each thread goes on when it can, signals are delivered, and whoever else
\* uses the database gives it back; nobody has to start a query or to scroll.
\* Waiting for the database, the user interface gets it in the end although
\* others get it in between.
FairSpec ==
    /\ Spec
    /\ WF_vars(WorkerNext)
    /\ WF_vars(\E c \in counters : CounterNext(c))
    /\ WF_vars(HandleSignal)
    /\ SF_vars(UiWaits)
    /\ WF_vars(OtherReleases)

---------------------------------------------------------------------------
(* Properties. *)

TaskType == [token : 0..Len(Rows), row_begin : Nat, row_end : Nat,
             cancel : BOOLEAN]

\* The types of the variables.
TypeOK ==
    /\ life \in 0..Len(Rows)
    /\ available \in {"Unknown", "Partial", "Complete"}
    /\ rowCount \in Nat /\ realRowCount \in Nat
    /\ m \in {"free", "ui", "worker"}
    /\ query \in 0..Len(Rows)
    /\ first_chunk_loaded \in BOOLEAN
    /\ num_tasks \in Nat
    /\ pDb \in BOOLEAN
    /\ current_task \in TaskType /\ next_task \in TaskType
    /\ row_counter \in 0..started
    /\ dbUser \in {"none", "loader", "other"}
    /\ aborted \in BOOLEAN

Number(b) == IF b THEN 1 ELSE 0

\* num_tasks counts the tasks and the counters that exist, over all the ways
\* a task can be replaced, cancelled and destroyed; the loader holds the
\* database exactly while there is one, so nothing is read through a handle
\* that was given back and no handle is kept when all is done.
TasksHoldDb ==
    /\ num_tasks = Number(current_task # NoTask) + Number(next_task # NoTask)
                       + Cardinality(counters)
    /\ pDb <=> num_tasks > 0
    /\ pDb <=> dbUser = "loader"

\* Once the user interface is through with a new query, the cache holds rows
\* of that query only: no late write of the worker for the one before.
CacheIsOfQuery == ui.op # "query" => \A c \in cache : c.q = life

\* Rows that are shown exist, and a row count shown as final is the number of
\* rows of the present query, whatever counters of earlier queries are still
\* running, unless the user has aborted a read of it: the rows read by then
\* are taken for all.
CountIsTotal ==
    life > 0 /\ ui.op # "query" =>
        /\ rowCount <= Rows[life]
        /\ available = "Complete" /\ ~aborted => realRowCount = Rows[life]

\* When completeCache returns, every row of the query, up to the limit of
\* rows, is in the cache: the dialogs that call it look for values in all.
\* Nothing is loaded of a query that cannot be prepared, and too little after
\* the user has aborted a read.
CompleteLoadsAll ==
    [][CompleteReturn /\ life \notin Broken /\ ~aborted =>
           \A r \in 0..(Smaller(Rows[life], RowsLimit) - 1) : InCache(r)]_vars

\* The first chunk and the row count arrive for the last query that was set,
\* as the note on m_rowCountAvailable says: a sorted or filtered table does not
\* stay at the rows of its first chunk, or at none.
InitialLoadEnds ==
    \A l \in Lives \ Broken :
        life = l ~> (life # l \/ available = "Complete")

\* completeCache comes to its end.
CompleteEnds == ui.op = "complete" ~> ui.op # "complete"
===========================================================================
