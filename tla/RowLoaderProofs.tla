-------------------------- MODULE RowLoaderProofs --------------------------
(***************************************************************************)
(* Proofs about RowLoader, for queries of any number and size, any block   *)
(* size and any interleaving of the threads: the tasks are counted and the *)
(* database is held exactly as long as there are any, the cache is of the  *)
(* present query, a final row count is the number of its rows, and all     *)
(* rows are loaded when completeCache returns.                             *)
(***************************************************************************)
EXTENDS RowLoader, FiniteSetTheorems, FunctionTheorems, SequenceTheorems,
        FiniteSetsExt, WellFoundedInduction, TLAPS

\* A set of naturals that is not empty has a least element.
LEMMA LeastNatural ==
    ASSUME NEW T \in SUBSET Nat, NEW n \in T
    PROVE  \E low \in T : \A k \in T : ~ (k < low)
<1>1. IsWellFoundedOn(OpToRel(<, Nat), Nat)
    BY NatLessThanWellFounded
<1>2. PICK low \in T : \A k \in T : ~ (<<k, low>> \in OpToRel(<, Nat))
    BY <1>1, WFMin
<1>3. \A k \in T : k < low => <<k, low>> \in OpToRel(<, Nat)
    BY DEF OpToRel
<1> QED
    BY <1>2, <1>3

\* Max picks the greatest element of a set of naturals with an upper bound.
LEMMA GreatestNatural ==
    ASSUME NEW T \in SUBSET Nat, NEW n \in T,
           NEW bound \in Nat, \A k \in T : k <= bound
    PROVE  Max(T) \in T /\ \A k \in T : k <= Max(T)
<1> DEFINE Upper == {b \in Nat : \A k \in T : k <= b}
<1>1. PICK low \in Upper : \A b \in Upper : ~ (b < low)
  <2>1. bound \in Upper /\ Upper \in SUBSET Nat
      OBVIOUS
  <2> HIDE DEF Upper
  <2> QED
      BY <2>1, LeastNatural
<1>2. low \in T
  <2>1. CASE low = 0
      BY <1>1, <2>1
  <2>2. CASE low # 0
    <3>1. low - 1 \in Nat /\ low - 1 < low
        BY <1>1, <2>2
    <3>2. PICK k \in T : ~ (k <= low - 1)
        BY <1>1, <3>1
    <3>3. k = low
        BY <1>1, <3>1, <3>2
    <3> QED
        BY <3>2, <3>3
  <2> QED
      BY <2>1, <2>2
<1>3. \E x \in T : \A y \in T : x >= y
    BY <1>1, <1>2
<1> QED
    BY <1>3 DEF Max

\* The old query is still set while clearCache waits for the loader.
Fresh == ui.op = "query" => ui.pc \in {"trigger", "queue"}

\* The worker has a task.
Active == worker.pc \notin {"loop", "idle"}

\* The first chunk was read, or never will be.
FirstRead == first_chunk_loaded \/ query \in Broken

Waiting == {signals[i] : i \in 1..Len(signals)}

UiType ==
    [pc : {"idle", "future", "wait", "trigger", "queue", "events"},
     op : {"none", "query", "scroll", "complete"},
     i : Nat, fut : 0..started, b : Nat, e : Nat]
SignalType ==
    [kind : {"error", "count", "fetched"}, token : Nat, b : Nat, e : Nat]
WorkerType ==
    [pc : {"loop", "idle", "step", "row", "first", "count", "assign",
           "fetched"},
     q : 0..Len(Rows), row : Nat, result : {"ok", "interrupted"}]
CounterType ==
    [id : Nat, token : Nat, pc : {"start", "count", "failed", "done"},
     rows : Nat]

Types ==
    /\ TypeOK
    /\ started \in Nat
    /\ ui \in UiType
    /\ ui.op = "none" <=> ui = UiIdle
    /\ ui.op = "none" <=> ui.pc = "idle"
    /\ ui.op = "scroll" => ui.pc \in {"trigger", "queue"}
    /\ ui.pc = "events" => ui.op = "complete"
    /\ worker \in WorkerType
    /\ counters \in SUBSET CounterType
    /\ signals \in Seq(SignalType)
    /\ cache \in SUBSET [row : Nat, q : 0..Len(Rows)]

\* What the worker does is in the task it has; counters have their numbers.
Tasks ==
    /\ TasksHoldDb
    /\ IsFiniteSet(counters)
    /\ \A c, d \in counters : c.id = d.id => c = d
    /\ \A c \in counters : c.id <= started
    /\ worker.pc = "idle" => current_task = NoTask
    /\ Active => current_task # NoTask

\* Who works for which query.
Tokens ==
    /\ query <= life /\ (Fresh <=> query = life)
    /\ ui.pc # "idle" => life > 0
    /\ current_task # NoTask => query > 0 /\ current_task.token = query
    /\ next_task # NoTask => query > 0 /\ next_task.token = query /\ Fresh
    /\ \A c \in counters : c.token > 0 /\ c.token <= query
    /\ \A s \in Waiting : s.token > 0 /\ s.token <= query
    /\ Active => worker.q = query
    /\ \A c \in cache : c.q = query
    /\ query = 0 => rowCount = 0 /\ available = "Unknown"

\* No range begins after the end of its query.
Ranges ==
    /\ ui.pc \in {"trigger", "queue"} => ui.b <= Rows[life] /\ ui.b <= ui.e
    /\ \A t \in {current_task, next_task} :
           t # NoTask => /\ t.row_begin <= t.row_end
                         /\ t.row_begin <= Rows[query]
    /\ Active => /\ current_task.row_begin <= worker.row
                 /\ worker.row <= current_task.row_end
                 /\ worker.row <= Rows[query]
    /\ worker.pc = "row" => /\ worker.row < current_task.row_end
                            /\ worker.row < Rows[query]
    /\ ui.pc = "events" => ui.i <= Rows[life] + HalfChunk
    /\ \A c \in cache : c.row < Rows[query]

\* The first chunk begins at row 0 and is read by one task, which nothing but
\* the user and the next query can cut short.
First ==
    /\ worker.pc \in {"step", "row", "first", "count", "assign"} =>
           query \notin Broken
    /\ worker.pc \in {"count", "assign", "fetched"} => FirstRead
    /\ worker.pc = "loop" /\ current_task # NoTask => FirstRead
    /\ ui.op = "query" /\ ui.pc \in {"trigger", "queue"} =>
           ui.b = 0 /\ current_task = NoTask /\ next_task = NoTask
    /\ ui.op = "scroll" => FirstRead
    /\ ui.op = "complete" /\ ui.pc \in {"events", "trigger", "queue"} =>
           FirstRead
    /\ \A c \in counters : c.token = query => FirstRead
    /\ ~next_task.cancel
    /\ ~FirstRead => current_task.row_begin = 0 /\ next_task.row_begin = 0
    /\ ~FirstRead /\ Fresh =>
           /\ rowCount = 0
           /\ \A s \in Waiting : s.token = query => s.kind = "error"
           /\ ui.op # "query" /\ life > 0 =>
                  current_task # NoTask \/ next_task # NoTask
           /\ ~current_task.cancel
           /\ worker.pc \in {"step", "row"} => worker.result = "ok" \/ aborted
           /\ worker.pc = "first" =>
                  \/ worker.row = current_task.row_end
                  \/ worker.row = Rows[query]
                  \/ aborted

\* What is counted or read is right for the query it is of.
Totals ==
    /\ \A c \in counters :
           c.pc = "count" /\ c.token = query => c.rows = Rows[query]
    /\ \A s \in Waiting : s.token = query /\ s.kind # "error" =>
           /\ s.e <= Rows[query]
           /\ Fresh /\ ~aborted /\ s.kind = "count" => s.e = Rows[query]
    /\ Fresh /\ life > 0 =>
           /\ rowCount <= Rows[life]
           /\ available = "Complete" /\ ~aborted => realRowCount = Rows[life]

\* The inductive invariant.
IInv == Types /\ Tasks /\ Tokens /\ Ranges /\ First /\ Totals

---------------------------------------------------------------------------
(* The queue of signals. *)

\* A signal that is emitted waits after the others.
LEMMA Emitted ==
    ASSUME signals \in Seq(SignalType), NEW s \in SignalType, Emit(s)
    PROVE  /\ signals' \in Seq(SignalType)
           /\ Waiting' = Waiting \cup {s}
<1>1. /\ signals' \in Seq(SignalType)
      /\ Len(signals) \in Nat /\ Len(signals') = Len(signals) + 1
      /\ \A i \in 1..Len(signals) : signals'[i] = signals[i]
      /\ signals'[Len(signals) + 1] = s
    BY AppendProperties, LenProperties DEF Emit
<1>2. Waiting' \subseteq Waiting \cup {s}
    BY <1>1 DEF Waiting
<1>3. ASSUME NEW i \in 1..Len(signals) PROVE signals[i] \in Waiting'
    BY <1>1 DEF Waiting
<1>4. s \in Waiting'
    BY <1>1 DEF Waiting
<1> QED
    BY <1>1, <1>2, <1>3, <1>4 DEF Waiting

\* The signal that is handled was waiting, and the others still are.
LEMMA Handled ==
    ASSUME signals \in Seq(SignalType), signals # << >>,
           signals' = Tail(signals)
    PROVE  /\ signals' \in Seq(SignalType)
           /\ Waiting' \subseteq Waiting
           /\ Head(signals) \in Waiting
           /\ Head(signals) \in SignalType
<1>1. /\ signals' \in Seq(SignalType) /\ Head(signals) \in SignalType
      /\ Len(signals) \in Nat /\ Len(signals) > 0
      /\ Len(signals') = Len(signals) - 1
      /\ \A i \in 1..Len(signals') : signals'[i] = signals[i + 1]
      /\ Head(signals) = signals[1]
    BY HeadTailProperties, LenProperties, EmptySeq
<1> QED
    BY <1>1 DEF Waiting

\* A signal carries what it was made with.
LEMMA SignalTyped ==
    ASSUME NEW kind \in {"error", "count", "fetched"},
           NEW token \in Nat, NEW b \in Nat, NEW e \in Nat
    PROVE  /\ Signal(kind, token, b, e) \in SignalType
           /\ Signal(kind, token, b, e).kind = kind
           /\ Signal(kind, token, b, e).token = token
           /\ Signal(kind, token, b, e).e = e
BY DEF Signal, SignalType

---------------------------------------------------------------------------
(* The range to load. *)

\* Half a block is at least two rows.
LEMMA HalfChunkType == HalfChunk \in Nat /\ HalfChunk >= 2
<1>1. ChunkSize \in Nat /\ ChunkSize >= 4
    BY RowLoaderAssumption
<1> QED
    BY <1>1 DEF HalfChunk

\* The range to load holds every row that is missing, and begins with one.
LEMMA MissingRange ==
    ASSUME NEW b \in Nat, NEW e \in Int
    PROVE  LET r == SmallestNonAvailable(b, e)
           IN  /\ r[1] \in Nat /\ r[2] \in Nat
               /\ r[1] # r[2] =>
                      /\ r[1] <= r[2]
                      /\ \A x \in Nat : x >= b /\ ~InCache(x) => r[1] <= x
               /\ \A x \in Nat : b <= x /\ x < e /\ ~InCache(x) =>
                      r[1] <= x /\ x < r[2]
<1> DEFINE missing == {r \in b..e : r < e /\ ~InCache(r)}
           low == CHOOSE r \in missing : \A s \in missing : r <= s
           high == CHOOSE r \in missing : \A s \in missing : r >= s
<1>1. CASE missing = {}
    BY <1>1 DEF SmallestNonAvailable
<1>2. CASE missing # {}
  <2>1. missing \in SUBSET Nat /\ \A x \in missing : x <= e
      OBVIOUS
  <2>2. e \in Nat
      BY <1>2
  <2>3. low \in missing /\ \A s \in missing : low <= s
    <3>1. \E r \in missing : \A s \in missing : r <= s
      <4> HIDE DEF missing
      <4>1. PICK r \in missing : \A s \in missing : ~ (s < r)
          BY <1>2, <2>1, LeastNatural
      <4>2. \A s \in missing : r <= s
          BY <2>1, <4>1
      <4> QED
          BY <4>2
    <3> HIDE DEF missing
    <3> QED
        BY <3>1
  <2>4. high \in missing /\ \A s \in missing : high >= s
    <3>1. \E r \in missing : \A s \in missing : s <= r
      <4> HIDE DEF missing
      <4> QED
          BY <1>2, <2>1, <2>2, GreatestNatural
    <3>2. \E r \in missing : \A s \in missing : r >= s
        BY <2>1, <3>1
    <3> HIDE DEF missing
    <3> QED
        BY <3>2
  <2>5. SmallestNonAvailable(b, e) = <<low, 1 + high>>
      BY <1>2 DEF SmallestNonAvailable
  <2>6. low \in Nat /\ high \in Nat /\ low <= high
    <3> HIDE DEF missing, low, high
    <3> QED
        BY <2>1, <2>3, <2>4
  <2>7. ASSUME NEW x \in Nat, x >= b, ~InCache(x) PROVE low <= x
    <3>1. CASE x < e
      <4>1. x \in missing
          BY <2>2, <2>7, <3>1
      <4> HIDE DEF missing, low
      <4> QED
          BY <2>3, <4>1
    <3>2. CASE ~(x < e)
      <4>1. low <= e
          BY <2>1, <2>3
      <4> HIDE DEF missing, low
      <4> QED
          BY <2>2, <2>6, <3>2, <4>1
    <3> QED
        BY <3>1, <3>2
  <2>8. ASSUME NEW x \in Nat, b <= x, x < e, ~InCache(x)
        PROVE  low <= x /\ x < 1 + high
    <3>1. x \in missing
        BY <2>2, <2>8
    <3> HIDE DEF missing, low, high
    <3> QED
        BY <2>3, <2>4, <2>6, <3>1
  <2> HIDE DEF low, high, missing
  <2> QED
      BY <2>5, <2>6, <2>7, <2>8
<1> QED
    BY <1>1, <1>2

\* The range loaded around a row begins no later than the first missing row
\* within half a block of it.
LEMMA LoadRangeProperties ==
    ASSUME NEW row \in Nat, rowCount \in Nat
    PROVE  LET r == LoadRange(row)
           IN  /\ r[1] \in Nat /\ r[2] \in Nat
               /\ r[1] # r[2] =>
                      /\ r[1] <= r[2]
                      /\ \A x \in Nat : row <= x + HalfChunk /\ ~InCache(x)
                             => r[1] <= x
<1> DEFINE b == Larger(0, row - HalfChunk)
           e == IF available = "Complete"
                THEN Smaller(row + HalfChunk, rowCount) ELSE row + HalfChunk
<1>1. b \in Nat /\ e \in Int
    BY HalfChunkType DEF Larger, Smaller
<1>2. \A x \in Nat : row <= x + HalfChunk => x >= b
    BY HalfChunkType DEF Larger
<1>3. LoadRange(row) = SmallestNonAvailable(b, e)
    BY DEF LoadRange
<1> HIDE DEF b, e
<1> QED
    BY <1>1, <1>2, <1>3, MissingRange

---------------------------------------------------------------------------
(* An interrupt: every read and every count that runs fails. *)

\* An interrupt changes the results of the worker and the counters, and nothing
\* else of them.
LEMMA Interrupted ==
    ASSUME worker \in WorkerType, counters \in SUBSET CounterType,
           IsFiniteSet(counters),
           \A c, d \in counters : c.id = d.id => c = d,
           Interrupt \/ NoInterrupt
    PROVE  /\ worker' \in WorkerType
           /\ worker'.pc = worker.pc /\ worker'.q = worker.q
           /\ worker'.row = worker.row
           /\ worker.pc \notin {"step", "row"} => worker' = worker
           /\ counters' \in SUBSET CounterType
           /\ IsFiniteSet(counters')
           /\ Cardinality(counters') = Cardinality(counters)
           /\ \A c, d \in counters' : c.id = d.id => c = d
           /\ \A d \in counters' : \E c \in counters :
                  /\ d.id = c.id /\ d.token = c.token /\ d.rows = c.rows
                  /\ d.pc = c.pc \/ d.pc = "failed"
<1>1. CASE NoInterrupt
    BY <1>1 DEF NoInterrupt
<1>2. CASE Interrupt
  <2> DEFINE f == [c \in counters |-> IF c.pc = "count"
                                      THEN [c EXCEPT !.pc = "failed"] ELSE c]
  <2>1. /\ worker' \in WorkerType
        /\ worker'.pc = worker.pc /\ worker'.q = worker.q
        /\ worker'.row = worker.row
        /\ worker.pc \notin {"step", "row"} => worker' = worker
      BY <1>2 DEF Interrupt, WorkerType
  <2>2. counters' = {f[c] : c \in counters}
      BY <1>2 DEF Interrupt
  <2>3. \A c \in counters :
           /\ f[c] \in CounterType
           /\ f[c].id = c.id /\ f[c].token = c.token /\ f[c].rows = c.rows
           /\ f[c].pc = c.pc \/ f[c].pc = "failed"
      BY DEF CounterType
  <2> HIDE DEF f
  <2>4. f \in [counters -> counters']
      BY <2>2 DEF f
  <2>5. f \in Injection(counters, counters')
      BY <2>3, <2>4, Fun_IsInj
  <2>6. f \in Surjection(counters, counters')
      BY <2>2, <2>4, Fun_IsSurj
  <2>7. /\ IsFiniteSet(counters')
        /\ Cardinality(counters') = Cardinality(counters)
      BY <2>5, <2>6, FS_Surjection
  <2> QED
      BY <2>1, <2>2, <2>3, <2>7
<1> QED
    BY <1>1, <1>2

---------------------------------------------------------------------------
(* Types. *)

\* Every life has a number of rows.
LEMMA LivesType == Len(Rows) \in Nat /\ Lives = 1..Len(Rows)
                   /\ \A q \in Lives : Rows[q] \in Nat
BY RowLoaderAssumption, LenProperties, ElementOfSeq DEF Lives

\* A cancelled task is still that task, and a new one is of the present life.
LEMMA TaskTyped ==
    /\ NoTask \in TaskType
    /\ \A t \in TaskType :
           /\ Cancelled(t) \in TaskType
           /\ Cancelled(t).token = t.token
           /\ Cancelled(t).row_begin = t.row_begin
           /\ Cancelled(t).row_end = t.row_end
           /\ Cancelled(t) = NoTask <=> t = NoTask
    /\ \A b, e \in Nat : life \in 0..Len(Rows) =>
           /\ Task(life, b, e) \in TaskType
           /\ Task(life, b, e).token = life
           /\ Task(life, b, e).row_begin = b
           /\ Task(life, b, e).row_end = e
           /\ ~Task(life, b, e).cancel
           /\ Task(life, b, e) = NoTask => life = 0
<1>1. Len(Rows) \in Nat
    BY LivesType
<1>2. NoTask \in TaskType
    BY <1>1 DEF NoTask, TaskType
<1>3. ASSUME NEW t \in TaskType
      PROVE  /\ Cancelled(t) \in TaskType
             /\ Cancelled(t).token = t.token
             /\ Cancelled(t).row_begin = t.row_begin
             /\ Cancelled(t).row_end = t.row_end
             /\ Cancelled(t) = NoTask <=> t = NoTask
  <2>1. CASE t = NoTask
      BY <1>2, <2>1 DEF Cancelled
  <2>2. CASE t # NoTask
    <3>1. Cancelled(t) = [t EXCEPT !.cancel = TRUE]
        BY <2>2 DEF Cancelled
    <3>2. [t EXCEPT !.cancel = TRUE].cancel # NoTask.cancel
        BY DEF TaskType, NoTask
    <3>3. Cancelled(t) # NoTask
        BY <3>1, <3>2
    <3>4. /\ Cancelled(t) \in TaskType
          /\ Cancelled(t).token = t.token
          /\ Cancelled(t).row_begin = t.row_begin
          /\ Cancelled(t).row_end = t.row_end
        BY <3>1 DEF TaskType
    <3> QED
        BY <2>2, <3>3, <3>4
  <2> QED
      BY <2>1, <2>2
<1>4. ASSUME NEW b \in Nat, NEW e \in Nat, life \in 0..Len(Rows)
      PROVE  /\ Task(life, b, e) \in TaskType
             /\ Task(life, b, e).token = life
             /\ Task(life, b, e).row_begin = b
             /\ Task(life, b, e).row_end = e
             /\ ~Task(life, b, e).cancel
             /\ Task(life, b, e) = NoTask => life = 0
    BY <1>4 DEF Task, TaskType, NoTask
<1> QED
    BY <1>2, <1>3, <1>4

\* When n tasks are done there are n fewer.
LEMMA TasksDoneTyped ==
    ASSUME Types, NEW n \in Nat, n <= num_tasks, TasksDone(n)
    PROVE  /\ num_tasks' \in Nat /\ num_tasks' = num_tasks - n
           /\ pDb' \in BOOLEAN
           /\ dbUser' \in {"none", "loader", "other"}
BY DEF TasksDone, Types, TypeOK

\* A signal that is handled and not dropped is of the present life.
LEMMA HandledModel ==
    ASSUME Types, HandleSignal
    PROVE  /\ ui.op \in {"none", "complete"}
           /\ ui.pc \in {"idle", "events"}
           /\ signals' \in Seq(SignalType) /\ Waiting' \subseteq Waiting
           /\ life' = life
           /\ \/ UNCHANGED model
              \/ \E s \in Waiting :
                     /\ s \in SignalType /\ s.token >= life
                     /\ s.kind # "error"
                     /\ rowCount' \in Nat
                     /\ rowCount' = rowCount \/ rowCount' <= s.e
                     /\ realRowCount' = IF s.kind = "count" THEN s.e
                                        ELSE realRowCount
                     /\ available' = IF \/ s.kind = "count"
                                        \/ available = "Complete"
                                     THEN "Complete" ELSE "Partial"
<1> DEFINE s == Head(signals)
<1>1. /\ signals' \in Seq(SignalType) /\ Waiting' \subseteq Waiting
      /\ s \in Waiting /\ s \in SignalType
    BY Handled DEF HandleSignal, Types
<1>2. /\ ui.op \in {"none", "complete"} /\ ui.pc \in {"idle", "events"}
      /\ life' = life
    BY DEF HandleSignal, Types, model
<1>3. CASE UNCHANGED model
    BY <1>1, <1>2, <1>3
<1>4. CASE ~ UNCHANGED model
  <2>1. /\ ~Late(s) /\ s.kind # "error"
        /\ rowCount' = Larger(rowCount, IF s.kind = "count"
                                        THEN Smaller(s.e, RowsLimit) ELSE s.e)
        /\ realRowCount' = IF s.kind = "count" THEN s.e ELSE realRowCount
        /\ available' = IF s.kind = "count" \/ available = "Complete"
                        THEN "Complete" ELSE "Partial"
      BY <1>4 DEF HandleSignal
  <2>2. s.token >= life /\ s.e \in Nat /\ rowCount \in Nat /\ RowsLimit \in Nat
      BY <1>1, <2>1, RowLoaderAssumption DEF Late, SignalType, Types, TypeOK
  <2>3. rowCount' \in Nat /\ (rowCount' = rowCount \/ rowCount' <= s.e)
    <3> HIDE DEF s
    <3> QED
        BY <2>1, <2>2 DEF Larger, Smaller
  <2> QED
      BY <1>1, <1>2, <2>1, <2>2, <2>3
<1> QED
    BY <1>3, <1>4

\* Each task and each counter is counted.
LEMMA TaskCount ==
    ASSUME Types, Tasks
    PROVE  /\ Cardinality(counters) \in Nat
           /\ current_task # NoTask => num_tasks >= 1
           /\ next_task # NoTask => num_tasks >= 1
           /\ \A c \in counters : num_tasks >= 1
<1>1. Cardinality(counters) \in Nat
    BY FS_CardinalityType DEF Tasks
<1>2. \A c \in counters : Cardinality(counters) # 0
    BY FS_EmptySet DEF Tasks
<1> QED
    BY <1>1, <1>2 DEF Tasks, TasksHoldDb, Number

\* The states of the user interface.
LEMMA UiTyped ==
    ASSUME Types, NEW pc, NEW op, NEW i \in Nat, NEW fut \in 0..started,
           NEW b \in Nat, NEW e \in Nat,
           pc \in {"idle", "future", "wait", "trigger", "queue", "events"},
           op \in {"none", "query", "scroll", "complete"}
    PROVE  /\ UiAt(pc, op, i, fut, b, e) \in UiType
           /\ UiAt(pc, op, i, fut, b, e).pc = pc
           /\ UiAt(pc, op, i, fut, b, e).op = op
           /\ UiAt(pc, op, i, fut, b, e).i = i
           /\ UiAt(pc, op, i, fut, b, e).b = b
           /\ UiAt(pc, op, i, fut, b, e).e = e
           /\ UiIdle \in UiType /\ UiIdle.pc = "idle" /\ UiIdle.op = "none"
           /\ op # "none" => UiAt(pc, op, i, fut, b, e) # UiIdle
<1>1. 0 \in 0..started
    BY DEF Types
<1> QED
    BY <1>1 DEF UiAt, UiIdle, UiType

\* The user interface has gone to pc.
UiStays(pc) ==
    /\ ui' \in UiType
    /\ ui'.op = ui.op /\ ui'.pc = pc
    /\ ui'.i = ui.i /\ ui'.b = ui.b /\ ui'.e = ui.e

\* The main thread goes on in the method it is in.
LEMMA UiGoesOn ==
    ASSUME Types, started' = started, NEW pc,
           pc \in {"idle", "future", "wait", "trigger", "queue", "events"},
           ui.op # "none", ui' = [ui EXCEPT !.pc = pc]
    PROVE  /\ UiStays(pc)
           /\ ui' \in UiType' /\ ui' # UiIdle
<1>1. ui \in UiType
    BY DEF Types
<1> QED
    BY <1>1 DEF UiType, UiStays, UiIdle, UiAt

\* The conjuncts of Types that are about the user interface.
UiTypes ==
    /\ ui \in UiType
    /\ ui.op = "none" <=> ui = UiIdle
    /\ ui.op = "none" <=> ui.pc = "idle"
    /\ ui.op = "scroll" => ui.pc \in {"trigger", "queue"}
    /\ ui.pc = "events" => ui.op = "complete"

\* The main thread keeps its types.
LEMMA UiTypesKept ==
    ASSUME Types, Tasks, [Next]_vars
    PROVE  UiTypes'
<1> USE DEF UiTypes
<1>1. CASE UNCHANGED ui
  <2>1. started' = started \/ started' = started + 1
    <3>1. CASE StartCounter
        BY <3>1 DEF StartCounter
    <3>2. CASE ~StartCounter
        BY <1>1, <3>2 DEF Next, vars, NewQuery, Scroll, CompleteCache, UiWaits,
           WaitForFuture, ClearAndSetQuery, TriggerInterrupt, TriggerFetch,
           CompleteLoop, CompleteLoad, CompleteReturn, HandleSignal,
           WorkerNext, TaskEnd, TakeTask, ReadRow, WriteRow, ReadEnd,
           FirstChunk, AssignFuture, EmitFetched, CounterNext, CountStart,
           CountEnd, CountDone, OtherGets, OtherReleases, OtherInterrupts
    <3> QED
        BY <3>1, <3>2
  <2>2. ui' \in UiType'
      BY <1>1, <2>1 DEF UiType, Types
  <2> QED
      BY <1>1, <2>2 DEF Types
<1>2. CASE NewQuery
  <2>1. started' = started /\ row_counter \in 0..started
      BY <1>2 DEF NewQuery, Types, TypeOK
  <2>2. UiType' = UiType
      BY <2>1 DEF UiType
  <2>3. ui' = UiAt("future", "query", 0, row_counter, 0, 0)
      BY <1>2 DEF NewQuery
  <2> QED
      BY <2>1, <2>2, <2>3, UiTyped
<1>3. CASE Scroll
  <2>1. PICK row \in 0..(rowCount - 1) :
            LET r == LoadRange(row)
            IN  /\ r[1] # r[2]
                /\ ui' = UiAt("trigger", "scroll", 0, 0, r[1], r[2])
      BY <1>3 DEF Scroll
  <2>2. row \in Nat /\ rowCount \in Nat /\ 0 \in 0..started
      BY DEF Types, TypeOK
  <2>3. UiType' = UiType
      BY <1>3 DEF Scroll, UiType
  <2> QED
      BY <2>1, <2>2, <2>3, LoadRangeProperties, UiTyped
<1>4. CASE CompleteCache
  <2>1. started' = started /\ row_counter \in 0..started
      BY <1>4 DEF CompleteCache, Types, TypeOK
  <2>2. UiType' = UiType
      BY <2>1 DEF UiType
  <2>3. ui' = UiAt("future", "complete", 0, row_counter, 0, 0)
      BY <1>4 DEF CompleteCache
  <2> QED
      BY <2>1, <2>2, <2>3, UiTyped
<1>5. CASE WaitForFuture \/ CompleteLoop \/ TriggerInterrupt
  <2>1. /\ started' = started /\ ui.op # "none"
        /\ \/ ui.pc = "future" /\ ui' = [ui EXCEPT !.pc = "wait"]
           \/ ui.op = "complete" /\ ui' = [ui EXCEPT !.pc = "events"]
           \/ ui.pc = "trigger" /\ ui' = [ui EXCEPT !.pc = "queue"]
      BY <1>5 DEF WaitForFuture, CompleteLoop, TriggerInterrupt, Types
  <2> QED
      BY <2>1, UiGoesOn DEF UiStays, Types
<1>6. CASE ClearAndSetQuery
  <2>1. started' = started /\ 0 \in 0..started
      BY <1>6 DEF ClearAndSetQuery, Types
  <2>2. UiType' = UiType
      BY <2>1 DEF UiType
  <2>3. ui' = UiAt("trigger", "query", 0, 0, 0, 2 * HalfChunk - 1)
      BY <1>6 DEF ClearAndSetQuery
  <2>4. 2 * HalfChunk - 1 \in Nat
      BY HalfChunkType
  <2> QED
      BY <2>1, <2>2, <2>3, <2>4, UiTyped
<1>7. CASE TriggerFetch
  <2>1. started' = started /\ row_counter \in 0..started
      BY <1>7 DEF TriggerFetch, Types, TypeOK
  <2>2. UiType' = UiType
      BY <2>1 DEF UiType
  <2>3. \/ ui' = UiAt("future", "complete", ui.i + ChunkSize, row_counter, 0, 0)
        \/ ui' = UiIdle
      BY <1>7 DEF TriggerFetch
  <2>4. ui.i + ChunkSize \in Nat
      BY RowLoaderAssumption DEF Types, UiType
  <2> QED
      BY <2>1, <2>2, <2>3, <2>4, UiTyped
<1>8. CASE CompleteLoad
  <2>1. /\ started' = started /\ row_counter \in 0..started
        /\ 0 \in 0..started /\ rowCount \in Nat
      BY <1>8 DEF CompleteLoad, Types, TypeOK
  <2>2. UiType' = UiType
      BY <2>1 DEF UiType
  <2>3. ui.i \in Nat /\ ui.i + ChunkSize \in Nat
      BY RowLoaderAssumption DEF Types, UiType
  <2>4. LET r == LoadRange(ui.i)
        IN  \/ ui' = UiAt("trigger", "complete", ui.i, 0, r[1], r[2])
            \/ ui' = UiAt("future", "complete", ui.i + ChunkSize, row_counter,
                          0, 0)
      BY <1>8 DEF CompleteLoad
  <2> QED
      BY <2>1, <2>2, <2>3, <2>4, LoadRangeProperties, UiTyped
<1>9. CASE CompleteReturn
  <2>1. ui' = UiIdle /\ UiType' = UiType /\ 0 \in 0..started
      BY <1>9 DEF CompleteReturn, UiType, Types
  <2> QED
      BY <2>1, UiTyped
<1> QED
    BY <1>1, <1>2, <1>3, <1>4, <1>5, <1>6, <1>7, <1>8, <1>9
    DEF Next, vars, UiWaits, HandleSignal, WorkerNext, TaskEnd, TakeTask,
        ReadRow, WriteRow, ReadEnd, FirstChunk, StartCounter, AssignFuture,
        EmitFetched, CounterNext, CountStart, CountEnd, CountDone, OtherGets,
        OtherReleases, OtherInterrupts

\* The other conjuncts of Types.
OtherTypes ==
    /\ TypeOK
    /\ started \in Nat
    /\ worker \in WorkerType
    /\ counters \in SUBSET CounterType
    /\ signals \in Seq(SignalType)
    /\ cache \in SUBSET [row : Nat, q : 0..Len(Rows)]

WorkerPlaces == {"loop", "idle", "step", "row", "first", "count", "assign",
                 "fetched"}

\* The worker has gone to pc.
WorkerStays(pc) ==
    /\ worker' \in WorkerType
    /\ worker'.pc = pc /\ worker'.q = worker.q /\ worker'.row = worker.row
    /\ worker'.result = worker.result

\* The worker goes on with its task.
LEMMA WorkerGoesOn ==
    ASSUME worker \in WorkerType, NEW pc \in WorkerPlaces,
           worker' = [worker EXCEPT !.pc = pc]
    PROVE  WorkerStays(pc)
BY DEF WorkerStays, WorkerType, WorkerPlaces

\* What the worker is when it begins something.
LEMMA WorkerTyped ==
    ASSUME NEW pc \in WorkerPlaces, NEW q \in 0..Len(Rows), NEW row \in Nat,
           worker' = WorkerAt(pc, q, row, "ok")
    PROVE  /\ worker' \in WorkerType
           /\ worker'.pc = pc /\ worker'.q = q /\ worker'.row = row
           /\ worker'.result = "ok"
BY DEF WorkerAt, WorkerType, WorkerPlaces

\* A row is written and the worker looks for the next one.
LEMMA WorkerWrites ==
    ASSUME Types, WriteRow
    PROVE  /\ worker' \in WorkerType
           /\ worker'.pc = "step" /\ worker'.q = worker.q
           /\ worker'.row = worker.row + 1
           /\ worker'.result = worker.result
           /\ cache' = {c \in cache : c.row # worker.row}
                           \cup {[row |-> worker.row, q |-> worker.q]}
           /\ [row |-> worker.row, q |-> worker.q]
                  \in [row : Nat, q : 0..Len(Rows)]
<1>1. worker \in WorkerType
    BY DEF Types
<1>2. worker' = [worker EXCEPT !.pc = "step", !.row = @ + 1]
    BY DEF WriteRow
<1>3. worker.row + 1 \in Nat
    BY <1>1 DEF WorkerType
<1>4. ASSUME NEW n \in Nat, worker' = [worker EXCEPT !.pc = "step", !.row = n]
      PROVE  /\ worker' \in WorkerType
             /\ worker'.pc = "step" /\ worker'.q = worker.q
             /\ worker'.row = n
             /\ worker'.result = worker.result
    BY <1>1, <1>4 DEF WorkerType
<1> QED
    BY <1>1, <1>2, <1>3, <1>4 DEF WriteRow, WorkerType

\* The numbers in the state are natural numbers.
LEMMA Fields ==
    ASSUME Types
    PROVE  /\ \A t \in {current_task, next_task} :
                  t.token \in Nat /\ t.row_begin \in Nat /\ t.row_end \in Nat
           /\ worker.row \in Nat /\ worker.q \in 0..Len(Rows)
           /\ ui.i \in Nat /\ ui.b \in Nat /\ ui.e \in Nat
           /\ life \in Nat /\ query \in Nat /\ rowCount \in Nat
           /\ \A c \in counters :
                  c.id \in Nat /\ c.token \in Nat /\ c.rows \in Nat
           /\ \A s \in Waiting : s.token \in Nat /\ s.e \in Nat
           /\ \A c \in cache : c.row \in Nat
<1>1. Len(Rows) \in Nat
    BY LivesType
<1>2. \A t \in {current_task, next_task} :
         t.token \in Nat /\ t.row_begin \in Nat /\ t.row_end \in Nat
    BY <1>1 DEF Types, TypeOK, TaskType
<1>3. \A s \in Waiting : s.token \in Nat /\ s.e \in Nat
  <2>1. \A i \in 1..Len(signals) : signals[i] \in SignalType
      BY ElementOfSeq DEF Types
  <2> QED
      BY <2>1 DEF Waiting, SignalType
<1>4. \A c \in counters : c.id \in Nat /\ c.token \in Nat /\ c.rows \in Nat
    BY DEF Types, CounterType
<1> QED
    BY <1>1, <1>2, <1>3, <1>4 DEF Types, TypeOK, WorkerType, UiType

\* The model at most handles a signal or is set up for a query.
LEMMA ModelTyped ==
    ASSUME Types, [Next]_vars
    PROVE  /\ life' \in 0..Len(Rows)
           /\ available' \in {"Unknown", "Partial", "Complete"}
           /\ rowCount' \in Nat /\ realRowCount' \in Nat
<1> USE DEF model
<1>0. /\ life \in 0..Len(Rows) /\ Len(Rows) \in Nat
      /\ available \in {"Unknown", "Partial", "Complete"}
      /\ rowCount \in Nat /\ realRowCount \in Nat
    BY LivesType DEF Types, TypeOK
<1>1. CASE HandleSignal
    BY <1>0, <1>1, HandledModel DEF SignalType
<1>2. CASE NewQuery
    BY <1>0, <1>2, LivesType DEF NewQuery
<1>3. CASE ClearAndSetQuery
    BY <1>0, <1>3 DEF ClearAndSetQuery
<1>4. CASE UNCHANGED model
    BY <1>0, <1>4
<1> QED
    BY <1>1, <1>2, <1>3, <1>4 DEF Next, vars, Scroll, CompleteCache, UiWaits,
       WaitForFuture, TriggerInterrupt, TriggerFetch, CompleteLoop,
       CompleteLoad, CompleteReturn, WorkerNext, TaskEnd, TakeTask, ReadRow,
       WriteRow, ReadEnd, FirstChunk, StartCounter, AssignFuture, EmitFetched,
       CounterNext, CountStart, CountEnd, CountDone, OtherGets, OtherReleases,
       OtherInterrupts

\* The loader, the counters and the signals keep their types.
LEMMA OtherTypesKept ==
    ASSUME Types, Tasks, Tokens, Ranges, [Next]_vars
    PROVE  OtherTypes'
<1> USE DEF model, loader, OtherTypes, TypeOK
<1>0. /\ life' \in 0..Len(Rows)
      /\ available' \in {"Unknown", "Partial", "Complete"}
      /\ rowCount' \in Nat /\ realRowCount' \in Nat
      /\ Len(Rows) \in Nat /\ OtherTypes
    BY ModelTyped, LivesType DEF Types
<1>1. CASE NewQuery
  <2>1. worker' \in WorkerType /\ counters' \in SUBSET CounterType
      BY <1>1, Interrupted DEF NewQuery, Tasks, Types
  <2>2. PICK n \in {0, 1} : n <= num_tasks /\ TasksDone(n)
      BY <1>0, <1>1, TaskCount DEF NewQuery
  <2>3. /\ num_tasks' \in Nat /\ pDb' \in BOOLEAN
        /\ dbUser' \in {"none", "loader", "other"}
      BY <2>2, TasksDoneTyped
  <2>4. current_task' \in TaskType /\ next_task' \in TaskType
      BY <1>0, <1>1, TaskTyped DEF NewQuery
  <2> QED
      BY <1>0, <1>1, <2>1, <2>3, <2>4 DEF NewQuery
<1>2. CASE Scroll \/ CompleteCache \/ WaitForFuture \/ CompleteLoop
           \/ CompleteLoad \/ CompleteReturn
    BY <1>0, <1>2 DEF Scroll, CompleteCache, WaitForFuture, CompleteLoop,
       CompleteLoad, CompleteReturn
<1>3. CASE ClearAndSetQuery
    BY <1>0, <1>3 DEF ClearAndSetQuery
<1>4. CASE TriggerInterrupt
  <2>1. worker' \in WorkerType /\ counters' \in SUBSET CounterType
      BY <1>4, Interrupted DEF TriggerInterrupt, Tasks, Types
  <2> QED
      BY <1>0, <1>4, <2>1 DEF TriggerInterrupt
<1>5. CASE TriggerFetch
  <2>1. current_task' \in TaskType /\ next_task' \in TaskType
      BY <1>0, <1>5, TaskTyped DEF TriggerFetch, Types, UiType
  <2> QED
      BY <1>0, <1>5, <2>1 DEF TriggerFetch
<1>6. CASE HandleSignal
    BY <1>0, <1>6, HandledModel DEF HandleSignal, Types
<1>7. CASE TaskEnd
  <2>1. PICK n \in {0, 1} : n <= num_tasks /\ TasksDone(n)
      BY <1>0, <1>7, TaskCount DEF TaskEnd
  <2>2. /\ num_tasks' \in Nat /\ pDb' \in BOOLEAN
        /\ dbUser' \in {"none", "loader", "other"}
      BY <2>1, TasksDoneTyped
  <2>3. current_task' \in TaskType
      BY <1>7, TaskTyped DEF TaskEnd
  <2>4. worker' \in WorkerType
      BY <1>0, <1>7, WorkerTyped DEF TaskEnd, WorkerPlaces
  <2> QED
      BY <1>0, <1>7, <2>2, <2>3, <2>4 DEF TaskEnd
<1>8. CASE TakeTask
  <2>1. /\ current_task' \in TaskType /\ next_task' \in TaskType
        /\ next_task.row_begin \in Nat
      BY <1>0, <1>8, TaskTyped, Fields DEF TakeTask
  <2>2. worker' \in WorkerType
      BY <1>0, <1>8, <2>1, WorkerTyped DEF TakeTask, WorkerPlaces
  <2> QED
      BY <1>0, <1>8, <2>1, <2>2 DEF TakeTask
<1>9. CASE ReadRow
  <2>1. worker' \in WorkerType
      BY <1>0, <1>9, WorkerGoesOn DEF ReadRow, WorkerStays, WorkerPlaces
  <2> QED
      BY <1>0, <1>9, <2>1 DEF ReadRow
<1>10. CASE WriteRow
    BY <1>0, <1>10, WorkerWrites DEF WriteRow
<1>11. CASE ReadEnd
  <2>1. worker' \in WorkerType
      BY <1>0, <1>11, WorkerGoesOn DEF ReadEnd, WorkerStays, WorkerPlaces
  <2>2. Signal("error", current_task.token, 0, 0) \in SignalType
      BY Fields, SignalTyped
  <2>3. signals' \in Seq(SignalType)
      BY <1>0, <1>11, <2>2, Emitted DEF ReadEnd
  <2> QED
      BY <1>0, <1>11, <2>1, <2>3 DEF ReadEnd
<1>12. CASE FirstChunk
  <2>1. worker' \in WorkerType
      BY <1>0, <1>12, WorkerGoesOn DEF FirstChunk, WorkerStays, WorkerPlaces
  <2>2. worker.row - current_task.row_begin \in Nat
      BY <1>12, Fields DEF FirstChunk, Ranges, Active
  <2>3. Signal("count", current_task.token,
               worker.row - current_task.row_begin,
               worker.row - current_task.row_begin) \in SignalType
      BY <2>2, Fields, SignalTyped
  <2>4. signals' \in Seq(SignalType)
      BY <1>0, <1>12, <2>3, Emitted DEF FirstChunk
  <2> QED
      BY <1>0, <1>12, <2>1, <2>4 DEF FirstChunk
<1>13. CASE StartCounter
  <2>1. worker' \in WorkerType
      BY <1>0, <1>13, WorkerGoesOn DEF StartCounter, WorkerStays, WorkerPlaces
  <2>2. [id |-> started + 1, token |-> current_task.token,
         pc |-> "start", rows |-> 0] \in CounterType
      BY <1>0, Fields DEF CounterType
  <2> QED
      BY <1>0, <1>13, <2>1, <2>2 DEF StartCounter
<1>14. CASE AssignFuture
  <2>1. worker' \in WorkerType
      BY <1>0, <1>14, WorkerGoesOn DEF AssignFuture, WorkerStays, WorkerPlaces
  <2> QED
      BY <1>0, <1>14, <2>1 DEF AssignFuture
<1>15. CASE EmitFetched
  <2>1. worker' \in WorkerType
      BY <1>0, <1>15, WorkerGoesOn DEF EmitFetched, WorkerStays, WorkerPlaces
  <2>2. Signal("fetched", current_task.token, current_task.row_begin,
               worker.row) \in SignalType
      BY Fields, SignalTyped
  <2>3. signals' \in Seq(SignalType)
      BY <1>0, <1>15, <2>2, Emitted DEF EmitFetched
  <2> QED
      BY <1>0, <1>15, <2>1, <2>3 DEF EmitFetched
<1>16. ASSUME NEW c \in counters, CounterNext(c) PROVE OtherTypes'
  <2>1. c \in CounterType
      BY <1>0
  <2>2. CASE CountStart(c)
    <3>1. query \in Lives
      <4>1. c.token > 0 /\ c.token <= query /\ c.token \in Nat
          BY <2>1 DEF Tokens, CounterType
      <4> QED
          BY <1>0, <4>1, LivesType
    <3>2. \A pc \in {"failed", "count"} :
             [c EXCEPT !.pc = pc, !.rows = Rows[query]] \in CounterType
        BY <2>1, <3>1, LivesType DEF CounterType
    <3>3. counters' \in SUBSET CounterType
        BY <1>0, <2>2, <3>2 DEF CountStart, Replace
    <3> QED
        BY <1>0, <2>2, <3>3 DEF CountStart
  <2>3. CASE CountEnd(c)
    <3>1. [c EXCEPT !.pc = "done"] \in CounterType
        BY <2>1 DEF CounterType
    <3>2. counters' \in SUBSET CounterType
        BY <1>0, <2>3, <3>1 DEF CountEnd, Replace
    <3>3. c.token \in Nat /\ c.rows \in Nat
        BY <2>1 DEF CounterType
    <3>4. Signal("count", c.token, c.rows, c.rows) \in SignalType
        BY <3>3, SignalTyped
    <3>5. signals' \in Seq(SignalType)
        BY <1>0, <2>3, <3>4, Emitted DEF CountEnd
    <3> QED
        BY <1>0, <2>3, <3>2, <3>5 DEF CountEnd
  <2>4. CASE CountDone(c)
    <3>1. TasksDone(1) /\ 1 <= num_tasks
        BY <2>4, TaskCount DEF CountDone
    <3>2. /\ num_tasks' \in Nat /\ pDb' \in BOOLEAN
          /\ dbUser' \in {"none", "loader", "other"}
        BY <3>1, TasksDoneTyped
    <3> QED
        BY <1>0, <2>4, <3>2 DEF CountDone
  <2> QED
      BY <1>16, <2>2, <2>3, <2>4 DEF CounterNext
<1>17. CASE OtherGets \/ OtherReleases
    BY <1>0, <1>17 DEF OtherGets, OtherReleases
<1>18. CASE OtherInterrupts
  <2>1. worker' \in WorkerType /\ counters' \in SUBSET CounterType
      BY <1>18, Interrupted DEF OtherInterrupts, Tasks, Types
  <2> QED
      BY <1>0, <1>18, <2>1 DEF OtherInterrupts
<1>19. CASE UNCHANGED vars
    BY <1>0, <1>19 DEF vars
<1> QED
    BY <1>1, <1>2, <1>3, <1>4, <1>5, <1>6, <1>7, <1>8, <1>9, <1>10, <1>11,
       <1>12, <1>13, <1>14, <1>15, <1>16, <1>17, <1>18, <1>19
    DEF Next, UiWaits, WorkerNext

\* So all types are kept.
LEMMA TypesKept ==
    ASSUME Types, Tasks, Tokens, Ranges, [Next]_vars
    PROVE  Types'
BY UiTypesKept, OtherTypesKept DEF Types, UiTypes, OtherTypes

---------------------------------------------------------------------------
(* The number of tasks. *)

\* Counters are known by their numbers.
Numbered ==
    /\ IsFiniteSet(counters)
    /\ \A c, d \in counters : c.id = d.id => c = d
    /\ \A c \in counters : c.id <= started

\* What the worker does is in a task.
WorkerHasTask ==
    /\ worker.pc = "idle" => current_task = NoTask
    /\ Active => current_task # NoTask

\* A counter that moves keeps its number, and the others keep theirs.
LEMMA Replaced ==
    ASSUME Types, Numbered, NEW c \in counters, NEW d,
           d.id = c.id, Replace(c, d), started' = started
    PROVE  Numbered' /\ Cardinality(counters') = Cardinality(counters)
<1>1. counters' = (counters \ {c}) \cup {d}
    BY DEF Replace
<1>2. d \notin counters \ {c}
    BY DEF Numbered
<1>3. /\ IsFiniteSet(counters \ {c})
      /\ Cardinality(counters \ {c}) = Cardinality(counters) - 1
      /\ Cardinality(counters) \in Nat
    BY FS_RemoveElement, FS_CardinalityType DEF Numbered
<1>4. /\ IsFiniteSet(counters')
      /\ Cardinality(counters') = Cardinality(counters) - 1 + 1
    BY <1>1, <1>2, <1>3, FS_AddElement
<1>5. Cardinality(counters') = Cardinality(counters)
    BY <1>3, <1>4
<1> QED
    BY <1>1, <1>4, <1>5 DEF Numbered

\* Counters keep numbers of their own, and as many as there are.
LEMMA NumberedKept ==
    ASSUME Types, Tasks, [Next]_vars
    PROVE  /\ Numbered'
           /\ NewQuery \/ TriggerInterrupt \/ OtherInterrupts =>
                  Cardinality(counters') = Cardinality(counters)
           /\ StartCounter =>
                  Cardinality(counters') = Cardinality(counters) + 1
           /\ \A c \in counters :
                  /\ CountStart(c) \/ CountEnd(c) =>
                         Cardinality(counters') = Cardinality(counters)
                  /\ CountDone(c) =>
                         Cardinality(counters') = Cardinality(counters) - 1
<1> USE DEF loader
<1>0. /\ Numbered /\ Cardinality(counters) \in Nat /\ started \in Nat
      /\ counters \in SUBSET CounterType
    BY TaskCount DEF Tasks, Numbered, Types
<1>1. ASSUME NewQuery \/ TriggerInterrupt \/ OtherInterrupts
      PROVE  Numbered' /\ Cardinality(counters') = Cardinality(counters)
  <2>1. (Interrupt \/ NoInterrupt) /\ started' = started
      BY <1>1 DEF NewQuery, TriggerInterrupt, OtherInterrupts
  <2>2. /\ IsFiniteSet(counters')
        /\ Cardinality(counters') = Cardinality(counters)
        /\ \A c, d \in counters' : c.id = d.id => c = d
        /\ \A d \in counters' : \E c \in counters : d.id = c.id
      BY <2>1, Interrupted DEF Tasks, Types
  <2> QED
      BY <1>0, <2>1, <2>2 DEF Numbered
<1>2. ASSUME StartCounter
      PROVE  /\ Numbered'
             /\ Cardinality(counters') = Cardinality(counters) + 1
  <2> DEFINE c == [id |-> started + 1, token |-> current_task.token,
                   pc |-> "start", rows |-> 0]
  <2>1. counters' = counters \cup {c} /\ started' = started + 1
      BY <1>2 DEF StartCounter
  <2>2. c.id = started + 1
      OBVIOUS
  <2> HIDE DEF c
  <2>3. c \notin counters
      BY <1>0, <2>2 DEF Numbered
  <2>4. /\ IsFiniteSet(counters')
        /\ Cardinality(counters') = Cardinality(counters) + 1
      BY <1>0, <2>1, <2>3, FS_AddElement DEF Numbered
  <2>5. \A d \in counters : d.id \in Nat /\ d.id <= started
      BY <1>0 DEF Numbered, CounterType
  <2>6. Numbered'
      BY <1>0, <2>1, <2>2, <2>4, <2>5 DEF Numbered
  <2> QED
      BY <2>4, <2>6
<1>3. ASSUME NEW c \in counters, CountDone(c)
      PROVE  /\ Numbered'
             /\ Cardinality(counters') = Cardinality(counters) - 1
  <2>1. counters' = counters \ {c} /\ started' = started
      BY <1>3 DEF CountDone
  <2> QED
      BY <1>0, <2>1, FS_RemoveElement DEF Numbered
<1>4. ASSUME NEW c \in counters, CountStart(c) \/ CountEnd(c)
      PROVE  Numbered' /\ Cardinality(counters') = Cardinality(counters)
  <2>1. /\ started' = started
        /\ \E d : d.id = c.id /\ Replace(c, d)
    <3>1. c \in CounterType
        BY <1>0
    <3>2. \A pc, rows : /\ [c EXCEPT !.pc = pc].id = c.id
                        /\ [c EXCEPT !.pc = pc, !.rows = rows].id = c.id
        BY <3>1 DEF CounterType
    <3> QED
        BY <1>4, <3>2 DEF CountStart, CountEnd
  <2> QED
      BY <1>0, <2>1, Replaced
<1>5. ASSUME UNCHANGED <<counters, started>>
      PROVE  Numbered'
    BY <1>0, <1>5 DEF Numbered
<1>6. \/ NewQuery \/ TriggerInterrupt \/ OtherInterrupts \/ StartCounter
      \/ \E c \in counters : CountDone(c) \/ CountStart(c) \/ CountEnd(c)
      \/ UNCHANGED <<counters, started>>
    BY DEF Next, vars, Scroll, CompleteCache, UiWaits, WaitForFuture,
       ClearAndSetQuery, TriggerFetch, CompleteLoop, CompleteLoad,
       CompleteReturn, HandleSignal, WorkerNext, TaskEnd, TakeTask, ReadRow,
       WriteRow, ReadEnd, FirstChunk, AssignFuture, EmitFetched, CounterNext,
       OtherGets, OtherReleases
<1> QED
    BY <1>1, <1>2, <1>3, <1>4, <1>5, <1>6

\* The worker works exactly on the present task.
LEMMA WorkerHasTaskKept ==
    ASSUME Types, Tasks, Tokens, [Next]_vars
    PROVE  WorkerHasTask'
<1> USE DEF loader, WorkerHasTask, Active
<1>0. WorkerHasTask /\ worker \in WorkerType
    BY DEF Tasks, Types
<1>1. CASE NewQuery \/ TriggerInterrupt \/ OtherInterrupts \/ TriggerFetch
  <2>1. worker'.pc = worker.pc
      BY <1>1, Interrupted DEF NewQuery, TriggerInterrupt, OtherInterrupts,
         TriggerFetch, Tasks, Types
  <2>2. current_task' = NoTask <=> current_task = NoTask
      BY <1>1, TaskTyped DEF NewQuery, TriggerInterrupt, OtherInterrupts,
         TriggerFetch, Types, TypeOK
  <2> QED
      BY <1>0, <2>1, <2>2
<1>2. CASE TaskEnd
  <2>1. worker'.pc = "idle" /\ current_task' = NoTask
      BY <1>2 DEF TaskEnd, WorkerAt
  <2> QED
      BY <2>1
<1>3. CASE TakeTask
  <2>1. worker'.pc # "idle" /\ current_task' # NoTask
      BY <1>3 DEF TakeTask, WorkerAt
  <2> QED
      BY <2>1
<1>4. CASE ReadRow \/ WriteRow \/ ReadEnd \/ FirstChunk \/ StartCounter
           \/ AssignFuture \/ EmitFetched
  <2>1. worker.pc \notin {"loop", "idle"} /\ current_task' = current_task
      BY <1>4 DEF ReadRow, WriteRow, ReadEnd, FirstChunk, StartCounter,
         AssignFuture, EmitFetched
  <2>2. worker'.pc # "idle"
    <3>1. CASE WriteRow
        BY <3>1, WorkerWrites
    <3>2. CASE ~WriteRow
        BY <1>0, <1>4, <3>2, WorkerGoesOn DEF ReadRow, ReadEnd, FirstChunk,
           StartCounter, AssignFuture, EmitFetched, WorkerStays, WorkerPlaces
    <3> QED
        BY <3>1, <3>2
  <2> QED
      BY <1>0, <2>1, <2>2
<1>5. CASE UNCHANGED <<worker, current_task>>
    BY <1>0, <1>5
<1> QED
    BY <1>1, <1>2, <1>3, <1>4, <1>5 DEF Next, vars, Scroll, CompleteCache,
       UiWaits, WaitForFuture, ClearAndSetQuery, CompleteLoop, CompleteLoad,
       CompleteReturn, HandleSignal, WorkerNext, CounterNext, CountStart,
       CountEnd, CountDone, OtherGets, OtherReleases

\* n tasks less.
LEMMA TasksDoneCounted ==
    ASSUME Types, Tasks, NEW n \in {0, 1}, n <= num_tasks, TasksDone(n)
    PROVE  /\ num_tasks' = num_tasks - n
           /\ pDb' <=> num_tasks' > 0
           /\ pDb' <=> dbUser' = "loader"
<1>1. /\ num_tasks \in Nat /\ pDb \in BOOLEAN
      /\ pDb <=> num_tasks > 0
      /\ pDb <=> dbUser = "loader"
    BY DEF Types, TypeOK, Tasks, TasksHoldDb
<1>2. /\ num_tasks' = num_tasks - n
      /\ pDb' = (pDb /\ num_tasks' # 0)
      /\ dbUser' = IF pDb /\ ~pDb' THEN "none" ELSE dbUser
    BY DEF TasksDone
<1>3. num_tasks' \in Nat /\ (num_tasks' # 0 => num_tasks > 0)
    BY <1>1, <1>2
<1>4. num_tasks' # 0 <=> num_tasks' > 0
    BY <1>3
<1>5. pDb' <=> num_tasks' > 0
    BY <1>1, <1>2, <1>3, <1>4, Zenon
<1>6. pDb' <=> dbUser' = "loader"
  <2>1. CASE pDb /\ ~pDb'
      BY <1>2, <2>1
  <2>2. CASE ~pDb
      BY <1>1, <1>2, <2>2
  <2>3. CASE pDb /\ pDb'
      BY <1>1, <1>2, <2>3
  <2> QED
      BY <2>1, <2>2, <2>3, Zenon
<1> QED
    BY <1>2, <1>5, <1>6

\* The number of tasks stays exact, and the database is held while there are
\* any.
LEMMA TasksHoldDbKept ==
    ASSUME Types, Tasks, Tokens, [Next]_vars
    PROVE  TasksHoldDb'
<1> DEFINE k == Cardinality(counters)
<1> USE DEF loader, TasksHoldDb, Number
<1>0. /\ TasksHoldDb /\ num_tasks \in Nat /\ k \in Nat
      /\ pDb \in BOOLEAN /\ life \in Nat
    BY TaskCount, Fields DEF Tasks, Types, TypeOK
<1>1. CASE NewQuery
  <2>1. k' = k
      BY <1>1, NumberedKept
  <2>2. current_task' = NoTask <=> current_task = NoTask
      BY <1>1, TaskTyped DEF NewQuery, Types, TypeOK
  <2> DEFINE n == IF next_task = NoTask THEN 0 ELSE 1
  <2>3. n \in {0, 1} /\ n <= num_tasks /\ TasksDone(n) /\ next_task' = NoTask
      BY <1>0, <1>1, TaskCount DEF NewQuery
  <2> HIDE DEF k
  <2>4. /\ num_tasks' = num_tasks - n
        /\ pDb' <=> num_tasks' > 0
        /\ pDb' <=> dbUser' = "loader"
      BY <2>3, TasksDoneCounted
  <2> QED
      BY <1>0, <2>1, <2>2, <2>3, <2>4 DEF k
<1>2. CASE TriggerInterrupt \/ OtherInterrupts
  <2>1. k' = k
      BY <1>2, NumberedKept
  <2>2. UNCHANGED <<num_tasks, current_task, next_task, pDb, dbUser>>
      BY <1>2 DEF TriggerInterrupt, OtherInterrupts
  <2> QED
      BY <1>0, <2>1, <2>2
<1>3. CASE TriggerFetch
  <2>1. current_task' = NoTask <=> current_task = NoTask
      BY <1>3, TaskTyped DEF TriggerFetch, Types, TypeOK
  <2>2. next_task' # NoTask
    <3>1. life > 0 /\ life \in 0..Len(Rows)
        BY <1>3 DEF TriggerFetch, Tokens, Types, TypeOK
    <3>2. ui.b \in Nat /\ ui.e \in Nat
        BY Fields
    <3> QED
        BY <1>3, <3>1, <3>2, TaskTyped DEF TriggerFetch
  <2>3. /\ k' = k /\ pDb' /\ dbUser' = "loader"
        /\ num_tasks' = IF next_task = NoTask THEN num_tasks + 1
                        ELSE num_tasks
      BY <1>3 DEF TriggerFetch
  <2> HIDE DEF k
  <2>4. next_task # NoTask => num_tasks > 0
      BY <1>0, TaskCount
  <2> QED
      BY <1>0, <2>1, <2>2, <2>3, <2>4 DEF k
<1>4. CASE TaskEnd
  <2> DEFINE n == IF current_task = NoTask THEN 0 ELSE 1
  <2>1. /\ n \in {0, 1} /\ n <= num_tasks /\ TasksDone(n)
        /\ current_task' = NoTask
        /\ next_task' = next_task /\ k' = k
      BY <1>0, <1>4, TaskCount DEF TaskEnd
  <2> HIDE DEF k
  <2>2. /\ num_tasks' = num_tasks - n
        /\ pDb' <=> num_tasks' > 0
        /\ pDb' <=> dbUser' = "loader"
      BY <2>1, TasksDoneCounted
  <2> QED
      BY <1>0, <2>1, <2>2 DEF k
<1>5. CASE TakeTask
  <2>1. current_task = NoTask
      BY <1>5 DEF TakeTask, Tasks
  <2> QED
      BY <1>0, <1>5, <2>1 DEF TakeTask
<1>6. CASE StartCounter
  <2>1. k' = k + 1
      BY <1>6, NumberedKept
  <2>2. /\ num_tasks' = num_tasks + 1
        /\ UNCHANGED <<current_task, next_task, pDb, dbUser>>
      BY <1>6 DEF StartCounter
  <2>3. num_tasks > 0
      BY <1>0, <1>6, TaskCount DEF StartCounter, Tasks, Active
  <2> HIDE DEF k
  <2> QED
      BY <1>0, <2>1, <2>2, <2>3 DEF k
<1>7. ASSUME NEW c \in counters, CounterNext(c) PROVE TasksHoldDb'
  <2>1. CASE CountStart(c) \/ CountEnd(c)
    <3>1. k' = k
        BY <2>1, NumberedKept
    <3>2. UNCHANGED <<num_tasks, current_task, next_task, pDb, dbUser>>
        BY <2>1 DEF CountStart, CountEnd
    <3> QED
        BY <1>0, <3>1, <3>2
  <2>2. CASE CountDone(c)
    <3>1. k' = k - 1
        BY <2>2, NumberedKept
    <3>2. /\ TasksDone(1) /\ 1 <= num_tasks
          /\ UNCHANGED <<current_task, next_task>>
        BY <2>2, TaskCount DEF CountDone
    <3>3. /\ num_tasks' = num_tasks - 1
          /\ pDb' <=> num_tasks' > 0
          /\ pDb' <=> dbUser' = "loader"
        BY <3>2, TasksDoneCounted
    <3> HIDE DEF k
    <3> QED
        BY <1>0, <3>1, <3>2, <3>3 DEF k
  <2> QED
      BY <1>7, <2>1, <2>2 DEF CounterNext
<1>8. CASE OtherGets \/ OtherReleases
    BY <1>0, <1>8 DEF OtherGets, OtherReleases
<1>9. CASE UNCHANGED <<num_tasks, current_task, next_task, counters, pDb,
                       dbUser>>
    BY <1>0, <1>9
<1> QED
    BY <1>1, <1>2, <1>3, <1>4, <1>5, <1>6, <1>7, <1>8, <1>9 DEF Next, vars,
       Scroll, CompleteCache, UiWaits, WaitForFuture, ClearAndSetQuery,
       CompleteLoop, CompleteLoad, CompleteReturn, HandleSignal, WorkerNext,
       ReadRow, WriteRow, ReadEnd, FirstChunk, AssignFuture, EmitFetched

\* So all parts of Tasks are kept.
LEMMA TasksKept ==
    ASSUME Types, Tasks, Tokens, [Next]_vars
    PROVE  Tasks'
BY NumberedKept, WorkerHasTaskKept, TasksHoldDbKept
DEF Tasks, Numbered, WorkerHasTask

---------------------------------------------------------------------------
(* Queries and lives. *)

LifeTokens ==
    /\ query <= life /\ (Fresh <=> query = life)
    /\ ui.pc # "idle" => life > 0
    /\ query = 0 => rowCount = 0 /\ available = "Unknown"

TaskTokens ==
    /\ current_task # NoTask => query > 0 /\ current_task.token = query
    /\ next_task # NoTask => query > 0 /\ next_task.token = query /\ Fresh
    /\ Active => worker.q = query

OtherTokens ==
    /\ \A c \in counters : c.token > 0 /\ c.token <= query
    /\ \A s \in Waiting : s.token > 0 /\ s.token <= query
    /\ \A c \in cache : c.q = query

\* While only the user interface goes on, the query is as fresh as it was,
\* and there is one.
LEMMA UiKeepsFresh ==
    ASSUME Types, Tokens,
           \/ Scroll \/ CompleteCache \/ WaitForFuture \/ CompleteLoop
           \/ CompleteLoad \/ CompleteReturn \/ TriggerInterrupt
           \/ TriggerFetch
    PROVE  (Fresh' <=> Fresh) /\ (ui'.pc # "idle" => life > 0)
<1>1. CASE Scroll
  <2>1. PICK row \in 0..(rowCount - 1) :
            LET r == LoadRange(row)
            IN  ui' = UiAt("trigger", "scroll", 0, 0, r[1], r[2])
      BY <1>1 DEF Scroll
  <2>2. ui'.pc = "trigger" /\ ui'.op = "scroll"
      BY <2>1 DEF UiAt
  <2>3. ui.op = "none"
      BY <1>1 DEF Scroll, Types
  <2>4. life > 0
    <3>1. rowCount \in Nat /\ query \in Nat /\ life \in Nat
        BY Fields
    <3>2. rowCount # 0
        BY <2>1, <3>1
    <3>3. query # 0 /\ query <= life
        BY <3>2 DEF Tokens
    <3> QED
        BY <3>1, <3>3
  <2> QED
      BY <2>2, <2>3, <2>4 DEF Fresh
<1>2. CASE CompleteCache
    BY <1>2 DEF CompleteCache, UiAt, Fresh, Types
<1>3. CASE WaitForFuture \/ CompleteLoop \/ TriggerInterrupt
  <2>1. /\ ui.op # "none" /\ ui.pc # "idle" /\ started' = started
        /\ \/ ui.pc = "future" /\ ui' = [ui EXCEPT !.pc = "wait"]
           \/ ui.op = "complete" /\ ui' = [ui EXCEPT !.pc = "events"]
           \/ ui.pc = "trigger" /\ ui' = [ui EXCEPT !.pc = "queue"]
      BY <1>3 DEF WaitForFuture, CompleteLoop, TriggerInterrupt, Types
  <2>2. life > 0
      BY <2>1 DEF Tokens
  <2> QED
      BY <2>1, <2>2, UiGoesOn DEF UiStays, Fresh
<1>4. CASE CompleteLoad \/ TriggerFetch
  <2>1. Fresh /\ ui.pc # "idle"
      BY <1>4 DEF CompleteLoad, TriggerFetch, Fresh, Types
  <2>2. ui'.op # "query"
      BY <1>4 DEF CompleteLoad, TriggerFetch, UiAt, UiIdle
  <2> QED
      BY <2>1, <2>2 DEF Fresh, Tokens
<1>5. CASE CompleteReturn
    BY <1>5 DEF CompleteReturn, UiAt, UiIdle, Fresh
<1> QED
    BY <1>1, <1>2, <1>3, <1>4, <1>5

\* The query of the loader is that of the present life but while it is being
\* replaced.
LEMMA LifeTokensKept ==
    ASSUME Types, Tokens, [Next]_vars
    PROVE  LifeTokens'
<1> USE DEF model, loader, LifeTokens
<1>0. LifeTokens /\ life \in Nat /\ query \in Nat
    BY Fields DEF Tokens
<1>1. CASE NewQuery
  <2>1. ui'.op = "query" /\ ui'.pc = "future"
      BY <1>1 DEF NewQuery, UiAt
  <2> QED
      BY <1>0, <1>1, <2>1 DEF NewQuery, Fresh
<1>2. CASE ClearAndSetQuery
  <2>1. ui'.op = "query" /\ ui'.pc = "trigger"
      BY <1>2 DEF ClearAndSetQuery, UiAt
  <2> QED
      BY <1>0, <1>2, <2>1 DEF ClearAndSetQuery, Fresh
<1>3. CASE \/ Scroll \/ CompleteCache \/ WaitForFuture \/ CompleteLoop
           \/ CompleteLoad \/ CompleteReturn \/ TriggerInterrupt
           \/ TriggerFetch
  <2>1. UNCHANGED <<query, life, rowCount, available>>
      BY <1>3 DEF Scroll, CompleteCache, WaitForFuture, CompleteLoop,
         CompleteLoad, CompleteReturn, TriggerInterrupt, TriggerFetch
  <2> QED
      BY <1>0, <1>3, <2>1, UiKeepsFresh
<1>4. CASE HandleSignal
  <2>1. UNCHANGED <<query, life, ui>>
      BY <1>4, HandledModel DEF HandleSignal
  <2>2. query = 0 => Waiting = {}
      BY <1>0, Fields DEF Tokens
  <2>3. query = 0 => UNCHANGED model
      BY <1>4, <2>2, HandledModel
  <2> QED
      BY <1>0, <2>1, <2>3 DEF Fresh
<1>5. CASE UNCHANGED <<query, life, ui, rowCount, available>>
    BY <1>0, <1>5 DEF Fresh
<1> QED
    BY <1>1, <1>2, <1>3, <1>4, <1>5 DEF Next, vars, UiWaits, WorkerNext,
       TaskEnd, TakeTask, ReadRow, WriteRow, ReadEnd, FirstChunk,
       StartCounter, AssignFuture, EmitFetched, CounterNext, CountStart,
       CountEnd, CountDone, OtherGets, OtherReleases, OtherInterrupts

\* Tasks and the worker are of the loader's query.
LEMMA TaskTokensKept ==
    ASSUME Types, Tasks, Tokens, [Next]_vars
    PROVE  TaskTokens'
<1> USE DEF model, loader, TaskTokens, Active
<1>0. /\ TaskTokens /\ worker \in WorkerType
      /\ current_task \in TaskType /\ next_task \in TaskType
      /\ life \in 0..Len(Rows)
    BY DEF Tokens, Types, TypeOK
<1>1. CASE NewQuery \/ TriggerInterrupt \/ OtherInterrupts
  <2>1. /\ worker'.pc = worker.pc /\ worker'.q = worker.q
        /\ query' = query
      BY <1>1, Interrupted DEF NewQuery, TriggerInterrupt, OtherInterrupts,
         Tasks, Types
  <2>2. /\ current_task' = NoTask <=> current_task = NoTask
        /\ current_task'.token = current_task.token
      BY <1>0, <1>1, TaskTyped DEF NewQuery, TriggerInterrupt,
         OtherInterrupts
  <2>3. next_task' = NoTask \/ (next_task' = next_task /\ (Fresh => Fresh'))
    <3>1. CASE NewQuery
        BY <3>1 DEF NewQuery
    <3>2. CASE TriggerInterrupt
        BY <3>2, UiKeepsFresh DEF TriggerInterrupt
    <3>3. CASE OtherInterrupts
        BY <3>3 DEF OtherInterrupts, Fresh
    <3> QED
        BY <1>1, <3>1, <3>2, <3>3
  <2> QED
      BY <1>0, <2>1, <2>2, <2>3
<1>2. CASE ClearAndSetQuery
  <2>1. current_task = NoTask /\ next_task = NoTask
      BY <1>2 DEF ClearAndSetQuery, Idle
  <2>2. ~Active
      BY <2>1 DEF Tasks
  <2> QED
      BY <1>2, <2>1, <2>2 DEF ClearAndSetQuery
<1>3. CASE TriggerFetch
  <2>1. life > 0 /\ Fresh /\ query = life /\ ui.b \in Nat /\ ui.e \in Nat
    <3>1. Fresh /\ ui.pc # "idle"
        BY <1>3 DEF TriggerFetch, Fresh
    <3> QED
        BY <3>1, Fields DEF Tokens
  <2>2. /\ current_task' = NoTask <=> current_task = NoTask
        /\ current_task'.token = current_task.token
      BY <1>0, <1>3, TaskTyped DEF TriggerFetch
  <2>3. next_task'.token = life
      BY <1>0, <1>3, <2>1, TaskTyped DEF TriggerFetch
  <2>4. query' = query /\ worker' = worker /\ (Fresh' <=> Fresh)
      BY <1>3, UiKeepsFresh DEF TriggerFetch
  <2> QED
      BY <1>0, <2>1, <2>2, <2>3, <2>4
<1>4. CASE \/ Scroll \/ CompleteCache \/ WaitForFuture \/ CompleteLoop
           \/ CompleteLoad \/ CompleteReturn
  <2>1. UNCHANGED <<query, current_task, next_task, worker>>
      BY <1>4 DEF Scroll, CompleteCache, WaitForFuture, CompleteLoop,
         CompleteLoad, CompleteReturn
  <2>2. Fresh' <=> Fresh
      BY <1>4, UiKeepsFresh
  <2> QED
      BY <1>0, <2>1, <2>2
<1>5. CASE TaskEnd
  <2>1. worker'.pc = "idle" /\ current_task' = NoTask
      BY <1>5 DEF TaskEnd, WorkerAt
  <2>2. UNCHANGED <<query, next_task, ui>>
      BY <1>5 DEF TaskEnd
  <2> QED
      BY <1>0, <2>1, <2>2 DEF Fresh
<1>6. CASE TakeTask
  <2>1. /\ worker'.q = query /\ next_task' = NoTask
        /\ current_task' = next_task /\ query' = query
      BY <1>6 DEF TakeTask, WorkerAt
  <2> QED
      BY <1>0, <2>1
<1>7. CASE ReadRow \/ WriteRow \/ ReadEnd \/ FirstChunk \/ StartCounter
           \/ AssignFuture \/ EmitFetched
  <2>1. /\ worker.pc \notin {"loop", "idle"}
        /\ UNCHANGED <<query, current_task, next_task, ui>>
      BY <1>7 DEF ReadRow, WriteRow, ReadEnd, FirstChunk, StartCounter,
         AssignFuture, EmitFetched
  <2>2. worker'.q = worker.q
    <3>1. CASE WriteRow
        BY <3>1, WorkerWrites
    <3>2. CASE ~WriteRow
        BY <1>0, <1>7, <3>2, WorkerGoesOn DEF ReadRow, ReadEnd, FirstChunk,
           StartCounter, AssignFuture, EmitFetched, WorkerStays, WorkerPlaces
    <3> QED
        BY <3>1, <3>2
  <2> QED
      BY <1>0, <2>1, <2>2 DEF Fresh
<1>8. CASE UNCHANGED <<query, current_task, next_task, worker, ui>>
    BY <1>0, <1>8 DEF Fresh
<1> QED
    BY <1>1, <1>2, <1>3, <1>4, <1>5, <1>6, <1>7, <1>8 DEF Next, vars,
       UiWaits, HandleSignal, WorkerNext, CounterNext, CountStart, CountEnd,
       CountDone, OtherGets, OtherReleases

\* What a counter thread changes.
LEMMA CounterSteps ==
    ASSUME Types, NEW c \in counters, CounterNext(c)
    PROVE  /\ \A d \in counters' :
                  \/ d \in counters
                  \/ /\ d.token = c.token
                     /\ d.pc = "count" => d.rows = Rows[query]
           /\ \A s \in Waiting' :
                  \/ s \in Waiting
                  \/ /\ c.pc = "count"
                     /\ s.kind = "count" /\ s.token = c.token /\ s.e = c.rows
<1>1. c \in CounterType /\ c.token \in Nat /\ c.rows \in Nat
    BY DEF Types, CounterType
<1>2. CASE CountStart(c)
  <2>1. PICK pc \in {"failed", "count"} :
            counters' = (counters \ {c})
                           \cup {[c EXCEPT !.pc = pc, !.rows = Rows[query]]}
      BY <1>2 DEF CountStart, Replace
  <2>2. /\ [c EXCEPT !.pc = pc, !.rows = Rows[query]].token = c.token
        /\ [c EXCEPT !.pc = pc, !.rows = Rows[query]].rows = Rows[query]
      BY <1>1 DEF CounterType
  <2>3. UNCHANGED signals
      BY <1>2 DEF CountStart
  <2> QED
      BY <2>1, <2>2, <2>3 DEF Waiting
<1>3. CASE CountEnd(c)
  <2>1. counters' = (counters \ {c}) \cup {[c EXCEPT !.pc = "done"]}
      BY <1>3 DEF CountEnd, Replace
  <2>2. /\ [c EXCEPT !.pc = "done"].token = c.token
        /\ [c EXCEPT !.pc = "done"].pc = "done"
      BY <1>1 DEF CounterType
  <2>3. CASE UNCHANGED signals
      BY <2>1, <2>2, <2>3 DEF Waiting
  <2>4. CASE c.pc = "count" /\ Emit(Signal("count", c.token, c.rows, c.rows))
    <3>1. /\ Signal("count", c.token, c.rows, c.rows) \in SignalType
          /\ Signal("count", c.token, c.rows, c.rows).kind = "count"
          /\ Signal("count", c.token, c.rows, c.rows).token = c.token
          /\ Signal("count", c.token, c.rows, c.rows).e = c.rows
        BY <1>1, SignalTyped
    <3>2. signals \in Seq(SignalType)
        BY DEF Types
    <3>3. Waiting' = Waiting \cup {Signal("count", c.token, c.rows, c.rows)}
        BY <2>4, <3>1, <3>2, Emitted
    <3> QED
        BY <2>1, <2>2, <2>4, <3>1, <3>3
  <2> QED
      BY <1>3, <2>3, <2>4 DEF CountEnd
<1>4. CASE CountDone(c)
    BY <1>4 DEF CountDone, Waiting
<1> QED
    BY <1>2, <1>3, <1>4 DEF CounterNext

\* Counters and signals are not of a later query, and the cache is of the
\* present one.
LEMMA OtherTokensKept ==
    ASSUME Types, Tasks, Tokens, Ranges, [Next]_vars
    PROVE  OtherTokens'
<1> USE DEF model, loader, OtherTokens
<1>0. /\ OtherTokens /\ query \in Nat /\ life \in Nat /\ query <= life
      /\ signals \in Seq(SignalType)
      /\ \A c \in counters : c.token \in Nat
      /\ \A s \in Waiting : s.token \in Nat
    BY Fields DEF Tokens, Types
<1>1. CASE NewQuery \/ TriggerInterrupt \/ OtherInterrupts
  <2>1. \A d \in counters' : \E c \in counters : d.token = c.token
      BY <1>1, Interrupted DEF NewQuery, TriggerInterrupt, OtherInterrupts,
         Tasks, Types
  <2>2. UNCHANGED <<query, signals, cache>>
      BY <1>1 DEF NewQuery, TriggerInterrupt, OtherInterrupts
  <2> QED
      BY <1>0, <2>1, <2>2 DEF Waiting
<1>2. CASE ClearAndSetQuery
  <2>1. query' = life /\ cache' = {} /\ UNCHANGED <<counters, signals>>
      BY <1>2 DEF ClearAndSetQuery
  <2> QED
      BY <1>0, <2>1 DEF Waiting
<1>3. CASE HandleSignal
  <2>1. UNCHANGED <<counters, query, cache>> /\ Waiting' \subseteq Waiting
      BY <1>3, HandledModel DEF HandleSignal
  <2> QED
      BY <1>0, <2>1
<1>4. CASE WriteRow
  <2>1. /\ \A c \in cache' : c \in cache \/ c.q = worker.q
        /\ worker.q = query
      BY <1>4, WorkerWrites DEF WriteRow, Tokens, Active
  <2>2. UNCHANGED <<counters, query, signals>>
      BY <1>4 DEF WriteRow
  <2> QED
      BY <1>0, <2>1, <2>2 DEF Waiting
<1>5. CASE StartCounter
  <2>1. current_task.token > 0 /\ current_task.token <= query
      BY <1>0, <1>5 DEF StartCounter, Tasks, Tokens, Active
  <2>2. \A c \in counters' : c \in counters \/ c.token = current_task.token
      BY <1>5 DEF StartCounter
  <2>3. UNCHANGED <<query, signals, cache>>
      BY <1>5 DEF StartCounter
  <2> QED
      BY <1>0, <2>1, <2>2, <2>3 DEF Waiting
<1>6. CASE ReadEnd \/ FirstChunk \/ EmitFetched
  <2>1. current_task.token > 0 /\ current_task.token <= query
      BY <1>0, <1>6 DEF ReadEnd, FirstChunk, EmitFetched, Tasks, Tokens,
         Active
  <2>2. \A s \in Waiting' : s \in Waiting \/ s.token = current_task.token
    <3>1. CASE UNCHANGED signals
        BY <3>1 DEF Waiting
    <3>2. ASSUME NEW kind \in {"error", "count", "fetched"},
                 NEW b \in Nat, NEW e \in Nat,
                 Emit(Signal(kind, current_task.token, b, e))
          PROVE  \A s \in Waiting' : \/ s \in Waiting
                                     \/ s.token = current_task.token
      <4>1. Signal(kind, current_task.token, b, e) \in SignalType
          BY Fields, SignalTyped
      <4>2. Signal(kind, current_task.token, b, e).token = current_task.token
          BY DEF Signal
      <4>3. Waiting'
              = Waiting \cup {Signal(kind, current_task.token, b, e)}
          BY <1>0, <3>2, <4>1, Emitted
      <4> QED
          BY <4>2, <4>3
    <3>3. CASE ReadEnd
        BY <3>1, <3>2, <3>3 DEF ReadEnd
    <3>4. CASE FirstChunk
      <4>1. worker.row - current_task.row_begin \in Nat
          BY <3>4, Fields DEF FirstChunk, Ranges, Active
      <4> QED
          BY <3>1, <3>2, <3>4, <4>1 DEF FirstChunk
    <3>5. CASE EmitFetched
        BY <3>2, <3>5, Fields DEF EmitFetched
    <3> QED
        BY <1>6, <3>3, <3>4, <3>5
  <2>3. UNCHANGED <<query, counters, cache>>
      BY <1>6 DEF ReadEnd, FirstChunk, EmitFetched
  <2> QED
      BY <1>0, <2>1, <2>2, <2>3
<1>7. ASSUME NEW c \in counters, CounterNext(c) PROVE OtherTokens'
  <2>1. \A d \in counters' : d \in counters \/ d.token = c.token
      BY <1>7, CounterSteps
  <2>2. \A s \in Waiting' : s \in Waiting \/ s.token = c.token
      BY <1>7, CounterSteps
  <2>3. UNCHANGED <<query, cache>>
      BY <1>7 DEF CounterNext, CountStart, CountEnd, CountDone
  <2> QED
      BY <1>0, <2>1, <2>2, <2>3
<1>8. CASE UNCHANGED <<query, counters, signals, cache>>
    BY <1>0, <1>8 DEF Waiting
<1> QED
    BY <1>1, <1>2, <1>3, <1>4, <1>5, <1>6, <1>7, <1>8 DEF Next, vars,
       UiWaits, Scroll, CompleteCache, WaitForFuture, CompleteLoop,
       CompleteLoad, CompleteReturn, TriggerFetch, WorkerNext, TaskEnd,
       TakeTask, ReadRow, AssignFuture, OtherGets, OtherReleases

\* So all parts of Tokens are kept.
LEMMA TokensKept ==
    ASSUME Types, Tasks, Tokens, Ranges, [Next]_vars
    PROVE  Tokens'
BY LifeTokensKept, TaskTokensKept, OtherTokensKept
DEF Tokens, LifeTokens, TaskTokens, OtherTokens

---------------------------------------------------------------------------
(* Ranges. *)

\* A query that was set has a number of rows.
LEMMA QueryRows ==
    ASSUME Types, Tokens
    PROVE  /\ life > 0 => life \in Lives /\ Rows[life] \in Nat
           /\ query > 0 => query \in Lives /\ Rows[query] \in Nat
<1>1. life \in 0..Len(Rows) /\ query \in 0..Len(Rows)
    BY DEF Types, TypeOK
<1> QED
    BY <1>1, LivesType

\* A range that is asked for begins at the latest after the last row, as the
\* row after the last one is never in the cache.
LEMMA LoadRangeBegins ==
    ASSUME Types, Tokens, Ranges, Fresh, life > 0,
           NEW row \in Nat, row <= Rows[life] + HalfChunk,
           LoadRange(row)[1] # LoadRange(row)[2]
    PROVE  /\ LoadRange(row)[1] \in Nat /\ LoadRange(row)[2] \in Nat
           /\ LoadRange(row)[1] <= LoadRange(row)[2]
           /\ LoadRange(row)[1] <= Rows[life]
<1>1. Rows[life] \in Nat /\ query = life
    BY QueryRows DEF Tokens
<1>2. ~InCache(Rows[life])
    BY <1>1, Fields DEF InCache, Ranges
<1>3. rowCount \in Nat
    BY Fields
<1> QED
    BY <1>1, <1>2, <1>3, LoadRangeProperties

UiRanges ==
    /\ ui.pc \in {"trigger", "queue"} => ui.b <= Rows[life] /\ ui.b <= ui.e
    /\ ui.pc = "events" => ui.i <= Rows[life] + HalfChunk

\* The main thread asks for rows that begin within its query.
LEMMA UiRangesKept ==
    ASSUME IInv, [Next]_vars
    PROVE  UiRanges'
<1> USE DEF model, loader, UiRanges
<1>0. /\ Types /\ Tokens /\ Ranges /\ UiRanges
      /\ life > 0 /\ Fresh => rowCount <= Rows[life]
      /\ life > 0 => Rows[life] \in Nat
      /\ ui.pc # "idle" => life > 0
      /\ life \in Nat /\ rowCount \in Nat /\ ui.i \in Nat
      /\ HalfChunk \in Nat /\ HalfChunk >= 2
    BY HalfChunkType, QueryRows, Fields DEF IInv, Tokens, Ranges, Totals
<1>1. CASE NewQuery \/ CompleteCache
    BY <1>1 DEF NewQuery, CompleteCache, UiAt
<1>2. CASE ClearAndSetQuery
  <2>1. /\ ui'.b = 0 /\ ui'.e = 2 * HalfChunk - 1 /\ ui'.pc = "trigger"
        /\ life' = life /\ life > 0
      BY <1>0, <1>2 DEF ClearAndSetQuery, UiAt
  <2> QED
      BY <1>0, <2>1
<1>3. CASE Scroll
  <2>1. PICK row \in 0..(rowCount - 1) :
            /\ LoadRange(row)[1] # LoadRange(row)[2]
            /\ ui' = UiAt("trigger", "scroll", 0, 0, LoadRange(row)[1],
                          LoadRange(row)[2])
      BY <1>3 DEF Scroll
  <2>2. life > 0 /\ Fresh
    <3>1. Fresh
        BY <1>3 DEF Scroll, Fresh, UiIdle, UiAt
    <3>2. rowCount # 0
        BY <1>0, <2>1
    <3>3. query # 0 /\ query = life
        BY <1>0, <3>1, <3>2 DEF Tokens
    <3> QED
        BY <1>0, <3>1, <3>3
  <2>3. row \in Nat /\ row <= Rows[life] + HalfChunk
      BY <1>0, <2>1, <2>2
  <2>4. LoadRange(row)[1] <= LoadRange(row)[2] /\ LoadRange(row)[1] <= Rows[life]
      BY <1>0, <2>1, <2>2, <2>3, LoadRangeBegins
  <2>5. life' = life
      BY <1>3 DEF Scroll
  <2> QED
      BY <2>1, <2>4, <2>5 DEF UiAt
<1>4. CASE WaitForFuture \/ CompleteLoop \/ TriggerInterrupt
  <2>1. /\ started' = started /\ ui.op # "none" /\ life' = life
        /\ \/ ui.pc = "future" /\ ui' = [ui EXCEPT !.pc = "wait"]
           \/ /\ ui.op = "complete" /\ ui' = [ui EXCEPT !.pc = "events"]
              /\ ui.i < rowCount + HalfChunk
           \/ ui.pc = "trigger" /\ ui' = [ui EXCEPT !.pc = "queue"]
      BY <1>0, <1>4 DEF WaitForFuture, CompleteLoop, TriggerInterrupt, Types
  <2>2. CASE ui.pc = "future" /\ ui' = [ui EXCEPT !.pc = "wait"]
      BY <1>0, <2>1, <2>2, UiGoesOn DEF UiStays
  <2>3. CASE ui.pc = "trigger" /\ ui' = [ui EXCEPT !.pc = "queue"]
      BY <1>0, <2>1, <2>3, UiGoesOn DEF UiStays
  <2>4. CASE /\ ui.op = "complete" /\ ui' = [ui EXCEPT !.pc = "events"]
             /\ ui.i < rowCount + HalfChunk
    <3>1. ui'.pc = "events" /\ ui'.i = ui.i
        BY <1>0, <2>1, <2>4, UiGoesOn DEF UiStays
    <3>2. Fresh /\ life > 0
        BY <1>0, <2>4 DEF Fresh, Types
    <3> QED
        BY <1>0, <2>1, <2>4, <3>1, <3>2
  <2> QED
      BY <2>1, <2>2, <2>3, <2>4
<1>5. CASE TriggerFetch \/ CompleteReturn
    BY <1>5 DEF TriggerFetch, CompleteReturn, UiAt, UiIdle
<1>6. CASE CompleteLoad
  <2>1. /\ ui.pc = "events" /\ life' = life
        /\ \/ /\ LoadRange(ui.i)[1] # LoadRange(ui.i)[2]
              /\ ui' = UiAt("trigger", "complete", ui.i, 0, LoadRange(ui.i)[1],
                            LoadRange(ui.i)[2])
           \/ ui' = UiAt("future", "complete", ui.i + ChunkSize, row_counter,
                         0, 0)
      BY <1>6 DEF CompleteLoad
  <2>2. ui.op = "complete" /\ Fresh /\ life > 0
      BY <1>0, <2>1 DEF Types, Fresh
  <2>3. ui.i <= Rows[life] + HalfChunk
      BY <1>0, <2>1
  <2>4. LoadRange(ui.i)[1] # LoadRange(ui.i)[2] =>
            /\ LoadRange(ui.i)[1] <= LoadRange(ui.i)[2]
            /\ LoadRange(ui.i)[1] <= Rows[life]
      BY <1>0, <2>2, <2>3, LoadRangeBegins
  <2> QED
      BY <2>1, <2>4 DEF UiAt
<1>7. CASE HandleSignal
    BY <1>0, <1>7, HandledModel DEF HandleSignal
<1>8. CASE UNCHANGED <<life, ui>>
    BY <1>0, <1>8
<1> QED
    BY <1>1, <1>2, <1>3, <1>4, <1>5, <1>6, <1>7, <1>8 DEF Next, vars,
       UiWaits, WorkerNext, TaskEnd, TakeTask, ReadRow, WriteRow, ReadEnd,
       FirstChunk, StartCounter, AssignFuture, EmitFetched, CounterNext,
       CountStart, CountEnd, CountDone, OtherGets, OtherReleases,
       OtherInterrupts

TaskRanges ==
    /\ \A t \in {current_task, next_task} :
           t # NoTask => /\ t.row_begin <= t.row_end
                         /\ t.row_begin <= Rows[query]
    /\ Active => /\ current_task.row_begin <= worker.row
                 /\ worker.row <= current_task.row_end
                 /\ worker.row <= Rows[query]
    /\ worker.pc = "row" => /\ worker.row < current_task.row_end
                            /\ worker.row < Rows[query]
    /\ \A c \in cache : c.row < Rows[query]

\* The worker stays within its task and its query, and so does the cache.
LEMMA TaskRangesKept ==
    ASSUME IInv, [Next]_vars
    PROVE  TaskRanges'
<1> USE DEF model, loader, TaskRanges, Active
<1>0. /\ Types /\ Tasks /\ Tokens /\ Ranges /\ TaskRanges
      /\ worker \in WorkerType
      /\ current_task \in TaskType /\ next_task \in TaskType
      /\ life \in 0..Len(Rows)
      /\ Active => Rows[query] \in Nat
  <2>1. Active => query > 0
      BY DEF IInv, Tasks, Tokens
  <2> QED
      BY <2>1, QueryRows DEF IInv, Types, TypeOK, Ranges
<1>1. CASE NewQuery \/ TriggerInterrupt \/ OtherInterrupts
  <2>1. worker'.pc = worker.pc /\ worker'.row = worker.row
      BY <1>0, <1>1, Interrupted DEF NewQuery, TriggerInterrupt,
         OtherInterrupts, Tasks, Types
  <2>2. /\ current_task' = NoTask <=> current_task = NoTask
        /\ current_task'.row_begin = current_task.row_begin
        /\ current_task'.row_end = current_task.row_end
        /\ next_task' = NoTask \/ next_task' = next_task
        /\ query' = query /\ cache' = cache
      BY <1>0, <1>1, TaskTyped DEF NewQuery, TriggerInterrupt,
         OtherInterrupts
  <2> QED
      BY <1>0, <2>1, <2>2
<1>2. CASE ClearAndSetQuery
  <2>1. /\ current_task = NoTask /\ next_task = NoTask /\ cache' = {}
        /\ UNCHANGED <<current_task, next_task, worker>>
      BY <1>2 DEF ClearAndSetQuery, Idle
  <2>2. ~Active
      BY <1>0, <2>1 DEF Tasks
  <2> QED
      BY <2>1, <2>2
<1>3. CASE TriggerFetch
  <2>1. life > 0 /\ query = life /\ ui.b <= Rows[life] /\ ui.b <= ui.e
    <3>1. Fresh /\ ui.pc # "idle" /\ ui.pc = "queue"
        BY <1>3 DEF TriggerFetch, Fresh
    <3> QED
        BY <1>0, <3>1 DEF Tokens, Ranges
  <2>2. /\ current_task' = NoTask <=> current_task = NoTask
        /\ current_task'.row_begin = current_task.row_begin
        /\ current_task'.row_end = current_task.row_end
      BY <1>0, <1>3, TaskTyped DEF TriggerFetch
  <2>3. next_task'.row_begin = ui.b /\ next_task'.row_end = ui.e
      BY <1>3 DEF TriggerFetch, Task
  <2>4. UNCHANGED <<query, worker, cache>>
      BY <1>3 DEF TriggerFetch
  <2> QED
      BY <1>0, <2>1, <2>2, <2>3, <2>4
<1>4. CASE TaskEnd
  <2>1. worker'.pc = "idle" /\ current_task' = NoTask
      BY <1>4 DEF TaskEnd, WorkerAt
  <2>2. UNCHANGED <<query, next_task, cache>>
      BY <1>4 DEF TaskEnd
  <2> QED
      BY <1>0, <2>1, <2>2
<1>5. CASE TakeTask
  <2>1. /\ worker'.pc \in {"fetched", "step"}
        /\ worker'.row = next_task.row_begin /\ next_task' = NoTask
        /\ current_task' = next_task /\ next_task # NoTask
        /\ UNCHANGED <<query, cache>>
      BY <1>5 DEF TakeTask, WorkerAt
  <2>2. next_task.row_begin \in Nat /\ next_task.row_end \in Nat
      BY <1>0, Fields
  <2> QED
      BY <1>0, <2>1, <2>2
<1>6. CASE ReadRow
  <2>1. worker' = [worker EXCEPT !.pc = "row"]
      BY <1>6 DEF ReadRow
  <2>2. worker'.pc = "row" /\ worker'.row = worker.row
      BY <1>0, <2>1
  <2>3. worker.row < Smaller(current_task.row_end, Rows[worker.q])
        /\ worker.q = query /\ worker.pc = "step"
      BY <1>0, <1>6 DEF ReadRow, Tokens
  <2>4. /\ worker.row \in Nat /\ current_task.row_end \in Nat
        /\ current_task.row_begin \in Nat /\ Rows[query] \in Nat
      BY <1>0, <2>3, Fields
  <2>5. worker.row < current_task.row_end /\ worker.row < Rows[query]
      BY <2>3, <2>4 DEF Smaller
  <2>6. UNCHANGED <<query, cache, current_task, next_task>>
      BY <1>6 DEF ReadRow
  <2> QED
      BY <1>0, <2>2, <2>3, <2>4, <2>5, <2>6
<1>7. CASE WriteRow
  <2>1. /\ worker'.pc = "step" /\ worker'.row = worker.row + 1
        /\ cache' = {c \in cache : c.row # worker.row}
                       \cup {[row |-> worker.row, q |-> worker.q]}
      BY <1>0, <1>7, WorkerWrites
  <2>2. worker.pc = "row" /\ UNCHANGED <<query, current_task, next_task>>
      BY <1>7 DEF WriteRow
  <2>3. /\ worker.row \in Nat /\ current_task.row_end \in Nat
        /\ current_task.row_begin \in Nat /\ Rows[query] \in Nat
      BY <1>0, <2>2, Fields
  <2>4. \A c \in cache' : c \in cache \/ c.row = worker.row
      BY <2>1
  <2> QED
      BY <1>0, <2>1, <2>2, <2>3, <2>4
<1>8. CASE ReadEnd \/ FirstChunk \/ StartCounter \/ AssignFuture
           \/ EmitFetched
  <2>1. /\ worker.pc \notin {"loop", "idle"}
        /\ UNCHANGED <<query, current_task, next_task, cache>>
        /\ worker'.pc # "row" /\ worker'.row = worker.row
      BY <1>0, <1>8, WorkerGoesOn DEF ReadEnd, FirstChunk, StartCounter,
         AssignFuture, EmitFetched, WorkerStays, WorkerPlaces
  <2> QED
      BY <1>0, <2>1
<1>9. CASE UNCHANGED <<query, current_task, next_task, worker, cache>>
    BY <1>0, <1>9
<1> QED
    BY <1>1, <1>2, <1>3, <1>4, <1>5, <1>6, <1>7, <1>8, <1>9 DEF Next, vars,
       UiWaits, Scroll, CompleteCache, WaitForFuture, CompleteLoop,
       CompleteLoad, CompleteReturn, HandleSignal, WorkerNext, CounterNext,
       CountStart, CountEnd, CountDone, OtherGets, OtherReleases

\* So all parts of Ranges are kept.
LEMMA RangesKept ==
    ASSUME IInv, [Next]_vars
    PROVE  Ranges'
BY UiRangesKept, TaskRangesKept DEF Ranges, UiRanges, TaskRanges

---------------------------------------------------------------------------
(* The first chunk. *)

FirstWorker ==
    /\ worker.pc \in {"step", "row", "first", "count", "assign"} =>
           query \notin Broken
    /\ worker.pc \in {"count", "assign", "fetched"} => FirstRead
    /\ worker.pc = "loop" /\ current_task # NoTask => FirstRead

FirstUi ==
    /\ ui.op = "query" /\ ui.pc \in {"trigger", "queue"} =>
           ui.b = 0 /\ current_task = NoTask /\ next_task = NoTask
    /\ ui.op = "scroll" => FirstRead
    /\ ui.op = "complete" /\ ui.pc \in {"events", "trigger", "queue"} =>
           FirstRead

FirstTasks ==
    /\ \A c \in counters : c.token = query => FirstRead
    /\ ~next_task.cancel
    /\ ~FirstRead => current_task.row_begin = 0 /\ next_task.row_begin = 0

FirstAwaited ==
    ~FirstRead /\ Fresh =>
        /\ rowCount = 0
        /\ \A s \in Waiting : s.token = query => s.kind = "error"
        /\ ui.op # "query" /\ life > 0 =>
               current_task # NoTask \/ next_task # NoTask
        /\ ~current_task.cancel
        /\ worker.pc \in {"step", "row"} => worker.result = "ok" \/ aborted
        /\ worker.pc = "first" =>
               \/ worker.row = current_task.row_end
               \/ worker.row = Rows[query]
               \/ aborted

\* Only a new query makes the loader forget that the first chunk was read,
\* and only that makes the query the one of the present life again.
LEMMA FirstReadKept ==
    ASSUME Types, Tokens, [Next]_vars, ~ClearAndSetQuery
    PROVE  /\ query' = query
           /\ FirstRead => FirstRead'
           /\ ~FirstChunk => (FirstRead' <=> FirstRead)
           /\ Fresh' => Fresh
<1> USE DEF loader, FirstRead
<1>1. CASE NewQuery
    BY <1>1 DEF NewQuery, UiAt, Fresh
<1>2. CASE \/ Scroll \/ CompleteCache \/ WaitForFuture \/ CompleteLoop
           \/ CompleteLoad \/ CompleteReturn \/ TriggerInterrupt
           \/ TriggerFetch
  <2>1. Fresh' <=> Fresh
      BY <1>2, UiKeepsFresh
  <2>2. query' = query /\ first_chunk_loaded' = first_chunk_loaded
      BY <1>2 DEF Scroll, CompleteCache, WaitForFuture, CompleteLoop,
         CompleteLoad, CompleteReturn, TriggerInterrupt, TriggerFetch
  <2> QED
      BY <2>1, <2>2
<1>3. CASE FirstChunk
    BY <1>3 DEF FirstChunk, Fresh
<1>4. CASE UNCHANGED <<query, first_chunk_loaded, ui>>
    BY <1>4 DEF Fresh
<1> QED
    BY <1>1, <1>2, <1>3, <1>4 DEF Next, vars, UiWaits, HandleSignal,
       WorkerNext, TaskEnd, TakeTask, ReadRow, WriteRow, ReadEnd,
       StartCounter, AssignFuture, EmitFetched, CounterNext, CountStart,
       CountEnd, CountDone, OtherGets, OtherReleases, OtherInterrupts

\* The worker reads only queries that can be read, and is past the first chunk
\* only when it was read.
LEMMA FirstWorkerKept ==
    ASSUME IInv, [Next]_vars
    PROVE  FirstWorker'
<1> USE DEF loader, FirstWorker
<1>0. /\ Types /\ Tasks /\ Tokens /\ FirstWorker /\ worker \in WorkerType
      /\ current_task \in TaskType /\ next_task \in TaskType
    BY DEF IInv, Types, TypeOK, First
<1>1. CASE ClearAndSetQuery
  <2>1. /\ current_task = NoTask
        /\ UNCHANGED <<current_task, worker>>
      BY <1>1 DEF ClearAndSetQuery, Idle
  <2>2. ~Active
      BY <1>0, <2>1 DEF Tasks
  <2> QED
      BY <2>1, <2>2 DEF Active
<1> SUFFICES ASSUME ~ClearAndSetQuery PROVE FirstWorker'
    BY <1>1
<1>2. /\ query' = query
      /\ FirstRead => FirstRead'
    BY <1>0, FirstReadKept
<1>3. CASE NewQuery \/ TriggerInterrupt \/ OtherInterrupts \/ TriggerFetch
  <2>1. worker'.pc = worker.pc
      BY <1>0, <1>3, Interrupted DEF NewQuery, TriggerInterrupt,
         OtherInterrupts, TriggerFetch, Tasks, Types
  <2>2. current_task' = NoTask <=> current_task = NoTask
      BY <1>0, <1>3, TaskTyped DEF NewQuery, TriggerInterrupt,
         OtherInterrupts, TriggerFetch
  <2> QED
      BY <1>0, <1>2, <2>1, <2>2
<1>4. CASE TaskEnd
    BY <1>4 DEF TaskEnd, WorkerAt
<1>5. CASE TakeTask
  <2>1. worker'.pc = IF query \in Broken THEN "fetched" ELSE "step"
      BY <1>5 DEF TakeTask, WorkerAt
  <2>2. first_chunk_loaded' = first_chunk_loaded
      BY <1>5 DEF TakeTask
  <2> QED
      BY <1>2, <2>1, <2>2 DEF FirstRead
<1>6. CASE WriteRow
    BY <1>0, <1>2, <1>6, WorkerWrites DEF WriteRow
<1>7. CASE FirstChunk
  <2>1. worker'.pc \in {"count", "fetched"} /\ FirstRead'
      BY <1>0, <1>7, WorkerGoesOn
      DEF FirstChunk, WorkerStays, WorkerPlaces, FirstRead
  <2>2. worker.pc = "first"
      BY <1>7 DEF FirstChunk
  <2> QED
      BY <1>0, <1>2, <2>1, <2>2
<1>8. CASE ReadRow \/ ReadEnd \/ StartCounter \/ AssignFuture \/ EmitFetched
  <2>1. \/ worker.pc = "step" /\ worker'.pc \in {"row", "first"}
        \/ worker.pc = "count" /\ worker'.pc = "assign"
        \/ worker.pc = "assign" /\ worker'.pc = "fetched"
        \/ worker.pc = "fetched" /\ worker'.pc = "loop"
      BY <1>0, <1>8, WorkerGoesOn DEF ReadRow, ReadEnd, StartCounter,
         AssignFuture, EmitFetched, WorkerStays, WorkerPlaces
  <2> QED
      BY <1>0, <1>2, <2>1
<1>9. CASE UNCHANGED <<worker, current_task>>
    BY <1>0, <1>2, <1>9
<1> QED
    BY <1>3, <1>4, <1>5, <1>6, <1>7, <1>8, <1>9 DEF Next, vars,
       UiWaits, Scroll, CompleteCache, WaitForFuture, CompleteLoop,
       CompleteLoad, CompleteReturn, HandleSignal, WorkerNext, CounterNext,
       CountStart, CountEnd, CountDone, OtherGets, OtherReleases

\* Until the first chunk was read, the main thread asks for no rows but those.
LEMMA FirstUiKept ==
    ASSUME IInv, [Next]_vars
    PROVE  FirstUi'
<1> USE DEF loader, FirstUi
<1>0. /\ Types /\ Tokens /\ FirstUi /\ FirstAwaited
      /\ current_task \in TaskType /\ next_task \in TaskType
    BY DEF IInv, Types, TypeOK, First, FirstAwaited
<1>1. CASE ClearAndSetQuery
  <2>1. /\ current_task = NoTask /\ next_task = NoTask
        /\ UNCHANGED <<current_task, next_task>>
      BY <1>1 DEF ClearAndSetQuery, Idle
  <2>2. ui'.op = "query" /\ ui'.b = 0
      BY <1>1 DEF ClearAndSetQuery, UiAt
  <2> QED
      BY <2>1, <2>2
<1> SUFFICES ASSUME ~ClearAndSetQuery PROVE FirstUi'
    BY <1>1
<1>2. FirstRead => FirstRead'
    BY <1>0, FirstReadKept
<1>3. CASE NewQuery \/ CompleteCache
    BY <1>3 DEF NewQuery, CompleteCache, UiAt
<1>4. CASE Scroll
  <2>1. ui'.op = "scroll" /\ rowCount # 0 /\ Fresh
    <3>1. PICK row \in 0..(rowCount - 1) :
              ui' = UiAt("trigger", "scroll", 0, 0, LoadRange(row)[1],
                         LoadRange(row)[2])
        BY <1>4 DEF Scroll
    <3>2. rowCount # 0
        BY <1>0, <3>1, Fields
    <3>3. Fresh
        BY <1>4 DEF Scroll, Fresh, UiIdle, UiAt
    <3> QED
        BY <3>1, <3>2, <3>3 DEF UiAt
  <2>2. FirstRead
      BY <1>0, <2>1 DEF FirstAwaited
  <2> QED
      BY <1>2, <2>1, <2>2
<1>5. CASE WaitForFuture
  <2>1. /\ ui.op # "none" /\ started' = started
        /\ ui.pc = "future" /\ ui' = [ui EXCEPT !.pc = "wait"]
      BY <1>0, <1>5 DEF WaitForFuture, Types
  <2>2. ui'.pc = "wait" /\ ui'.op = ui.op
      BY <1>0, <2>1, UiGoesOn DEF UiStays
  <2> QED
      BY <1>0, <1>2, <2>2
<1>6. CASE TriggerInterrupt
  <2>1. /\ ui.op # "none" /\ started' = started
        /\ ui.pc = "trigger" /\ ui' = [ui EXCEPT !.pc = "queue"]
        /\ UNCHANGED <<current_task, next_task>>
      BY <1>0, <1>6 DEF TriggerInterrupt, Types
  <2>2. ui'.pc = "queue" /\ ui'.op = ui.op /\ ui'.b = ui.b
      BY <1>0, <2>1, UiGoesOn DEF UiStays
  <2> QED
      BY <1>0, <1>2, <2>1, <2>2
<1>7. CASE CompleteLoop
  <2>1. /\ ui.op = "complete" /\ started' = started /\ ui.pc = "wait"
        /\ ui' = [ui EXCEPT !.pc = "events"]
        /\ current_task = NoTask /\ next_task = NoTask
      BY <1>7 DEF CompleteLoop, Idle
  <2>2. ui'.op = "complete"
      BY <1>0, <2>1, UiGoesOn DEF UiStays
  <2>3. life > 0 /\ Fresh
      BY <1>0, <2>1 DEF Fresh, Tokens
  <2>4. FirstRead
      BY <1>0, <2>1, <2>3 DEF FirstAwaited
  <2> QED
      BY <1>2, <2>2, <2>4
<1>8. CASE CompleteLoad
  <2>1. ui'.op = "complete" /\ ui.pc = "events"
      BY <1>8 DEF CompleteLoad, UiAt
  <2>2. ui.op = "complete"
      BY <1>0, <2>1 DEF Types
  <2> QED
      BY <1>0, <1>2, <2>1, <2>2
<1>9. CASE TriggerFetch \/ CompleteReturn
    BY <1>9 DEF TriggerFetch, CompleteReturn, UiAt, UiIdle
<1>10. CASE UNCHANGED ui /\ current_task' = NoTask /\ next_task' = next_task
    BY <1>0, <1>2, <1>10
<1>11. CASE TakeTask
    BY <1>0, <1>2, <1>11 DEF TakeTask
<1>12. CASE UNCHANGED <<ui, current_task, next_task>>
    BY <1>0, <1>2, <1>12
<1> QED
    BY <1>3, <1>4, <1>5, <1>6, <1>7, <1>8, <1>9, <1>10, <1>11, <1>12
    DEF Next, vars, UiWaits, HandleSignal, WorkerNext, TaskEnd, ReadRow,
        WriteRow, ReadEnd, FirstChunk, StartCounter, AssignFuture,
        EmitFetched, CounterNext, CountStart, CountEnd, CountDone, OtherGets,
        OtherReleases, OtherInterrupts

\* Until then there is no counter of the query, and its tasks begin at row 0.
LEMMA FirstTasksKept ==
    ASSUME IInv, [Next]_vars
    PROVE  FirstTasks'
<1> USE DEF loader, FirstTasks
<1>0. /\ Types /\ Tasks /\ Tokens /\ FirstTasks /\ FirstUi /\ FirstWorker
      /\ current_task \in TaskType /\ next_task \in TaskType
      /\ life \in 0..Len(Rows) /\ life \in Nat /\ query \in Nat
      /\ \A c \in counters : c.token \in Nat
    BY Fields DEF IInv, Types, TypeOK, First, FirstUi, FirstWorker
<1>1. CASE ClearAndSetQuery
  <2>1. /\ current_task = NoTask /\ next_task = NoTask /\ query' = life
        /\ UNCHANGED <<current_task, next_task, counters>>
      BY <1>1 DEF ClearAndSetQuery, Idle
  <2>2. query < life
    <3>1. ~Fresh
        BY <1>1 DEF ClearAndSetQuery, Fresh
    <3> QED
        BY <1>0, <3>1 DEF Tokens
  <2>3. \A c \in counters : c.token < life
      BY <1>0, <2>2 DEF Tokens
  <2> QED
      BY <2>1, <2>3, <1>0 DEF NoTask
<1> SUFFICES ASSUME ~ClearAndSetQuery PROVE FirstTasks'
    BY <1>1
<1>2. query' = query /\ (FirstRead => FirstRead')
    BY <1>0, FirstReadKept
<1>3. CASE NewQuery \/ TriggerInterrupt \/ OtherInterrupts
  <2>1. \A d \in counters' : \E c \in counters : d.token = c.token
      BY <1>0, <1>3, Interrupted DEF NewQuery, TriggerInterrupt,
         OtherInterrupts, Tasks, Types
  <2>2. /\ current_task'.row_begin = current_task.row_begin
        /\ next_task' \in {next_task, NoTask}
      BY <1>0, <1>3, TaskTyped DEF NewQuery, TriggerInterrupt,
         OtherInterrupts
  <2> QED
      BY <1>0, <1>2, <2>1, <2>2 DEF NoTask
<1>4. CASE TriggerFetch
  <2>1. ui.b = 0 \/ FirstRead
    <3>1. ui.pc = "queue" /\ ui.op # "none"
        BY <1>0, <1>4 DEF TriggerFetch, Types
    <3>2. ui.op \in {"query", "scroll", "complete"}
        BY <1>0, <3>1 DEF Types, UiType
    <3> QED
        BY <1>0, <3>1, <3>2 DEF FirstUi
  <2>2. /\ current_task'.row_begin = current_task.row_begin
        /\ counters' = counters
      BY <1>0, <1>4, TaskTyped DEF TriggerFetch
  <2>3. next_task'.row_begin = ui.b /\ next_task'.cancel = FALSE
      BY <1>4 DEF TriggerFetch, Task
  <2> QED
      BY <1>0, <1>2, <2>1, <2>2, <2>3
<1>5. CASE TaskEnd
    BY <1>0, <1>2, <1>5 DEF TaskEnd, NoTask
<1>6. CASE TakeTask
    BY <1>0, <1>2, <1>6 DEF TakeTask, NoTask
<1>7. CASE StartCounter
  <2>1. FirstRead /\ UNCHANGED <<current_task, next_task>>
      BY <1>0, <1>7 DEF StartCounter, FirstWorker
  <2> QED
      BY <1>0, <1>2, <2>1
<1>8. ASSUME NEW c \in counters, CounterNext(c) PROVE FirstTasks'
  <2>1. \A d \in counters' : d \in counters \/ d.token = c.token
      BY <1>0, <1>8, CounterSteps
  <2>2. UNCHANGED <<current_task, next_task>>
      BY <1>8 DEF CounterNext, CountStart, CountEnd, CountDone
  <2> QED
      BY <1>0, <1>2, <2>1, <2>2
<1>9. CASE UNCHANGED <<counters, current_task, next_task>>
    BY <1>0, <1>2, <1>9
<1> QED
    BY <1>3, <1>4, <1>5, <1>6, <1>7, <1>8, <1>9 DEF Next, vars,
       UiWaits, Scroll, CompleteCache, WaitForFuture, CompleteLoop,
       CompleteLoad, CompleteReturn, HandleSignal, WorkerNext, ReadRow,
       WriteRow, ReadEnd, FirstChunk, AssignFuture, EmitFetched, OtherGets,
       OtherReleases

\* Until then a task is going to read it, and a read that is cut short was
\* aborted.
LEMMA FirstAwaitedKept ==
    ASSUME IInv, [Next]_vars
    PROVE  FirstAwaited'
<1> USE DEF model, loader
<1>0. /\ Types /\ Tasks /\ Tokens /\ Ranges
      /\ FirstWorker /\ FirstUi /\ FirstTasks /\ FirstAwaited
      /\ worker \in WorkerType /\ ui \in UiType
      /\ current_task \in TaskType /\ next_task \in TaskType
      /\ life \in 0..Len(Rows) /\ life \in Nat /\ query \in Nat
      /\ \A s \in Waiting : s.token \in Nat
    BY Fields DEF IInv, Types, TypeOK, First, FirstWorker, FirstUi,
       FirstTasks, FirstAwaited
<1>1. CASE ClearAndSetQuery
  <2>1. /\ current_task = NoTask /\ query' = life /\ rowCount' = 0
        /\ UNCHANGED <<current_task, worker, signals>>
      BY <1>1 DEF ClearAndSetQuery, Idle
  <2>2. query < life
    <3>1. ~Fresh
        BY <1>1 DEF ClearAndSetQuery, Fresh
    <3> QED
        BY <1>0, <3>1 DEF Tokens
  <2>3. \A s \in Waiting' : s.token < life
      BY <1>0, <2>1, <2>2 DEF Tokens, Waiting
  <2>4. ui'.op = "query" /\ ~Active
      BY <1>0, <1>1, <2>1 DEF ClearAndSetQuery, UiAt, Tasks
  <2>5. \A s \in Waiting' : s.token # life
      BY <1>0, <2>1, <2>3 DEF Waiting
  <2> QED
      BY <2>1, <2>4, <2>5 DEF FirstAwaited, Active, NoTask
<1> SUFFICES ASSUME ~ClearAndSetQuery, ~FirstRead', Fresh'
             PROVE  FirstAwaited'
    BY <1>1 DEF FirstAwaited
<1>2. query' = query /\ ~FirstRead /\ Fresh /\ query = life
    BY <1>0, FirstReadKept DEF Tokens
<1>3. /\ rowCount = 0
      /\ \A s \in Waiting : s.token = query => s.kind = "error"
      /\ ui.op # "query" /\ life > 0 =>
             current_task # NoTask \/ next_task # NoTask
      /\ ~current_task.cancel
      /\ worker.pc \in {"step", "row"} => worker.result = "ok" \/ aborted
      /\ worker.pc = "first" => \/ worker.row = current_task.row_end
                                \/ worker.row = Rows[query]
                                \/ aborted
    BY <1>0, <1>2 DEF FirstAwaited
<1>4. worker.pc \notin {"count", "assign", "fetched"}
    BY <1>0, <1>2 DEF FirstWorker
<1>5. CASE NewQuery
    BY <1>5 DEF NewQuery, UiAt, Fresh
<1>6. CASE \/ Scroll \/ CompleteCache \/ WaitForFuture \/ CompleteLoop
           \/ CompleteLoad \/ CompleteReturn
  <2>1. ui'.op # "query" => ui.op # "query"
    <3>1. CASE WaitForFuture
      <4>1. /\ ui.op # "none" /\ started' = started
            /\ ui' = [ui EXCEPT !.pc = "wait"]
          BY <1>0, <3>1 DEF WaitForFuture, Types
      <4> QED
          BY <1>0, <4>1, UiGoesOn DEF UiStays
    <3>2. CASE ~WaitForFuture
        BY <1>0, <1>6, <3>2 DEF Scroll, CompleteCache, CompleteLoop,
           CompleteLoad, CompleteReturn, Types
    <3> QED
        BY <3>1, <3>2
  <2>2. UNCHANGED <<model, signals, current_task, next_task, worker, aborted>>
      BY <1>6 DEF Scroll, CompleteCache, WaitForFuture, CompleteLoop,
         CompleteLoad, CompleteReturn
  <2> QED
      BY <1>2, <1>3, <2>1, <2>2 DEF FirstAwaited, Waiting
<1>7. CASE TriggerInterrupt \/ TriggerFetch
  <2>1. ui.op = "query" /\ ui.pc \in {"trigger", "queue"} /\ life > 0
    <3>1. ui.pc \in {"trigger", "queue"} /\ ui.op # "none" /\ life > 0
        BY <1>0, <1>7 DEF TriggerInterrupt, TriggerFetch, Types, Tokens
    <3>2. ui.op \in {"query", "scroll", "complete"}
        BY <1>0, <3>1 DEF UiType
    <3> QED
        BY <1>0, <1>2, <3>1, <3>2 DEF FirstUi
  <2>2. current_task = NoTask /\ next_task = NoTask
      BY <1>0, <2>1 DEF FirstUi
  <2>3. worker.pc \in {"loop", "idle"}
      BY <1>0, <2>2 DEF Tasks, Active
  <2>4. UNCHANGED <<rowCount, signals, aborted>> /\ life' = life
      BY <1>7 DEF TriggerInterrupt, TriggerFetch
  <2>5. CASE TriggerInterrupt
    <3>1. worker' = worker
        BY <1>0, <2>3, <2>5, Interrupted DEF TriggerInterrupt, Tasks, Types
    <3>2. ui'.op = "query"
      <4>1. ui' = [ui EXCEPT !.pc = "queue"] /\ started' = started
          BY <2>5 DEF TriggerInterrupt
      <4> QED
          BY <1>0, <2>1, <4>1, UiGoesOn DEF UiStays
    <3>3. UNCHANGED <<current_task, next_task>>
        BY <2>5 DEF TriggerInterrupt
    <3> QED
        BY <1>2, <1>3, <2>4, <3>1, <3>2, <3>3 DEF FirstAwaited, Waiting
  <2>6. CASE TriggerFetch
    <3>1. worker' = worker /\ current_task' = current_task
        BY <2>2, <2>6 DEF TriggerFetch, Cancelled
    <3>2. next_task' # NoTask
      <4>1. next_task' = Task(life, ui.b, ui.e)
          BY <2>6 DEF TriggerFetch
      <4> QED
          BY <1>0, <2>1, <4>1 DEF Task, NoTask
    <3> QED
        BY <1>2, <1>3, <2>4, <3>1, <3>2 DEF FirstAwaited, Waiting
  <2> QED
      BY <1>7, <2>5, <2>6
<1>8. CASE HandleSignal
  <2>1. UNCHANGED <<ui, current_task, next_task, worker, aborted>>
      BY <1>8 DEF HandleSignal
  <2>2. Waiting' \subseteq Waiting
      BY <1>0, <1>8, HandledModel
  <2>3. UNCHANGED model
    <3>1. \A s \in Waiting : s.token >= life => s.kind = "error"
        BY <1>0, <1>2, <1>3 DEF Tokens
    <3> QED
        BY <1>0, <1>8, <3>1, HandledModel
  <2> QED
      BY <1>2, <1>3, <2>1, <2>2, <2>3 DEF FirstAwaited
<1>9. CASE TaskEnd
  <2>1. worker.pc = "loop"
      BY <1>9 DEF TaskEnd
  <2>2. current_task = NoTask
      BY <1>0, <1>2, <2>1 DEF FirstWorker
  <2>3. /\ worker'.pc = "idle" /\ current_task' = NoTask
        /\ UNCHANGED <<model, ui, signals, next_task, aborted>>
      BY <1>9 DEF TaskEnd, WorkerAt
  <2> QED
      BY <1>2, <1>3, <2>2, <2>3 DEF FirstAwaited, Waiting
<1>10. CASE TakeTask
  <2>1. /\ next_task # NoTask /\ current_task' = next_task
        /\ worker'.pc \in {"fetched", "step"} /\ worker'.result = "ok"
        /\ UNCHANGED <<model, ui, signals, aborted>>
      BY <1>10 DEF TakeTask, WorkerAt
  <2>2. ~next_task.cancel
      BY <1>0 DEF FirstTasks
  <2> QED
      BY <1>2, <1>3, <2>1, <2>2 DEF FirstAwaited, Waiting
<1>11. CASE ReadRow \/ WriteRow
  <2>1. /\ worker.pc \in {"step", "row"}
        /\ UNCHANGED <<model, ui, signals, current_task, next_task, aborted>>
      BY <1>11 DEF ReadRow, WriteRow
  <2>2. worker'.pc \in {"step", "row"} /\ worker'.result = worker.result
      BY <1>0, <1>11, WorkerGoesOn, WorkerWrites DEF ReadRow, WorkerStays,
         WorkerPlaces
  <2> QED
      BY <1>2, <1>3, <2>1, <2>2 DEF FirstAwaited, Waiting
<1>12. CASE ReadEnd
  <2>1. /\ worker.pc = "step"
        /\ UNCHANGED <<model, ui, current_task, next_task, aborted>>
      BY <1>12 DEF ReadEnd
  <2>2. worker'.pc = "first" /\ worker'.row = worker.row
      BY <1>0, <1>12, WorkerGoesOn DEF ReadEnd, WorkerStays, WorkerPlaces
  <2>3. \/ worker.row = current_task.row_end
        \/ worker.row = Rows[query]
        \/ aborted
    <3>1. CASE worker.result # "ok"
        BY <1>3, <2>1, <3>1
    <3>2. CASE worker.result = "ok"
      <4>1. worker.row >= Smaller(current_task.row_end, Rows[worker.q])
          BY <1>3, <1>12, <3>2 DEF ReadEnd
      <4>2. /\ worker.q = query /\ worker.row <= current_task.row_end
            /\ worker.row <= Rows[query] /\ query > 0
          BY <1>0, <2>1 DEF Tasks, Tokens, Ranges, Active
      <4>3. /\ worker.row \in Nat /\ current_task.row_end \in Nat
            /\ Rows[query] \in Nat
          BY <1>0, <4>2, Fields, QueryRows
      <4> QED
          BY <4>1, <4>2, <4>3 DEF Smaller
    <3> QED
        BY <3>1, <3>2
  <2>4. \A s \in Waiting' : s \in Waiting \/ s.kind = "error"
    <3>1. CASE UNCHANGED signals
        BY <3>1 DEF Waiting
    <3>2. CASE Emit(Signal("error", current_task.token, 0, 0))
      <4>0. current_task.token \in Nat
          BY <1>0, Fields
      <4>1. /\ Signal("error", current_task.token, 0, 0) \in SignalType
            /\ Signal("error", current_task.token, 0, 0).kind = "error"
          BY <4>0, SignalTyped
      <4>2. signals \in Seq(SignalType)
          BY <1>0 DEF Types
      <4>3. Waiting'
              = Waiting \cup {Signal("error", current_task.token, 0, 0)}
          BY <3>2, <4>1, <4>2, Emitted
      <4> QED
          BY <4>1, <4>3
    <3> QED
        BY <1>12, <3>1, <3>2 DEF ReadEnd
  <2> QED
      BY <1>2, <1>3, <2>1, <2>2, <2>3, <2>4 DEF FirstAwaited
<1>13. CASE FirstChunk
    BY <1>13 DEF FirstChunk, FirstRead
<1>14. CASE StartCounter \/ AssignFuture \/ EmitFetched
    BY <1>4, <1>14 DEF StartCounter, AssignFuture, EmitFetched
<1>15. ASSUME NEW c \in counters, CounterNext(c) PROVE FirstAwaited'
  <2>1. \A s \in Waiting' : s \in Waiting \/ s.token = c.token
      BY <1>0, <1>15, CounterSteps
  <2>2. c.token # query
      BY <1>0, <1>2 DEF FirstTasks
  <2>3. UNCHANGED <<model, ui, worker, current_task, next_task, aborted>>
      BY <1>15 DEF CounterNext, CountStart, CountEnd, CountDone
  <2> QED
      BY <1>2, <1>3, <2>1, <2>2, <2>3 DEF FirstAwaited
<1>16. CASE OtherInterrupts
  <2>1. /\ worker'.pc = worker.pc /\ worker'.row = worker.row
        /\ aborted' = TRUE
        /\ UNCHANGED <<model, ui, signals, current_task, next_task>>
      BY <1>0, <1>16, Interrupted DEF OtherInterrupts, Tasks, Types
  <2> QED
      BY <1>2, <1>3, <2>1 DEF FirstAwaited, Waiting
<1>17. CASE UNCHANGED <<model, ui, signals, worker, current_task, next_task,
                        aborted>>
    BY <1>2, <1>3, <1>17 DEF FirstAwaited, Waiting
<1> QED
    BY <1>5, <1>6, <1>7, <1>8, <1>9, <1>10, <1>11, <1>12, <1>13, <1>14,
       <1>15, <1>16, <1>17 DEF Next, vars, UiWaits, WorkerNext, OtherGets,
       OtherReleases

\* So all parts of First are kept.
LEMMA FirstKept ==
    ASSUME IInv, [Next]_vars
    PROVE  First'
BY FirstWorkerKept, FirstUiKept, FirstTasksKept, FirstAwaitedKept
DEF First, FirstWorker, FirstUi, FirstTasks, FirstAwaited

---------------------------------------------------------------------------
(* Row counts. *)

SignalsTrue ==
    \A s \in Waiting : s.token = query /\ s.kind # "error" =>
        /\ s.e <= Rows[query]
        /\ Fresh /\ ~aborted /\ s.kind = "count" => s.e = Rows[query]

CountersTrue ==
    \A c \in counters :
        c.pc = "count" /\ c.token = query => c.rows = Rows[query]

ModelTrue ==
    Fresh /\ life > 0 =>
        /\ rowCount <= Rows[life]
        /\ available = "Complete" /\ ~aborted => realRowCount = Rows[life]

\* That a first chunk was aborted is remembered until the next query.
LEMMA AbortedKept ==
    ASSUME [Next]_vars, ~ClearAndSetQuery
    PROVE  ~aborted' => aborted' = aborted
BY DEF Next, vars, NewQuery, Scroll, CompleteCache, UiWaits, WaitForFuture,
   TriggerInterrupt, TriggerFetch, CompleteLoop, CompleteLoad, CompleteReturn,
   HandleSignal, WorkerNext, TaskEnd, TakeTask, ReadRow, WriteRow, ReadEnd,
   FirstChunk, StartCounter, AssignFuture, EmitFetched, CounterNext,
   CountStart, CountEnd, CountDone, OtherGets, OtherReleases, OtherInterrupts

\* A counter that has counted has the number of rows of its query.
LEMMA CountersTrueKept ==
    ASSUME IInv, [Next]_vars
    PROVE  CountersTrue'
<1> USE DEF loader, CountersTrue
<1>0. /\ Types /\ Tasks /\ Tokens /\ CountersTrue
      /\ life \in Nat /\ query \in Nat
      /\ \A c \in counters : c.token \in Nat /\ c.token <= query
    BY Fields DEF IInv, Totals, Tokens
<1>1. CASE ClearAndSetQuery
  <2>1. query' = life /\ counters' = counters /\ ~Fresh
      BY <1>1 DEF ClearAndSetQuery, Fresh
  <2>2. query < life
      BY <1>0, <2>1 DEF Tokens
  <2>3. \A c \in counters : c.token # life
      BY <1>0, <2>2
  <2> QED
      BY <2>1, <2>3
<1> SUFFICES ASSUME ~ClearAndSetQuery PROVE CountersTrue'
    BY <1>1
<1>2. query' = query
    BY <1>0, FirstReadKept
<1>3. CASE NewQuery \/ TriggerInterrupt \/ OtherInterrupts
  <2>1. \A d \in counters' : \E c \in counters :
            /\ d.token = c.token /\ d.rows = c.rows
            /\ d.pc = c.pc \/ d.pc = "failed"
      BY <1>0, <1>3, Interrupted DEF NewQuery, TriggerInterrupt,
         OtherInterrupts, Tasks, Types
  <2> QED
      BY <1>0, <1>2, <2>1
<1>4. CASE StartCounter
  <2>1. \A d \in counters' : d \in counters \/ d.pc = "start"
      BY <1>4 DEF StartCounter
  <2> QED
      BY <1>0, <1>2, <2>1
<1>5. ASSUME NEW c \in counters, CounterNext(c) PROVE CountersTrue'
    BY <1>0, <1>2, <1>5, CounterSteps
<1>6. CASE UNCHANGED counters
    BY <1>0, <1>2, <1>6
<1> QED
    BY <1>3, <1>4, <1>5, <1>6 DEF Next, vars, Scroll, CompleteCache, UiWaits,
       WaitForFuture, TriggerFetch, CompleteLoop, CompleteLoad,
       CompleteReturn, HandleSignal, WorkerNext, TaskEnd, TakeTask, ReadRow,
       WriteRow, ReadEnd, FirstChunk, AssignFuture, EmitFetched, OtherGets,
       OtherReleases

\* A signal tells of no row beyond its query, and a count is the number of its
\* rows.
LEMMA SignalsTrueKept ==
    ASSUME IInv, [Next]_vars
    PROVE  SignalsTrue'
<1> USE DEF loader
<1>0. /\ Types /\ Tasks /\ Tokens /\ Ranges /\ SignalsTrue /\ CountersTrue
      /\ FirstAwaited /\ FirstTasks /\ FirstWorker
      /\ signals \in Seq(SignalType)
      /\ life \in Nat /\ query \in Nat
      /\ \A s \in Waiting : s.token \in Nat /\ s.token <= query
    BY Fields DEF IInv, Types, Totals, Tokens, CountersTrue, SignalsTrue,
       First, FirstAwaited, FirstTasks, FirstWorker
<1>1. CASE ClearAndSetQuery
  <2>1. query' = life /\ signals' = signals /\ ~Fresh
      BY <1>1 DEF ClearAndSetQuery, Fresh
  <2>2. query < life
      BY <1>0, <2>1 DEF Tokens
  <2>3. \A s \in Waiting : s.token # life
      BY <1>0, <2>2
  <2> QED
      BY <2>1, <2>3 DEF SignalsTrue, Waiting
<1> SUFFICES ASSUME ~ClearAndSetQuery PROVE SignalsTrue'
    BY <1>1
<1>2. query' = query /\ (Fresh' => Fresh) /\ (~aborted' => ~aborted)
    BY <1>0, FirstReadKept, AbortedKept
<1>3. ASSUME Waiting' \subseteq Waiting PROVE SignalsTrue'
    BY <1>0, <1>2, <1>3 DEF SignalsTrue
<1>4. ASSUME NEW s, Waiting' \subseteq Waiting \cup {s},
             s.token = query /\ s.kind # "error" =>
                 /\ s.e <= Rows[query]
                 /\ Fresh /\ ~aborted /\ s.kind = "count" =>
                        s.e = Rows[query]
      PROVE  SignalsTrue'
    BY <1>0, <1>2, <1>4 DEF SignalsTrue
<1>5. CASE HandleSignal
    BY <1>0, <1>3, <1>5, HandledModel
<1>6. CASE UNCHANGED signals
    BY <1>3, <1>6 DEF Waiting
<1>7. CASE ReadEnd /\ Emit(Signal("error", current_task.token, 0, 0))
  <2>0. current_task.token \in Nat
      BY <1>0, Fields
  <2>1. /\ Signal("error", current_task.token, 0, 0) \in SignalType
        /\ Signal("error", current_task.token, 0, 0).kind = "error"
      BY <2>0, SignalTyped
  <2>2. Waiting' = Waiting \cup {Signal("error", current_task.token, 0, 0)}
      BY <1>0, <1>7, <2>1, Emitted
  <2> QED
      BY <1>4, <2>1, <2>2
<1>8. CASE FirstChunk /\ ~ UNCHANGED signals
  <2> DEFINE n == worker.row - current_task.row_begin
             s == Signal("count", current_task.token, n, n)
  <2>1. /\ worker.pc = "first" /\ ~first_chunk_loaded
        /\ worker.row # current_task.row_end /\ Emit(s)
      BY <1>8 DEF FirstChunk
  <2>2. /\ current_task.row_begin <= worker.row
        /\ worker.row <= Rows[query] /\ query > 0
        /\ ~FirstRead
      BY <1>0, <2>1 DEF Tasks, Tokens, Ranges, Active, FirstWorker, FirstRead
  <2>3. /\ worker.row \in Nat /\ current_task.row_begin \in Nat
        /\ Rows[query] \in Nat /\ current_task.token \in Nat
      BY <1>0, <2>2, Fields, QueryRows
  <2>4. n \in Nat /\ n <= Rows[query]
      BY <2>2, <2>3
  <2>5. Fresh /\ ~aborted => n = Rows[query]
    <3>1. current_task.row_begin = 0
        BY <1>0, <2>2 DEF FirstTasks
    <3>2. Fresh /\ ~aborted => worker.row = Rows[query]
        BY <1>0, <2>1, <2>2 DEF FirstAwaited
    <3> QED
        BY <2>3, <3>1, <3>2
  <2>6. s \in SignalType /\ s.e = n
    <3> HIDE DEF n
    <3> QED
        BY <2>3, <2>4 DEF Signal, SignalType
  <2> HIDE DEF n
  <2> HIDE DEF s
  <2>7. Waiting' = Waiting \cup {s}
      BY <1>0, <2>1, <2>6, Emitted
  <2> QED
      BY <1>4, <2>4, <2>5, <2>6, <2>7
<1>9. CASE EmitFetched
  <2> DEFINE s == Signal("fetched", current_task.token,
                         current_task.row_begin, worker.row)
  <2>1. Emit(s) /\ worker.row <= Rows[query]
      BY <1>0, <1>9 DEF EmitFetched, Ranges, Active
  <2>2. /\ current_task.token \in Nat /\ current_task.row_begin \in Nat
        /\ worker.row \in Nat
      BY <1>0, Fields
  <2>3. s \in SignalType /\ s.e = worker.row /\ s.kind = "fetched"
      BY <2>2 DEF Signal, SignalType
  <2> HIDE DEF s
  <2>4. Waiting' = Waiting \cup {s}
      BY <1>0, <2>1, <2>3, Emitted
  <2> QED
      BY <1>4, <2>1, <2>3, <2>4
<1>10. ASSUME NEW c \in counters, CounterNext(c) PROVE SignalsTrue'
  <2>1. \A s \in Waiting' :
            \/ s \in Waiting
            \/ /\ c.pc = "count"
               /\ s.kind = "count" /\ s.token = c.token /\ s.e = c.rows
      BY <1>0, <1>10, CounterSteps
  <2>2. c.pc = "count" /\ c.token = query =>
            c.rows = Rows[query] /\ c.rows <= Rows[query]
    <3>1. c.rows \in Nat
        BY <1>0, Fields
    <3> QED
        BY <1>0, <3>1 DEF CountersTrue
  <2> QED
      BY <1>0, <1>2, <2>1, <2>2 DEF SignalsTrue
<1> QED
    BY <1>5, <1>6, <1>7, <1>8, <1>9, <1>10 DEF Next, vars, NewQuery, Scroll,
       CompleteCache, UiWaits, WaitForFuture, TriggerInterrupt, TriggerFetch,
       CompleteLoop, CompleteLoad, CompleteReturn, WorkerNext, TaskEnd,
       TakeTask, ReadRow, WriteRow, ReadEnd, StartCounter, AssignFuture,
       OtherGets, OtherReleases, OtherInterrupts

\* The model shows no row beyond its query, and a final count is its number.
LEMMA ModelTrueKept ==
    ASSUME IInv, [Next]_vars
    PROVE  ModelTrue'
<1> USE DEF model, loader
<1>0. /\ Types /\ Tasks /\ Tokens /\ SignalsTrue /\ ModelTrue
      /\ life \in Nat /\ query \in Nat
    BY Fields DEF IInv, Totals, SignalsTrue, ModelTrue
<1>1. CASE ClearAndSetQuery
  <2>1. rowCount' = 0 /\ available' = "Unknown" /\ life' = life
      BY <1>1 DEF ClearAndSetQuery
  <2>2. life > 0 => Rows[life] \in Nat
      BY <1>0, QueryRows
  <2> QED
      BY <2>1, <2>2 DEF ModelTrue
<1> SUFFICES ASSUME ~ClearAndSetQuery PROVE ModelTrue'
    BY <1>1
<1>2. (Fresh' => Fresh) /\ (~aborted' => ~aborted)
    BY <1>0, FirstReadKept, AbortedKept
<1>3. CASE NewQuery
    BY <1>3 DEF NewQuery, UiAt, Fresh, ModelTrue
<1>4. CASE UNCHANGED model
    BY <1>0, <1>2, <1>4 DEF ModelTrue
<1>5. CASE HandleSignal /\ ~ UNCHANGED model
  <2>1. life' = life
      BY <1>5 DEF HandleSignal
  <2>2. PICK s \in Waiting :
            /\ s \in SignalType /\ s.token >= life
            /\ s.kind # "error"
            /\ rowCount' \in Nat
            /\ rowCount' = rowCount \/ rowCount' <= s.e
            /\ realRowCount' = IF s.kind = "count" THEN s.e ELSE realRowCount
            /\ available' = IF s.kind = "count" \/ available = "Complete"
                            THEN "Complete" ELSE "Partial"
      BY <1>0, <1>5, HandledModel
  <2>3. Fresh /\ life > 0 => s.token = query /\ query = life
      BY <1>0, <2>2, Fields DEF Tokens
  <2>4. Fresh /\ life > 0 =>
            /\ s.e <= Rows[life]
            /\ ~aborted /\ s.kind = "count" => s.e = Rows[life]
      BY <1>0, <2>2, <2>3 DEF SignalsTrue
  <2>5. Fresh /\ life > 0 => rowCount' <= Rows[life]
    <3>1. Fresh /\ life > 0 => rowCount <= Rows[life] /\ Rows[life] \in Nat
        BY <1>0, QueryRows DEF ModelTrue
    <3>2. s.e \in Nat
        BY <1>0, Fields
    <3> QED
        BY <2>2, <2>4, <3>1, <3>2
  <2>6. Fresh /\ life > 0 /\ ~aborted /\ available' = "Complete" =>
            realRowCount' = Rows[life]
    <3>1. CASE s.kind = "count"
        BY <2>2, <2>4, <3>1
    <3>2. CASE s.kind # "count"
        BY <1>0, <2>2, <3>2 DEF ModelTrue
    <3> QED
        BY <3>1, <3>2
  <2> QED
      BY <1>2, <2>1, <2>5, <2>6 DEF ModelTrue
<1> QED
    BY <1>3, <1>4, <1>5 DEF Next, vars, Scroll, CompleteCache, UiWaits,
       WaitForFuture, TriggerInterrupt, TriggerFetch, CompleteLoop,
       CompleteLoad, CompleteReturn, WorkerNext, TaskEnd, TakeTask, ReadRow,
       WriteRow, ReadEnd, FirstChunk, StartCounter, AssignFuture, EmitFetched,
       CounterNext, CountStart, CountEnd, CountDone, OtherGets, OtherReleases,
       OtherInterrupts

\* So all parts of Totals are kept.
LEMMA TotalsKept ==
    ASSUME IInv, [Next]_vars
    PROVE  Totals'
BY CountersTrueKept, SignalsTrueKept, ModelTrueKept
DEF Totals, CountersTrue, SignalsTrue, ModelTrue

---------------------------------------------------------------------------
(* Loading all rows: who holds the mutex, and whose the counters are. *)

\* The mutex is held over several steps by triggerFetch, and by the worker
\* while it starts a counter.
Mutex ==
    /\ worker.pc = "assign" <=> m = "worker"
    /\ ui.pc = "queue" <=> m = "ui"

\* The rows that the first chunk asks for, and those of them there are.
FirstSize == 2 * HalfChunk - 1
FirstRows == Smaller(FirstSize, Rows[life])

\* Until the first chunk is read, nothing but the whole of it is asked for.
FirstFull ==
    ~FirstRead =>
        /\ \A t \in {current_task, next_task} :
               t # NoTask => t.row_end = FirstSize
        /\ ui.op = "query" /\ ui.pc \in {"trigger", "queue"} =>
               ui.e = FirstSize

\* The counter of the present query is the one whose future is held, or is
\* about to be.
Own ==
    /\ \A c \in counters : c.id > 0
    /\ \A c \in counters : c.token = query =>
           c.id = row_counter \/ (worker.pc = "assign" /\ c.id = started)

\* completeCache asks for a block when the loader is idle.
Quiet ==
    ui.op = "complete" /\ ui.pc \in {"events", "trigger", "queue"} =>
        current_task = NoTask /\ next_task = NoTask

\* The steps of the user interface that leave all else alone.
UiAlone == \/ Scroll \/ CompleteCache \/ WaitForFuture \/ CompleteLoop
           \/ CompleteLoad \/ CompleteReturn

\* Such a step changes the place of the main thread only, and completeCache
\* asks for a block only when the loader is idle.
LEMMA UiAloneMoves ==
    ASSUME IInv, UiAlone
    PROVE  /\ UNCHANGED <<model, signals, cache, m, loader, worker, counters,
                          started, dbUser, aborted>>
           /\ ui'.pc # "queue" /\ ui.pc # "queue"
           /\ ui'.op = "query" => ui'.pc = "wait" /\ ui.op = "query"
           /\ ui'.op = "complete" /\ ui'.pc \in {"events", "trigger"} =>
                  ui.op = "complete" /\ (Idle \/ ui.pc = "events")
<1>0. Types
    BY DEF IInv
<1>1. UNCHANGED <<model, signals, cache, m, loader, worker, counters,
                  started, dbUser, aborted>>
    BY DEF UiAlone, Scroll, CompleteCache, WaitForFuture, CompleteLoop,
       CompleteLoad, CompleteReturn
<1>2. CASE Scroll
  <2>1. ui.pc = "idle" /\ ui'.pc = "trigger" /\ ui'.op = "scroll"
      BY <1>2 DEF Scroll, UiAt, UiIdle
  <2> QED
      BY <1>1, <2>1
<1>3. CASE CompleteCache
  <2>1. ui.pc = "idle" /\ ui'.pc = "future" /\ ui'.op = "complete"
      BY <1>3 DEF CompleteCache, UiAt, UiIdle
  <2> QED
      BY <1>1, <2>1
<1>4. CASE WaitForFuture
  <2>1. ui.pc = "future" /\ ui.op # "none"
      BY <1>0, <1>4 DEF WaitForFuture, Types
  <2>2. ui'.pc = "wait" /\ ui'.op = ui.op
      BY <1>0, <1>4, <2>1, UiGoesOn DEF WaitForFuture, UiStays
  <2> QED
      BY <1>1, <2>1, <2>2
<1>5. CASE CompleteLoop
  <2>1. ui.pc = "wait" /\ ui.op = "complete" /\ Idle
      BY <1>5 DEF CompleteLoop
  <2>2. ui'.pc = "events" /\ ui'.op = ui.op
      BY <1>0, <1>5, <2>1, UiGoesOn DEF CompleteLoop, UiStays
  <2> QED
      BY <1>1, <2>1, <2>2
<1>6. CASE CompleteLoad
  <2>1. ui.pc = "events" /\ ui.op = "complete"
      BY <1>0, <1>6 DEF CompleteLoad, Types
  <2>2. ui'.pc \in {"trigger", "future"} /\ ui'.op = "complete"
      BY <1>6 DEF CompleteLoad, UiAt
  <2> QED
      BY <1>1, <2>1, <2>2
<1>7. CASE CompleteReturn
  <2>1. ui.pc = "wait" /\ ui'.pc = "idle" /\ ui'.op = "none"
      BY <1>7 DEF CompleteReturn, UiAt, UiIdle
  <2> QED
      BY <1>1, <2>1
<1> QED
    BY <1>2, <1>3, <1>4, <1>5, <1>6, <1>7 DEF UiAlone

\* The mutex stays with the one that waits with it.
LEMMA MutexKept ==
    ASSUME IInv, Mutex, [Next]_vars
    PROVE  Mutex'
<1> USE DEF Mutex
<1>0. Types /\ Tasks /\ worker \in WorkerType
    BY DEF IInv, Types
<1>1. CASE NewQuery \/ TriggerInterrupt \/ OtherInterrupts
  <2>1. worker'.pc = worker.pc
      BY <1>0, <1>1, Interrupted DEF NewQuery, TriggerInterrupt,
         OtherInterrupts, Tasks, Types
  <2>2. CASE NewQuery
      BY <2>1, <2>2 DEF NewQuery, UiAt, UiIdle
  <2>3. CASE TriggerInterrupt
    <3>1. ui.op # "none" /\ started' = started
        BY <1>0, <2>3 DEF TriggerInterrupt, Types
    <3>2. ui'.pc = "queue"
        BY <1>0, <2>3, <3>1, UiGoesOn DEF TriggerInterrupt, UiStays
    <3> QED
        BY <2>1, <2>3, <3>2 DEF TriggerInterrupt
  <2>4. CASE OtherInterrupts
      BY <2>1, <2>4 DEF OtherInterrupts
  <2> QED
      BY <1>1, <2>2, <2>3, <2>4
<1>2. CASE UiAlone
    BY <1>2, UiAloneMoves
<1>3. CASE ClearAndSetQuery \/ TriggerFetch
    BY <1>3 DEF ClearAndSetQuery, TriggerFetch, UiAt, UiIdle
<1>4. CASE TaskEnd \/ TakeTask
    BY <1>4 DEF TaskEnd, TakeTask, WorkerAt
<1>5. CASE WriteRow
    BY <1>0, <1>5, WorkerWrites DEF WriteRow
<1>6. CASE ReadRow \/ ReadEnd \/ FirstChunk \/ StartCounter \/ AssignFuture
           \/ EmitFetched
    BY <1>0, <1>6, WorkerGoesOn DEF ReadRow, ReadEnd, FirstChunk,
       StartCounter, AssignFuture, EmitFetched, WorkerStays, WorkerPlaces
<1>7. CASE UNCHANGED <<m, ui, worker>>
    BY <1>7
<1> QED
    BY <1>1, <1>2, <1>3, <1>4, <1>5, <1>6, <1>7 DEF Next, vars, UiAlone,
       UiWaits, HandleSignal, WorkerNext, CounterNext, CountStart, CountEnd,
       CountDone, OtherGets, OtherReleases

\* What becomes of the tasks.
LEMMA TasksAfter ==
    ASSUME IInv, [Next]_vars
    PROVE  \/ /\ current_task' \in {current_task, Cancelled(current_task)}
              /\ \/ next_task' \in {next_task, NoTask}
                 \/ TriggerFetch /\ next_task' = Task(life, ui.b, ui.e)
           \/ current_task' = NoTask /\ next_task' = next_task
           \/ TakeTask /\ current_task' = next_task /\ next_task' = NoTask
BY DEF Next, vars, loader, NewQuery, Scroll, CompleteCache, UiWaits,
   WaitForFuture, ClearAndSetQuery, TriggerInterrupt, TriggerFetch,
   CompleteLoop, CompleteLoad, CompleteReturn, HandleSignal, WorkerNext,
   TaskEnd, TakeTask, ReadRow, WriteRow, ReadEnd, FirstChunk, StartCounter,
   AssignFuture, EmitFetched, CounterNext, CountStart, CountEnd, CountDone,
   OtherGets, OtherReleases, OtherInterrupts

\* Until the first chunk is read, the whole of it is asked for.
LEMMA FirstFullKept ==
    ASSUME IInv, FirstFull, [Next]_vars
    PROVE  FirstFull'
<1> USE DEF loader
<1>0. /\ Types /\ Tokens /\ First /\ ui \in UiType
      /\ current_task \in TaskType /\ next_task \in TaskType
      /\ life \in 0..Len(Rows) /\ ui.b \in Nat /\ ui.e \in Nat
    BY Fields DEF IInv, Types, TypeOK
<1>1. CASE ClearAndSetQuery
  <2>1. current_task' = NoTask /\ next_task' = NoTask
      BY <1>1 DEF ClearAndSetQuery, Idle
  <2>2. ui'.e = FirstSize /\ FirstSize' = FirstSize
      BY <1>1 DEF ClearAndSetQuery, UiAt, FirstSize
  <2> QED
      BY <2>1, <2>2 DEF FirstFull
<1> SUFFICES ASSUME ~ClearAndSetQuery, ~FirstRead' PROVE FirstFull'
    BY <1>1 DEF FirstFull
<1>2. ~FirstRead
    BY <1>0, FirstReadKept
<1>3. /\ \A t \in {current_task, next_task} :
             t # NoTask => t.row_end = FirstSize
      /\ ui.op = "query" /\ ui.pc \in {"trigger", "queue"} =>
             ui.e = FirstSize
    BY <1>2 DEF FirstFull
<1>4. FirstSize' = FirstSize
    BY DEF FirstSize
<1>5. \A t \in {current_task', next_task'} : t # NoTask => t.row_end = FirstSize
  <2>1. /\ Cancelled(current_task).row_end = current_task.row_end
        /\ Cancelled(current_task) = NoTask <=> current_task = NoTask
      BY <1>0, TaskTyped
  <2>2. CASE TriggerFetch
    <3>1. ui.pc = "queue" /\ ui.op # "none"
        BY <1>0, <2>2 DEF TriggerFetch, Types
    <3>2. ui.op \in {"query", "scroll", "complete"}
        BY <1>0, <3>1 DEF UiType
    <3>3. ui.op = "query"
        BY <1>0, <1>2, <3>1, <3>2 DEF First
    <3>4. Task(life, ui.b, ui.e).row_end = FirstSize
        BY <1>0, <1>3, <3>1, <3>3, TaskTyped
    <3>5. /\ current_task' = Cancelled(current_task)
          /\ next_task' = Task(life, ui.b, ui.e)
        BY <2>2 DEF TriggerFetch
    <3> QED
        BY <1>3, <2>1, <3>4, <3>5
  <2>3. CASE ~TriggerFetch
      BY <1>3, <2>1, <2>3, TasksAfter
  <2> QED
      BY <2>2, <2>3
<1>6. ui'.op = "query" /\ ui'.pc \in {"trigger", "queue"} => ui'.e = FirstSize
  <2>1. CASE NewQuery \/ TriggerFetch
      BY <2>1 DEF NewQuery, TriggerFetch, UiAt, UiIdle
  <2>2. CASE UiAlone
      BY <2>2, UiAloneMoves
  <2>3. CASE TriggerInterrupt
    <3>1. ui.op # "none" /\ started' = started /\ ui.pc = "trigger"
        BY <1>0, <2>3 DEF TriggerInterrupt, Types
    <3>2. ui'.op = ui.op /\ ui'.e = ui.e
        BY <1>0, <2>3, <3>1, UiGoesOn DEF TriggerInterrupt, UiStays
    <3> QED
        BY <1>3, <3>1, <3>2
  <2>4. CASE UNCHANGED ui
      BY <1>3, <2>4
  <2> QED
      BY <2>1, <2>2, <2>3, <2>4 DEF Next, vars, UiAlone, UiWaits,
         HandleSignal, WorkerNext, TaskEnd, TakeTask, ReadRow, WriteRow,
         ReadEnd, FirstChunk, StartCounter, AssignFuture, EmitFetched,
         CounterNext, CountStart, CountEnd, CountDone, OtherGets,
         OtherReleases, OtherInterrupts
<1> QED
    BY <1>4, <1>5, <1>6 DEF FirstFull

\* A step of a counter leaves it and the others their numbers and queries.
LEMMA CounterKeeps ==
    ASSUME IInv, NEW c \in counters, CounterNext(c)
    PROVE  \A d \in counters' :
               \E b \in counters : d.id = b.id /\ d.token = b.token
<1>1. c \in CounterType
    BY DEF IInv, Types
<1>2. CASE CountStart(c)
  <2>1. PICK pc : counters' = (counters \ {c})
                     \cup {[c EXCEPT !.pc = pc, !.rows = Rows[query]]}
      BY <1>2 DEF CountStart, Replace
  <2>2. /\ [c EXCEPT !.pc = pc, !.rows = Rows[query]].token = c.token
        /\ [c EXCEPT !.pc = pc, !.rows = Rows[query]].id = c.id
      BY <1>1 DEF CounterType
  <2> QED
      BY <2>1, <2>2
<1>3. CASE CountEnd(c)
  <2>1. counters' = (counters \ {c}) \cup {[c EXCEPT !.pc = "done"]}
      BY <1>3 DEF CountEnd, Replace
  <2>2. /\ [c EXCEPT !.pc = "done"].token = c.token
        /\ [c EXCEPT !.pc = "done"].id = c.id
      BY <1>1 DEF CounterType
  <2> QED
      BY <2>1, <2>2
<1>4. CASE CountDone(c)
    BY <1>4 DEF CountDone
<1> QED
    BY <1>2, <1>3, <1>4 DEF CounterNext

\* The counter of the present query is the one whose future is held, or is
\* about to be.
LEMMA OwnKept ==
    ASSUME IInv, Mutex, Own, [Next]_vars
    PROVE  Own'
<1> USE DEF loader, Own
<1>0. /\ Types /\ Tasks /\ Tokens /\ worker \in WorkerType
      /\ life \in Nat /\ query \in Nat /\ started \in Nat
      /\ \A c \in counters : c.token \in Nat /\ c.id \in Nat
    BY Fields DEF IInv, Types
<1>1. CASE ClearAndSetQuery
  <2>1. query' = life /\ counters' = counters /\ ~Fresh
      BY <1>1 DEF ClearAndSetQuery, Fresh
  <2>2. query < life
      BY <1>0, <2>1 DEF Tokens
  <2>3. \A c \in counters : c.token # life
      BY <1>0, <2>2 DEF Tokens
  <2> QED
      BY <2>1, <2>3
<1> SUFFICES ASSUME ~ClearAndSetQuery PROVE Own'
    BY <1>1
<1>2. query' = query
    BY <1>0, FirstReadKept
<1>3. ASSUME \A d \in counters' :
                 \E b \in counters : d.id = b.id /\ d.token = b.token,
             UNCHANGED <<row_counter, started>>,
             worker'.pc = worker.pc \/ worker.pc # "assign"
      PROVE  Own'
    BY <1>2, <1>3
<1>4. CASE NewQuery \/ TriggerInterrupt \/ OtherInterrupts
  <2>1. /\ \A d \in counters' :
               \E b \in counters : d.id = b.id /\ d.token = b.token
        /\ worker'.pc = worker.pc
      BY <1>0, <1>4, Interrupted DEF NewQuery, TriggerInterrupt,
         OtherInterrupts, Tasks, Types
  <2>2. UNCHANGED <<row_counter, started>>
      BY <1>4 DEF NewQuery, TriggerInterrupt, OtherInterrupts
  <2> QED
      BY <1>3, <2>1, <2>2
<1>5. ASSUME NEW c \in counters, CounterNext(c) PROVE Own'
  <2>1. UNCHANGED <<row_counter, started, worker>>
      BY <1>5 DEF CounterNext, CountStart, CountEnd, CountDone
  <2> QED
      BY <1>3, <1>5, <2>1, CounterKeeps
<1>6. CASE StartCounter
  <2> DEFINE d == [id |-> started + 1, token |-> current_task.token,
                   pc |-> "start", rows |-> 0]
  <2>1. /\ worker.pc = "count" /\ started' = started + 1
        /\ counters' = counters \cup {d}
        /\ row_counter' = row_counter
      BY <1>6 DEF StartCounter
  <2>2. worker'.pc = "assign"
      BY <1>0, <1>6, WorkerGoesOn
      DEF StartCounter, WorkerStays, WorkerPlaces
  <2>3. d.id = started' /\ d.id > 0
      BY <1>0, <2>1
  <2> HIDE DEF d
  <2> QED
      BY <1>2, <2>1, <2>2, <2>3
<1>7. CASE AssignFuture
  <2>1. /\ CounterEnded(row_counter) /\ row_counter' = started
        /\ UNCHANGED <<counters, started>>
      BY <1>7 DEF AssignFuture
  <2>2. \A c \in counters : c.token = query => c.id # row_counter
      BY <1>0, <2>1 DEF CounterEnded
  <2> QED
      BY <1>2, <2>1, <2>2
<1>8. CASE UNCHANGED <<counters, row_counter, started>>
           /\ (worker'.pc = worker.pc \/ worker.pc # "assign")
    BY <1>3, <1>8
<1> QED
    BY <1>4, <1>5, <1>6, <1>7, <1>8 DEF Next, vars, Scroll, CompleteCache,
       UiWaits, WaitForFuture, TriggerFetch, CompleteLoop, CompleteLoad,
       CompleteReturn, HandleSignal, WorkerNext, TaskEnd, TakeTask, ReadRow,
       WriteRow, ReadEnd, FirstChunk, EmitFetched, OtherGets, OtherReleases

\* The loader stays idle while completeCache asks for a block.
LEMMA QuietKept ==
    ASSUME IInv, Quiet, [Next]_vars
    PROVE  Quiet'
<1> USE DEF loader, Quiet
<1>0. Types /\ current_task \in TaskType
    BY DEF IInv, Types, TypeOK
<1>1. CASE NewQuery \/ ClearAndSetQuery \/ TriggerFetch
    BY <1>1 DEF NewQuery, ClearAndSetQuery, TriggerFetch, UiAt, UiIdle
<1>2. CASE UiAlone
  <2>1. UNCHANGED <<current_task, next_task>>
      BY <1>2, UiAloneMoves
  <2> QED
      BY <1>2, <2>1, UiAloneMoves DEF Idle
<1>3. CASE TriggerInterrupt
  <2>1. ui.op # "none" /\ started' = started /\ ui.pc = "trigger"
      BY <1>0, <1>3 DEF TriggerInterrupt, Types
  <2>2. ui'.op = ui.op
      BY <1>0, <1>3, <2>1, UiGoesOn DEF TriggerInterrupt, UiStays
  <2> QED
      BY <1>3, <2>1, <2>2 DEF TriggerInterrupt
<1>4. CASE TaskEnd \/ TakeTask
    BY <1>4 DEF TaskEnd, TakeTask
<1>5. CASE UNCHANGED <<ui, current_task, next_task>>
    BY <1>5
<1> QED
    BY <1>1, <1>2, <1>3, <1>4, <1>5 DEF Next, vars, UiAlone, UiWaits,
       HandleSignal, WorkerNext, ReadRow, WriteRow, ReadEnd, FirstChunk,
       StartCounter, AssignFuture, EmitFetched, CounterNext, CountStart,
       CountEnd, CountDone, OtherGets, OtherReleases, OtherInterrupts

---------------------------------------------------------------------------
(* Loading all rows: what is shown of the first chunk, and the count.      *)

\* The present query is one that loads.
Loads == Fresh /\ life > 0 /\ life \notin Broken /\ ~aborted

\* A query that is being loaded was being loaded before the step too, unless it
\* has just been set.
LEMMA LoadsKept ==
    ASSUME IInv, [Next]_vars, ~ClearAndSetQuery, Loads'
    PROVE  /\ Loads /\ query = life /\ life' = life /\ query' = query
           /\ life > 0 /\ Rows[life] \in Nat /\ query \notin Broken
           /\ FirstRead <=> first_chunk_loaded
           /\ ~FirstChunk => first_chunk_loaded' = first_chunk_loaded
           /\ FirstRows' = FirstRows
           /\ ~NewQuery
<1>0. Types /\ Tokens
    BY DEF IInv
<1>1. ~NewQuery
    BY DEF NewQuery, UiAt, Loads, Fresh
<1>2. life' = life
    BY <1>1 DEF Next, vars, model, Scroll, CompleteCache, UiWaits,
       WaitForFuture, TriggerInterrupt, TriggerFetch, CompleteLoop,
       CompleteLoad, CompleteReturn, HandleSignal, WorkerNext, TaskEnd,
       TakeTask, ReadRow, WriteRow, ReadEnd, FirstChunk, StartCounter,
       AssignFuture, EmitFetched, CounterNext, CountStart, CountEnd,
       CountDone, OtherGets, OtherReleases, OtherInterrupts
<1>3. query' = query /\ Loads /\ (~FirstChunk => (FirstRead' <=> FirstRead))
    BY <1>0, <1>2, FirstReadKept, AbortedKept DEF Loads
<1>4. query = life /\ life > 0 /\ Rows[life] \in Nat
    BY <1>0, <1>3, QueryRows DEF Loads, Tokens
<1>5. query \notin Broken
    BY <1>3, <1>4 DEF Loads
<1>6. first_chunk_loaded \in BOOLEAN /\ (FirstRead <=> first_chunk_loaded)
    BY <1>0, <1>5 DEF FirstRead, Types, TypeOK
<1>7. ~FirstChunk => first_chunk_loaded' = first_chunk_loaded
    BY <1>1 DEF Next, vars, loader, Scroll, CompleteCache, UiWaits,
       WaitForFuture, TriggerInterrupt, TriggerFetch, CompleteLoop,
       CompleteLoad, CompleteReturn, HandleSignal, WorkerNext, TaskEnd,
       TakeTask, ReadRow, WriteRow, ReadEnd, StartCounter,
       AssignFuture, EmitFetched, CounterNext, CountStart, CountEnd,
       CountDone, OtherGets, OtherReleases, OtherInterrupts
<1>8. FirstRows' = FirstRows
    BY <1>2 DEF FirstRows, FirstSize, Smaller
<1> QED
    BY <1>1, <1>2, <1>3, <1>4, <1>5, <1>6, <1>7, <1>8

\* Only the user interface takes a signal out of the queue.
LEMMA WaitingKept ==
    ASSUME IInv, [Next]_vars, ~HandleSignal
    PROVE  Waiting \subseteq Waiting'
<1>0. Types
    BY DEF IInv
<1>1. ASSUME NEW s \in SignalType, Emit(s) PROVE Waiting \subseteq Waiting'
    BY <1>0, <1>1, Emitted DEF Types
<1>2. CASE UNCHANGED signals
    BY <1>2 DEF Waiting
<1>3. /\ current_task.token \in Nat /\ current_task.row_begin \in Nat
      /\ worker.row \in Nat
    BY <1>0, Fields
<1>4. CASE ReadEnd
  <2>1. Signal("error", current_task.token, 0, 0) \in SignalType
      BY <1>3, SignalTyped
  <2> QED
      BY <1>1, <1>2, <1>4, <2>1 DEF ReadEnd
<1>5. CASE FirstChunk /\ ~ UNCHANGED signals
  <2> DEFINE n == worker.row - current_task.row_begin
  <2>1. worker.pc = "first" /\ Emit(Signal("count", current_task.token, n, n))
      BY <1>5 DEF FirstChunk
  <2>2. n \in Nat
      BY <1>3, <2>1 DEF IInv, Ranges, Active
  <2> HIDE DEF n
  <2> QED
      BY <1>1, <1>3, <2>1, <2>2, SignalTyped
<1>6. CASE EmitFetched
    BY <1>1, <1>3, <1>6, SignalTyped DEF EmitFetched
<1>7. ASSUME NEW c \in counters, CounterNext(c)
      PROVE  Waiting \subseteq Waiting'
  <2>1. Signal("count", c.token, c.rows, c.rows) \in SignalType
      BY <1>0, Fields, SignalTyped
  <2> QED
      BY <1>1, <1>2, <1>7, <2>1
      DEF CounterNext, CountStart, CountEnd, CountDone
<1> QED
    BY <1>2, <1>4, <1>5, <1>6, <1>7 DEF Next, vars, NewQuery, Scroll,
       CompleteCache, UiWaits, WaitForFuture, ClearAndSetQuery,
       TriggerInterrupt, TriggerFetch, CompleteLoop, CompleteLoad,
       CompleteReturn, WorkerNext, TaskEnd, TakeTask, ReadRow, WriteRow,
       StartCounter, AssignFuture, OtherGets, OtherReleases, OtherInterrupts

\* What is shown only grows with the signals of the present query, and only a
\* row count makes it final.
LEMMA SignalHandled ==
    ASSUME IInv, HandleSignal, query = life
    PROVE  \E s \in Waiting :
               /\ Waiting \subseteq Waiting' \cup {s}
               /\ rowCount' >= rowCount
               /\ s.token = query /\ s.kind = "fetched" => rowCount' >= s.e
               /\ available = "Complete" => available' = "Complete"
               /\ s.token = query /\ s.kind = "count" =>
                      available' = "Complete"
               /\ available' = "Complete" /\ available # "Complete" =>
                      /\ s.token = query /\ s.kind = "count"
                      /\ rowCount' >= Smaller(s.e, RowsLimit)
<1> USE DEF model
<1> DEFINE s == Head(signals)
<1>0. /\ Types /\ Tokens /\ rowCount \in Nat /\ RowsLimit \in Nat
      /\ life \in Nat /\ signals \in Seq(SignalType)
    BY RowLoaderAssumption, Fields DEF IInv, Types
<1>1. s \in Waiting /\ s \in SignalType
    BY <1>0, Handled DEF HandleSignal
<1>2. Waiting \subseteq Waiting' \cup {s}
  <2>1. /\ signals' = Tail(signals) /\ signals # << >>
      BY DEF HandleSignal
  <2>2. /\ Len(signals) \in Nat /\ Len(signals') = Len(signals) - 1
        /\ \A i \in 1..Len(signals') : signals'[i] = signals[i + 1]
        /\ Head(signals) = signals[1]
      BY <1>0, <2>1, HeadTailProperties, LenProperties, EmptySeq
  <2>3. ASSUME NEW i \in 1..Len(signals)
        PROVE  signals[i] \in Waiting' \cup {s}
    <3>1. CASE i = 1
        BY <2>2, <3>1
    <3>2. CASE i # 1
      <4>1. i - 1 \in 1..Len(signals')
          BY <2>2, <3>2
      <4>2. signals'[i - 1] = signals[i]
          BY <2>2, <4>1
      <4> QED
          BY <4>1, <4>2 DEF Waiting
    <3> QED
        BY <3>1, <3>2
  <2> QED
      BY <2>3 DEF Waiting
<1>3. /\ s.token \in Nat /\ s.e \in Nat /\ s.token <= query
      /\ s.kind \in {"error", "count", "fetched"}
    BY <1>0, <1>1 DEF SignalType, Tokens
<1>4. CASE Late(s) \/ s.kind = "error"
  <2>1. UNCHANGED model
      BY <1>4 DEF HandleSignal
  <2>2. s.token = query => s.kind = "error"
      BY <1>0, <1>3, <1>4 DEF Late
  <2> QED
      BY <1>0, <1>1, <1>2, <2>1, <2>2
<1>5. CASE ~ (Late(s) \/ s.kind = "error")
  <2>1. /\ rowCount' = Larger(rowCount, IF s.kind = "count"
                                        THEN Smaller(s.e, RowsLimit) ELSE s.e)
        /\ available' = IF s.kind = "count" \/ available = "Complete"
                        THEN "Complete" ELSE "Partial"
      BY <1>5 DEF HandleSignal
  <2>2. s.token = query
      BY <1>0, <1>3, <1>5 DEF Late
  <2> HIDE DEF s
  <2>3. CASE s.kind = "count"
    <3>1. Smaller(s.e, RowsLimit) \in Nat
        BY <1>0, <1>3 DEF Smaller
    <3>2. rowCount' >= rowCount /\ rowCount' >= Smaller(s.e, RowsLimit)
        BY <1>0, <2>1, <2>3, <3>1 DEF Larger
    <3> QED
        BY <1>1, <1>2, <2>1, <2>2, <2>3, <3>2
  <2>4. CASE s.kind # "count"
    <3>1. rowCount' >= rowCount /\ rowCount' >= s.e
        BY <1>0, <1>3, <2>1, <2>4 DEF Larger
    <3> QED
        BY <1>1, <1>2, <2>1, <2>2, <2>4, <3>1
  <2> QED
      BY <2>3, <2>4
<1> QED
    BY <1>4, <1>5

\* The row count of the model changes by signals and by a new query only.
LEMMA ModelStays ==
    ASSUME [Next]_vars, ~HandleSignal, ~ClearAndSetQuery
    PROVE  UNCHANGED <<rowCount, available>>
BY DEF Next, vars, model, NewQuery, Scroll, CompleteCache, UiWaits,
   WaitForFuture, TriggerInterrupt, TriggerFetch, CompleteLoop, CompleteLoad,
   CompleteReturn, WorkerNext, TaskEnd, TakeTask, ReadRow, WriteRow, ReadEnd,
   FirstChunk, StartCounter, AssignFuture, EmitFetched, CounterNext,
   CountStart, CountEnd, CountDone, OtherGets, OtherReleases, OtherInterrupts

\* Once the first chunk has been read, its rows are shown, or will be.
Shown ==
    Loads /\ first_chunk_loaded =>
        \/ rowCount >= FirstRows
        \/ \E s \in Waiting : /\ s.token = query /\ s.kind = "fetched"
                              /\ s.e >= FirstRows
        \/ /\ worker.pc \in {"count", "assign", "fetched"}
           /\ worker.row >= FirstRows

\* Once the first chunk has been read, its rows are shown, or will be.
LEMMA ShownKept ==
    ASSUME IInv, FirstFull, Shown, [Next]_vars
    PROVE  Shown'
<1> USE DEF loader, model
<1>0. /\ Types /\ Tasks /\ Tokens /\ Ranges /\ First
      /\ worker \in WorkerType /\ worker.row \in Nat
      /\ rowCount \in Nat /\ current_task.row_end \in Nat
      /\ HalfChunk \in Nat /\ HalfChunk >= 2
      /\ \A s \in Waiting : s.e \in Nat
    BY Fields, HalfChunkType DEF IInv, Types
<1>1. CASE ClearAndSetQuery
    BY <1>1 DEF ClearAndSetQuery, Shown
<1> SUFFICES ASSUME ~ClearAndSetQuery, Loads', first_chunk_loaded'
             PROVE  \/ rowCount' >= FirstRows
                    \/ \E s \in Waiting' : /\ s.token = query
                                           /\ s.kind = "fetched"
                                           /\ s.e >= FirstRows
                    \/ /\ worker'.pc \in {"count", "assign", "fetched"}
                       /\ worker'.row >= FirstRows
  <2>1. Loads' /\ ~ClearAndSetQuery => FirstRows' = FirstRows /\ query' = query
      BY LoadsKept
  <2> QED
      BY <1>1, <2>1 DEF Shown
<1>2. /\ Loads /\ query = life /\ Rows[life] \in Nat /\ life > 0
      /\ FirstRead <=> first_chunk_loaded
      /\ ~FirstChunk => first_chunk_loaded
      /\ ~NewQuery
    BY LoadsKept
<1>3. FirstRows \in Nat /\ FirstRows <= FirstSize /\ FirstRows <= Rows[life]
    BY <1>0, <1>2 DEF FirstRows, FirstSize, Smaller
<1>4. CASE FirstChunk /\ ~first_chunk_loaded
  <2>1. /\ worker.pc = "first" /\ Fresh /\ ~aborted /\ ~FirstRead
        /\ current_task # NoTask
      BY <1>0, <1>2, <1>4 DEF FirstChunk, Loads, Tasks, Active
  <2>2. worker.row = current_task.row_end \/ worker.row = Rows[query]
      BY <1>0, <2>1 DEF First
  <2>3. current_task.row_end = FirstSize
      BY <2>1 DEF FirstFull
  <2>4. worker.row >= FirstRows
      BY <1>0, <1>2, <1>3, <2>2, <2>3
  <2>5. worker'.pc \in {"count", "fetched"} /\ worker'.row = worker.row
      BY <1>0, <1>4, WorkerGoesOn
      DEF FirstChunk, WorkerStays, WorkerPlaces
  <2> QED
      BY <2>4, <2>5
<1> SUFFICES ASSUME first_chunk_loaded
             PROVE  \/ rowCount' >= FirstRows
                    \/ \E s \in Waiting' : /\ s.token = query
                                           /\ s.kind = "fetched"
                                           /\ s.e >= FirstRows
                    \/ /\ worker'.pc \in {"count", "assign", "fetched"}
                       /\ worker'.row >= FirstRows
    BY <1>2, <1>4
<1>5. CASE HandleSignal
  <2>1. PICK s \in Waiting :
            /\ Waiting \subseteq Waiting' \cup {s}
            /\ rowCount' >= rowCount
            /\ s.token = query /\ s.kind = "fetched" => rowCount' >= s.e
      BY <1>2, <1>5, SignalHandled
  <2>2. worker' = worker
      BY <1>5 DEF HandleSignal
  <2>3. rowCount' \in Nat
      BY <1>0, ModelTyped
  <2>4. CASE rowCount >= FirstRows
      BY <1>0, <1>3, <2>1, <2>3, <2>4
  <2>5. CASE \E t \in Waiting : /\ t.token = query /\ t.kind = "fetched"
                                /\ t.e >= FirstRows
    <3>1. PICK t \in Waiting : /\ t.token = query /\ t.kind = "fetched"
                               /\ t.e >= FirstRows
        BY <2>5
    <3>2. CASE t = s
        BY <1>0, <1>3, <2>1, <2>3, <3>1, <3>2
    <3>3. CASE t # s
        BY <2>1, <3>1, <3>3
    <3> QED
        BY <3>2, <3>3
  <2> QED
      BY <1>2, <2>2, <2>4, <2>5 DEF Shown
<1>6. CASE ~HandleSignal
  <2>1. rowCount' = rowCount /\ Waiting \subseteq Waiting'
      BY <1>6, ModelStays, WaitingKept
  <2>2. CASE rowCount >= FirstRows \/ \E s \in Waiting :
                 s.token = query /\ s.kind = "fetched" /\ s.e >= FirstRows
      BY <2>1, <2>2
  <2>3. CASE /\ worker.pc \in {"count", "assign", "fetched"}
             /\ worker.row >= FirstRows
    <3>1. CASE EmitFetched
      <4> DEFINE s == Signal("fetched", current_task.token,
                             current_task.row_begin, worker.row)
      <4>1. /\ current_task.token \in Nat /\ current_task.row_begin \in Nat
            /\ signals \in Seq(SignalType) /\ Emit(s)
            /\ current_task.token = query
          BY <1>0, <2>3, <3>1, Fields
          DEF EmitFetched, Types, Tasks, Tokens, Active
      <4>2. /\ s \in SignalType /\ s.kind = "fetched" /\ s.token = query
            /\ s.e = worker.row
          BY <1>0, <4>1 DEF Signal, SignalType
      <4> HIDE DEF s
      <4>3. s \in Waiting'
          BY <4>1, <4>2, Emitted
      <4> QED
          BY <2>3, <4>2, <4>3
    <3>2. CASE StartCounter \/ AssignFuture
        BY <1>0, <2>3, <3>2, WorkerGoesOn DEF StartCounter, AssignFuture,
           WorkerStays, WorkerPlaces
    <3>3. CASE TriggerInterrupt \/ OtherInterrupts
        BY <1>0, <2>3, <3>3, Interrupted DEF TriggerInterrupt,
           OtherInterrupts, Tasks, Types
    <3>4. CASE UNCHANGED worker
        BY <2>3, <3>4
    <3> QED
        BY <1>2, <1>6, <2>3, <3>1, <3>2, <3>3, <3>4 DEF Next, vars, Scroll,
           CompleteCache, UiWaits, WaitForFuture, TriggerFetch, CompleteLoop,
           CompleteLoad, CompleteReturn, WorkerNext, TaskEnd, TakeTask,
           ReadRow, WriteRow, ReadEnd, FirstChunk, CounterNext, CountStart,
           CountEnd, CountDone, OtherGets, OtherReleases
  <2> QED
      BY <1>2, <2>2, <2>3 DEF Shown
<1> QED
    BY <1>5, <1>6

\* The rows that are shown in the end.
Limit == Smaller(Rows[life], RowsLimit)

\* A row count that is shown as final leaves no row out, and after the first
\* chunk one is shown, or under way.
Counts ==
    Loads =>
        /\ available = "Complete" => rowCount >= Limit
        /\ first_chunk_loaded =>
               \/ available = "Complete"
               \/ \E s \in Waiting : s.token = query /\ s.kind = "count"
               \/ worker.pc = "count"
               \/ \E c \in counters :
                      c.token = query /\ c.pc \in {"start", "count"}

\* The counter of the present query is not interrupted by the loader.
LEMMA CounterGoesOn ==
    ASSUME IInv, Mutex, Own, [Next]_vars, Loads', ~ClearAndSetQuery,
           NEW c \in counters, c.token = query, c.pc \in {"start", "count"}
    PROVE  \/ \E d \in counters' :
                  d.token = query /\ d.pc \in {"start", "count"}
           \/ \E s \in Waiting' : s.token = query /\ s.kind = "count"
<1>0. /\ Types /\ c \in CounterType /\ c.token \in Nat /\ c.rows \in Nat
      /\ row_counter \in Nat /\ c.id > 0
    BY DEF IInv, Types, TypeOK, CounterType, Own
<1>1. query \notin Broken /\ ~NewQuery
    BY LoadsKept
<1>2. CASE c \in counters'
    BY <1>2
<1>3. CASE TriggerInterrupt
  <2>1. m = "free"
      BY <1>3 DEF TriggerInterrupt
  <2>2. c.id = row_counter
      BY <2>1 DEF Own, Mutex
  <2>3. ~CounterEnded(row_counter)
      BY <1>0, <2>2 DEF CounterEnded
  <2>4. counters' = counters
      BY <1>3, <2>3 DEF TriggerInterrupt, NoInterrupt
  <2> QED
      BY <2>4
<1>4. CASE OtherInterrupts
    BY <1>4 DEF OtherInterrupts, Loads
<1>5. ASSUME NEW b \in counters, CounterNext(b), b # c PROVE c \in counters'
    BY <1>5 DEF CounterNext, CountStart, CountEnd, CountDone, Replace
<1>6. CASE CountStart(c)
  <2> DEFINE d == [c EXCEPT !.pc = "count", !.rows = Rows[query]]
  <2>1. d \in counters'
      BY <1>1, <1>6 DEF CountStart, Replace
  <2>2. d.token = query /\ d.pc = "count"
      BY <1>0 DEF CounterType
  <2> HIDE DEF d
  <2> QED
      BY <2>1, <2>2
<1>7. CASE CountEnd(c)
  <2> DEFINE s == Signal("count", c.token, c.rows, c.rows)
  <2>1. Emit(s) /\ signals \in Seq(SignalType)
      BY <1>0, <1>7 DEF CountEnd, Types
  <2>2. s \in SignalType /\ s.token = query /\ s.kind = "count"
      BY <1>0 DEF Signal, SignalType
  <2> HIDE DEF s
  <2>3. s \in Waiting'
      BY <2>1, <2>2, Emitted
  <2> QED
      BY <2>2, <2>3
<1>8. CASE CountDone(c)
    BY <1>8 DEF CountDone
<1>9. CASE StartCounter
    BY <1>9 DEF StartCounter
<1> QED
    BY <1>1, <1>2, <1>3, <1>4, <1>5, <1>6, <1>7, <1>8, <1>9 DEF Next, vars,
       Scroll, CompleteCache, UiWaits, WaitForFuture, TriggerFetch,
       CompleteLoop, CompleteLoad, CompleteReturn, HandleSignal, WorkerNext,
       TaskEnd, TakeTask, ReadRow, WriteRow, ReadEnd, FirstChunk,
       AssignFuture, EmitFetched, CounterNext, OtherGets, OtherReleases

\* A count shown as final leaves no row out, and after the first chunk one is
\* shown, or under way.
LEMMA CountsKept ==
    ASSUME IInv, Mutex, Own, Counts, [Next]_vars
    PROVE  Counts'
<1> USE DEF loader, model
<1>0. /\ Types /\ Tasks /\ Tokens /\ Totals
      /\ worker \in WorkerType /\ worker.row \in Nat /\ rowCount \in Nat
      /\ current_task.token \in Nat /\ current_task.row_begin \in Nat
      /\ signals \in Seq(SignalType) /\ RowsLimit \in Nat
    BY RowLoaderAssumption, Fields DEF IInv, Types
<1>1. CASE ClearAndSetQuery
    BY <1>1 DEF ClearAndSetQuery, Counts
<1> SUFFICES ASSUME ~ClearAndSetQuery, Loads' PROVE Counts'
    BY <1>1 DEF Counts
<1>2. /\ Loads /\ query = life /\ Rows[life] \in Nat /\ life > 0
      /\ query' = query /\ life' = life /\ Limit' = Limit /\ Limit \in Nat
      /\ ~FirstChunk => first_chunk_loaded' = first_chunk_loaded
      /\ ~NewQuery
    BY <1>0, LoadsKept DEF Limit, Smaller
<1>3. available' = "Complete" => rowCount' >= Limit
  <2>1. CASE HandleSignal
    <3>1. PICK s \in Waiting :
              /\ rowCount' >= rowCount
              /\ available' = "Complete" /\ available # "Complete" =>
                     /\ s.token = query /\ s.kind = "count"
                     /\ rowCount' >= Smaller(s.e, RowsLimit)
        BY <1>2, <2>1, SignalHandled
    <3>2. s.token = query /\ s.kind = "count" => s.e = Rows[life]
        BY <1>0, <1>2 DEF Totals, Loads
    <3>3. rowCount' \in Nat
        BY <1>0, ModelTyped
    <3>4. CASE available = "Complete"
        BY <1>0, <1>2, <3>1, <3>3, <3>4 DEF Counts
    <3>5. CASE available # "Complete"
        BY <3>1, <3>2, <3>5 DEF Limit
    <3> QED
        BY <3>4, <3>5
  <2>2. CASE ~HandleSignal
      BY <1>2, <2>2, ModelStays DEF Counts
  <2> QED
      BY <2>1, <2>2
<1> DEFINE Goal == \/ available' = "Complete"
                   \/ \E s \in Waiting' : s.token = query /\ s.kind = "count"
                   \/ worker'.pc = "count"
                   \/ \E c \in counters' :
                          c.token = query /\ c.pc \in {"start", "count"}
<1>4. ASSUME FirstChunk, ~first_chunk_loaded PROVE Goal
  <2>1. current_task.token = query
      BY <1>0, <1>4 DEF FirstChunk, Tasks, Tokens, Active
  <2>2. CASE worker.row = current_task.row_end
    <3>1. worker' = [worker EXCEPT !.pc = "count"]
        BY <1>4, <2>2 DEF FirstChunk
    <3> QED
        BY <1>0, <3>1, WorkerGoesOn DEF WorkerStays, WorkerPlaces
  <2>3. CASE worker.row # current_task.row_end
    <3> DEFINE n == worker.row - current_task.row_begin
               s == Signal("count", current_task.token, n, n)
    <3>1. Emit(s) /\ worker.pc = "first"
        BY <1>4, <2>3 DEF FirstChunk
    <3>2. n \in Nat
        BY <1>0, <3>1 DEF IInv, Ranges, Active
    <3>3. s \in SignalType /\ s.token = query /\ s.kind = "count"
      <4> HIDE DEF n
      <4> QED
          BY <1>0, <2>1, <3>2 DEF Signal, SignalType
    <3> HIDE DEF n
    <3> HIDE DEF s
    <3>4. s \in Waiting'
        BY <1>0, <3>1, <3>3, Emitted
    <3> QED
        BY <3>3, <3>4
  <2> QED
      BY <2>2, <2>3
<1>5. ASSUME first_chunk_loaded PROVE Goal
  <2>1. CASE available = "Complete"
    <3>1. CASE HandleSignal
        BY <1>2, <2>1, <3>1, SignalHandled
    <3>2. CASE ~HandleSignal
        BY <2>1, <3>2, ModelStays
    <3> QED
        BY <3>1, <3>2
  <2>2. ASSUME NEW t \in Waiting, t.token = query, t.kind = "count"
        PROVE  Goal
    <3>1. CASE HandleSignal
      <4>1. PICK s \in Waiting :
                /\ Waiting \subseteq Waiting' \cup {s}
                /\ s.token = query /\ s.kind = "count" =>
                       available' = "Complete"
          BY <1>2, <3>1, SignalHandled
      <4> QED
          BY <2>2, <4>1
    <3>2. CASE ~HandleSignal
        BY <2>2, <3>2, WaitingKept
    <3> QED
        BY <3>1, <3>2
  <2>3. CASE worker.pc = "count"
    <3>1. CASE StartCounter
      <4> DEFINE c == [id |-> started + 1, token |-> current_task.token,
                       pc |-> "start", rows |-> 0]
      <4>1. c \in counters'
          BY <3>1 DEF StartCounter
      <4>2. c.token = query /\ c.pc = "start"
          BY <1>0, <2>3 DEF Tasks, Tokens, Active
      <4> HIDE DEF c
      <4> QED
          BY <4>1, <4>2
    <3>2. CASE TriggerInterrupt \/ OtherInterrupts
      <4>1. worker'.pc = worker.pc
          BY <1>0, <3>2, Interrupted DEF TriggerInterrupt, OtherInterrupts,
             Tasks, Types
      <4> QED
          BY <2>3, <4>1
    <3>3. CASE UNCHANGED worker
        BY <2>3, <3>3
    <3> QED
        BY <1>2, <2>3, <3>1, <3>2, <3>3 DEF Next, vars, Scroll,
           CompleteCache, UiWaits, WaitForFuture, TriggerFetch, CompleteLoop,
           CompleteLoad, CompleteReturn, HandleSignal, WorkerNext, TaskEnd,
           TakeTask, ReadRow, WriteRow, ReadEnd, FirstChunk, AssignFuture,
           EmitFetched, CounterNext, CountStart, CountEnd, CountDone,
           OtherGets, OtherReleases
  <2>4. ASSUME NEW c \in counters, c.token = query,
               c.pc \in {"start", "count"}
        PROVE  Goal
      BY <2>4, CounterGoesOn
  <2>5. \/ available = "Complete"
        \/ \E s \in Waiting : s.token = query /\ s.kind = "count"
        \/ worker.pc = "count"
        \/ \E c \in counters : c.token = query /\ c.pc \in {"start", "count"}
      BY <1>2, <1>5 DEF Counts
  <2> QED
      BY <2>1, <2>2, <2>3, <2>4, <2>5
<1>6. first_chunk_loaded' => Goal
  <2>1. first_chunk_loaded' => FirstChunk \/ first_chunk_loaded
      BY <1>2
  <2> HIDE DEF Goal
  <2> QED
      BY <1>4, <1>5, <2>1
<1> QED
    BY <1>2, <1>3, <1>6 DEF Counts

---------------------------------------------------------------------------
(* Loading all rows: the blocks that have been passed. *)

\* The loader is still going to write row r, which was asked for.
Pending(r) ==
    /\ ui.pc \in {"future", "wait"}
    /\ \/ /\ next_task # NoTask
          /\ next_task.row_begin <= r /\ r < next_task.row_end
       \/ /\ worker.pc \in {"step", "row"}
          /\ worker.result = "ok" /\ ~current_task.cancel
          /\ worker.row <= r /\ r < current_task.row_end

\* The rows of the blocks before i are in the cache, or about to be ...
Passed ==
    ui.op = "complete" /\ Loads =>
        \A r \in 0..(Limit - 1) :
            r < ui.i - HalfChunk => InCache(r) \/ Pending(r)

\* ... and those of block i are, or will be asked for.
Block ==
    ui.op = "complete" /\ ui.pc \in {"trigger", "queue"} /\ Loads =>
        \A r \in 0..(Limit - 1) :
            ui.i - HalfChunk <= r /\ r < ui.i + HalfChunk =>
                InCache(r) \/ (ui.b <= r /\ r < ui.e)

\* From the first block on, the first chunk is shown; from the second on,
\* the row count is final, as its counter is waited for after each block.
Progress ==
    ui.op = "complete" /\ Loads =>
        /\ ui.i > 0 \/ ui.pc \in {"trigger", "queue"} =>
               FirstRead /\ rowCount >= FirstRows
        /\ \/ ui.i > ChunkSize
           \/ ui.i > 0 /\ ui.pc \in {"trigger", "queue"}
           => available = "Complete"
        /\ ui.i > 0 =>
               /\ ui.i >= ChunkSize
               /\ worker.pc \notin {"count", "assign"}
               /\ IF ui.pc = "future" THEN ui.fut = row_counter
                                      ELSE CounterEnded(row_counter)

\* A row that is written is in the cache, and all that were there still are.
LEMMA RowWritten ==
    ASSUME Types, WriteRow, NEW r, InCache(r) \/ r = worker.row
    PROVE  InCache(r)'
<1> DEFINE d == [row |-> worker.row, q |-> worker.q]
<1>1. cache' = {c \in cache : c.row # worker.row} \cup {d}
    BY WorkerWrites
<1>2. d \in cache' /\ d.row = worker.row
    BY <1>1
<1> HIDE DEF d
<1>3. CASE r = worker.row
    BY <1>2, <1>3 DEF InCache
<1>4. CASE r # worker.row
  <2>1. PICK c \in cache : c.row = r
      BY <1>4 DEF InCache
  <2>2. c \in cache'
      BY <1>1, <1>4, <2>1
  <2> QED
      BY <2>1, <2>2 DEF InCache
<1> QED
    BY <1>3, <1>4

\* A row that is loaded stays so until the next query.
LEMMA InCacheKept ==
    ASSUME IInv, [Next]_vars, ~ClearAndSetQuery, NEW r, InCache(r)
    PROVE  InCache(r)'
<1>0. Types
    BY DEF IInv
<1>1. CASE WriteRow
    BY <1>0, <1>1, RowWritten
<1>2. CASE UNCHANGED cache
    BY <1>2 DEF InCache
<1> QED
    BY <1>1, <1>2 DEF Next, vars, NewQuery, Scroll, CompleteCache, UiWaits,
       WaitForFuture, TriggerInterrupt, TriggerFetch, CompleteLoop,
       CompleteLoad, CompleteReturn, HandleSignal, WorkerNext, TaskEnd,
       TakeTask, ReadRow, ReadEnd, FirstChunk, StartCounter, AssignFuture,
       EmitFetched, CounterNext, CountStart, CountEnd, CountDone, OtherGets,
       OtherReleases, OtherInterrupts

\* The range to load has all rows of its block that are missing.
LEMMA LoadRangeCovers ==
    ASSUME IInv, NEW row \in Nat, NEW r \in Nat,
           row <= r + HalfChunk, r < row + HalfChunk,
           available = "Complete" => r < rowCount, ~InCache(r)
    PROVE  LoadRange(row)[1] <= r /\ r < LoadRange(row)[2]
<1> DEFINE b == Larger(0, row - HalfChunk)
           e == IF available = "Complete"
                THEN Smaller(row + HalfChunk, rowCount) ELSE row + HalfChunk
<1>0. rowCount \in Nat /\ HalfChunk \in Nat
    BY Fields, HalfChunkType DEF IInv
<1>1. b \in Nat /\ e \in Int /\ b <= r /\ r < e
    BY <1>0 DEF Larger, Smaller
<1>2. LoadRange(row) = SmallestNonAvailable(b, e)
    BY DEF LoadRange
<1> HIDE DEF b, e
<1> QED
    BY <1>1, <1>2, MissingRange

\* What a step does to the rows that are pending.
LEMMA PendingKept ==
    ASSUME IInv, [Next]_vars, ~ClearAndSetQuery, Loads',
           ui' = ui, NEW r \in 0..(Limit - 1), Pending(r)
    PROVE  InCache(r)' \/ Pending(r)'
<1> USE DEF loader
<1>0. /\ Types /\ Tasks /\ Tokens /\ Ranges /\ First
      /\ worker \in WorkerType /\ worker.row \in Nat
      /\ current_task.row_end \in Nat
      /\ next_task.row_begin \in Nat /\ next_task.row_end \in Nat
      /\ RowsLimit \in Nat
    BY RowLoaderAssumption, Fields DEF IInv, Types
<1>1. /\ Loads /\ query = life /\ Rows[life] \in Nat /\ query \notin Broken
      /\ ~NewQuery
    BY LoadsKept
<1>2. r \in Nat /\ r < Rows[query]
    BY <1>0, <1>1 DEF Limit, Smaller
<1>3. ui.pc \in {"future", "wait"}
    BY DEF Pending
<1>4. ASSUME next_task # NoTask, next_task.row_begin <= r,
             r < next_task.row_end
      PROVE  InCache(r)' \/ Pending(r)'
  <2>1. CASE TakeTask
    <3>1. /\ worker'.pc = "step" /\ worker'.row = next_task.row_begin
          /\ worker'.result = "ok" /\ current_task' = next_task
        BY <1>1, <2>1 DEF TakeTask, WorkerAt
    <3>2. ~next_task.cancel
        BY <1>0 DEF First
    <3> QED
        BY <1>3, <1>4, <3>1, <3>2 DEF Pending
  <2>2. CASE UNCHANGED next_task
      BY <1>3, <1>4, <2>2 DEF Pending
  <2>3. CASE TriggerFetch
      BY <1>3, <2>3 DEF TriggerFetch
  <2> QED
      BY <1>1, <2>1, <2>2, <2>3 DEF Next, vars, Scroll, CompleteCache,
         UiWaits, WaitForFuture, TriggerInterrupt, CompleteLoop,
         CompleteLoad, CompleteReturn, HandleSignal, WorkerNext, TaskEnd,
         ReadRow, WriteRow, ReadEnd, FirstChunk, StartCounter, AssignFuture,
         EmitFetched, CounterNext, CountStart, CountEnd, CountDone,
         OtherGets, OtherReleases, OtherInterrupts
<1>5. ASSUME worker.pc \in {"step", "row"}, worker.result = "ok",
             ~current_task.cancel, worker.row <= r, r < current_task.row_end
      PROVE  InCache(r)' \/ Pending(r)'
  <2>1. worker.q = query
      BY <1>0, <1>5 DEF Tokens, Active
  <2>2. CASE ReadRow
    <3>1. /\ worker'.pc = "row" /\ worker'.row = worker.row
          /\ worker'.result = worker.result /\ UNCHANGED current_task
        BY <1>0, <2>2, WorkerGoesOn DEF ReadRow, WorkerStays, WorkerPlaces
    <3> QED
        BY <1>3, <1>5, <3>1 DEF Pending
  <2>3. CASE WriteRow
    <3>1. /\ worker'.pc = "step" /\ worker'.row = worker.row + 1
          /\ worker'.result = worker.result
          /\ UNCHANGED current_task
        BY <1>0, <2>3, WorkerWrites DEF WriteRow
    <3>2. CASE r = worker.row
        BY <1>0, <2>3, <3>2, RowWritten
    <3>3. CASE r # worker.row
      <4>1. worker'.row <= r
          BY <1>0, <1>2, <1>5, <3>1, <3>3
      <4> QED
          BY <1>3, <1>5, <3>1, <4>1 DEF Pending
    <3> QED
        BY <3>2, <3>3
  <2>4. ~ReadEnd
      BY <1>0, <1>1, <1>2, <1>5, <2>1 DEF ReadEnd, Smaller
  <2>5. CASE TriggerInterrupt \/ TriggerFetch
      BY <1>3, <2>5 DEF TriggerInterrupt, TriggerFetch
  <2>6. CASE OtherInterrupts
      BY <2>6 DEF OtherInterrupts, Loads
  <2>7. CASE UNCHANGED <<worker, current_task>>
      BY <1>3, <1>5, <2>7 DEF Pending
  <2> QED
      BY <1>1, <1>5, <2>2, <2>3, <2>4, <2>5, <2>6, <2>7 DEF Next, vars,
         Scroll, CompleteCache, UiWaits, WaitForFuture, CompleteLoop,
         CompleteLoad, CompleteReturn, HandleSignal, WorkerNext, TaskEnd,
         TakeTask, FirstChunk, StartCounter, AssignFuture, EmitFetched,
         CounterNext, CountStart, CountEnd, CountDone, OtherGets,
         OtherReleases
<1> QED
    BY <1>4, <1>5 DEF Pending

\* What completeCache does next in block i, when all signals are handled.
LEMMA CompleteLoads ==
    ASSUME IInv, Counts, Loads, CompleteLoad
    PROVE  /\ ui.op = "complete" /\ ui.pc = "events" /\ ui'.op = "complete"
           /\ \/ /\ ui'.pc = "trigger" /\ ui'.i = ui.i
                 /\ \A r \in 0..(Limit - 1) :
                        ui.i - HalfChunk <= r /\ r < ui.i + HalfChunk =>
                            InCache(r) \/ (ui'.b <= r /\ r < ui'.e)
              \/ /\ ui'.pc = "future" /\ ui'.i = ui.i + ChunkSize
                 /\ ui'.fut = row_counter
                 /\ \A r \in 0..(Limit - 1) :
                        ui.i - HalfChunk <= r /\ r < ui.i + HalfChunk =>
                            InCache(r)
<1>0. /\ Types /\ ui.i \in Nat /\ rowCount \in Nat /\ RowsLimit \in Nat
      /\ HalfChunk \in Nat
      /\ Limit \in Nat
  <2>1. IInv /\ life > 0
      BY DEF Loads
  <2>2. Rows[life] \in Nat
      BY <2>1, QueryRows DEF IInv
  <2> QED
      BY <2>2, RowLoaderAssumption, Fields, HalfChunkType
      DEF IInv, Limit, Smaller
<1>1. ui.op = "complete" /\ ui.pc = "events"
    BY <1>0 DEF CompleteLoad, Types
<1>2. ASSUME NEW r \in 0..(Limit - 1), ui.i - HalfChunk <= r,
             r < ui.i + HalfChunk, ~InCache(r)
      PROVE  LoadRange(ui.i)[1] <= r /\ r < LoadRange(ui.i)[2]
  <2>1. available = "Complete" => r < rowCount
      BY <1>0 DEF Counts
  <2>2. r \in Nat /\ ui.i <= r + HalfChunk
      BY <1>0, <1>2
  <2> QED
      BY <1>0, <1>2, <2>1, <2>2, LoadRangeCovers
<1>3. LoadRange(ui.i)[1] \in Nat /\ LoadRange(ui.i)[2] \in Nat
    BY <1>0, LoadRangeProperties
<1>4. CASE LoadRange(ui.i)[1] # LoadRange(ui.i)[2]
  <2>1. ui' = UiAt("trigger", "complete", ui.i, 0, LoadRange(ui.i)[1],
                   LoadRange(ui.i)[2])
      BY <1>4 DEF CompleteLoad
  <2>2. /\ ui'.pc = "trigger" /\ ui'.op = "complete" /\ ui'.i = ui.i
        /\ ui'.b = LoadRange(ui.i)[1] /\ ui'.e = LoadRange(ui.i)[2]
      BY <2>1 DEF UiAt
  <2> QED
      BY <1>1, <1>2, <2>2
<1>5. CASE LoadRange(ui.i)[1] = LoadRange(ui.i)[2]
  <2>1. ui' = UiAt("future", "complete", ui.i + ChunkSize, row_counter, 0, 0)
      BY <1>5 DEF CompleteLoad
  <2>2. /\ ui'.pc = "future" /\ ui'.op = "complete"
        /\ ui'.i = ui.i + ChunkSize /\ ui'.fut = row_counter
      BY <2>1 DEF UiAt
  <2>3. \A r \in 0..(Limit - 1) :
            ui.i - HalfChunk <= r /\ r < ui.i + HalfChunk => InCache(r)
      BY <1>0, <1>2, <1>3, <1>5
  <2> QED
      BY <1>1, <2>2, <2>3
<1> QED
    BY <1>4, <1>5

\* Where the user interface can be in the next state while it loads all.
LEMMA CompleteSteps ==
    ASSUME IInv, [Next]_vars, Loads', ui'.op = "complete"
    PROVE  /\ ~ClearAndSetQuery
           /\ \/ CompleteCache /\ ui'.i = 0 /\ ui'.pc = "future"
              \/ CompleteLoad /\ ui.op = "complete"
              \/ /\ TriggerFetch /\ ui.op = "complete" /\ ui.pc = "queue"
                 /\ ui'.pc = "future" /\ ui'.i = ui.i + ChunkSize
                 /\ ui'.fut = row_counter
                 /\ next_task' = Task(life, ui.b, ui.e)
              \/ /\ ui.op = "complete"
                 /\ ui'.i = ui.i /\ ui'.b = ui.b /\ ui'.e = ui.e
                 /\ ui'.fut = ui.fut
                 /\ \/ ui' = ui /\ ~UiAlone /\ ~UiWaits
                    \/ WaitForFuture /\ ui.pc = "future" /\ ui'.pc = "wait"
                    \/ CompleteLoop /\ ui.pc = "wait" /\ ui'.pc = "events"
                    \/ /\ TriggerInterrupt
                       /\ ui.pc = "trigger" /\ ui'.pc = "queue"
<1>0. Types /\ ui \in UiType
    BY DEF IInv, Types
<1>1. ~ClearAndSetQuery
    BY DEF ClearAndSetQuery, UiAt
<1>2. ~NewQuery
    BY DEF NewQuery, UiAt
<1>3. ~Scroll /\ ~CompleteReturn
    BY DEF Scroll, CompleteReturn, UiAt, UiIdle
<1>4. CASE CompleteCache
    BY <1>1, <1>4 DEF CompleteCache, UiAt
<1>5. CASE CompleteLoad
    BY <1>0, <1>1, <1>5 DEF CompleteLoad, Types
<1>6. CASE TriggerFetch
    BY <1>1, <1>6 DEF TriggerFetch, UiAt, UiIdle
<1>7. CASE WaitForFuture
    BY <1>0, <1>1, <1>7 DEF WaitForFuture, UiType
<1>8. CASE CompleteLoop
    BY <1>0, <1>1, <1>8 DEF CompleteLoop, UiType
<1>9. CASE TriggerInterrupt
    BY <1>0, <1>1, <1>9 DEF TriggerInterrupt, UiType
<1>10. CASE ~UiAlone /\ ~UiWaits
  <2>1. ui' = ui
      BY <1>2, <1>10 DEF Next, vars, UiAlone, HandleSignal, WorkerNext,
         TaskEnd, TakeTask, ReadRow, WriteRow, ReadEnd, FirstChunk,
         StartCounter, AssignFuture, EmitFetched, CounterNext, CountStart,
         CountEnd, CountDone, OtherGets, OtherReleases, OtherInterrupts
  <2> QED
      BY <1>1, <1>10, <2>1
<1> QED
    BY <1>1, <1>2, <1>3, <1>4, <1>5, <1>6, <1>7, <1>8, <1>9, <1>10
    DEF UiAlone, UiWaits

\* The rows of the blocks that completeCache has passed are loaded, or the
\* worker is about to load them.
LEMMA PassedKept ==
    ASSUME ChunkSize % 2 = 0, IInv, Counts, Passed, Block, [Next]_vars
    PROVE  Passed'
<1> USE DEF loader, model
<1>0. /\ Types /\ Tasks /\ ui.i \in Nat /\ ui.b \in Nat /\ ui.e \in Nat
      /\ life \in 0..Len(Rows)
      /\ HalfChunk \in Nat /\ ChunkSize = 2 * HalfChunk
  <2>1. ChunkSize \in Nat
      BY RowLoaderAssumption
  <2>2. ChunkSize = 2 * HalfChunk
      BY <2>1 DEF HalfChunk
  <2> QED
      BY <2>2, Fields, HalfChunkType DEF IInv, Types, TypeOK
<1> SUFFICES ASSUME ui'.op = "complete", Loads'
             PROVE  \A r \in 0..(Limit - 1) :
                        r < ui'.i - HalfChunk => InCache(r)' \/ Pending(r)'
  <2>1. ui'.op = "complete" /\ Loads' => Limit' = Limit
      BY CompleteSteps, LoadsKept DEF Limit, Smaller
  <2> QED
      BY <2>1 DEF Passed
<1>1. ~ClearAndSetQuery
    BY CompleteSteps
<1>2. Loads /\ life > 0
    BY <1>1, LoadsKept
<1> TAKE r \in 0..(Limit - 1)
<1> HAVE r < ui'.i - HalfChunk
<1>3. InCache(r) => InCache(r)'
    BY <1>1, InCacheKept
<1>4. ui.op = "complete" /\ r < ui.i - HalfChunk => InCache(r) \/ Pending(r)
    BY <1>2 DEF Passed
<1>5. CASE CompleteCache /\ ui'.i = 0
    BY <1>0, <1>5
<1>6. CASE CompleteLoad
  <2>1. UNCHANGED cache
      BY <1>6 DEF CompleteLoad
  <2>2. ~Pending(r) /\ ui.op = "complete"
      BY <1>2, <1>6, CompleteLoads DEF Pending
  <2>3. CASE r < ui.i - HalfChunk
      BY <1>3, <1>4, <2>2, <2>3
  <2>4. CASE ~(r < ui.i - HalfChunk)
    <3>1. ui'.i # ui.i
        BY <2>4
    <3>2. /\ ui'.i = ui.i + ChunkSize
          /\ \A x \in 0..(Limit - 1) :
                 ui.i - HalfChunk <= x /\ x < ui.i + HalfChunk => InCache(x)
        BY <1>2, <1>6, <3>1, CompleteLoads
    <3>3. ui.i - HalfChunk <= r /\ r < ui.i + HalfChunk
        BY <1>0, <2>4, <3>2
    <3> QED
        BY <1>3, <3>2, <3>3
  <2> QED
      BY <2>3, <2>4
<1>7. CASE /\ TriggerFetch /\ ui.op = "complete" /\ ui.pc = "queue"
           /\ ui'.pc = "future" /\ ui'.i = ui.i + ChunkSize
           /\ next_task' = Task(life, ui.b, ui.e)
  <2>1. ~Pending(r)
      BY <1>7 DEF Pending
  <2>2. CASE r < ui.i - HalfChunk
      BY <1>3, <1>4, <1>7, <2>1, <2>2
  <2>3. CASE ~(r < ui.i - HalfChunk)
    <3>1. ui.i - HalfChunk <= r /\ r < ui.i + HalfChunk
        BY <1>0, <1>7, <2>3
    <3>2. InCache(r) \/ (ui.b <= r /\ r < ui.e)
        BY <1>2, <1>7, <3>1 DEF Block
    <3>3. /\ next_task' # NoTask
          /\ next_task'.row_begin = ui.b /\ next_task'.row_end = ui.e
        BY <1>0, <1>2, <1>7, TaskTyped
    <3> QED
        BY <1>3, <1>7, <3>2, <3>3 DEF Pending
  <2> QED
      BY <2>2, <2>3
<1>8. CASE ui' = ui /\ ui.op = "complete"
    BY <1>1, <1>3, <1>4, <1>8, PendingKept
<1>9. CASE /\ WaitForFuture /\ ui.op = "complete"
           /\ ui'.i = ui.i /\ ui.pc = "future" /\ ui'.pc = "wait"
  <2>1. Pending(r) => Pending(r)'
      BY <1>9 DEF WaitForFuture, Pending
  <2> QED
      BY <1>3, <1>4, <1>9, <2>1
<1>10. CASE CompleteLoop /\ ui.op = "complete" /\ ui'.i = ui.i
  <2>1. ~Pending(r)
      BY <1>0, <1>10 DEF CompleteLoop, Idle, Pending, Tasks, Active
  <2> QED
      BY <1>3, <1>4, <1>10, <2>1
<1>11. CASE ui.op = "complete" /\ ui'.i = ui.i /\ ui.pc = "trigger"
    BY <1>3, <1>4, <1>11 DEF Pending
<1> QED
    BY <1>5, <1>6, <1>7, <1>8, <1>9, <1>10, <1>11, CompleteSteps

\* The rows of the present block are loaded, or within what is asked for.
LEMMA BlockKept ==
    ASSUME IInv, Counts, Block, [Next]_vars
    PROVE  Block'
<1> SUFFICES ASSUME ui'.op = "complete", Loads',
                    ui'.pc \in {"trigger", "queue"}
             PROVE  \A r \in 0..(Limit - 1) :
                        ui'.i - HalfChunk <= r /\ r < ui'.i + HalfChunk =>
                            InCache(r)' \/ (ui'.b <= r /\ r < ui'.e)
  <2>1. ui'.op = "complete" /\ Loads' => Limit' = Limit
      BY CompleteSteps, LoadsKept DEF Limit, Smaller
  <2> QED
      BY <2>1 DEF Block
<1>1. ~ClearAndSetQuery
    BY CompleteSteps
<1>2. Loads
    BY <1>1, LoadsKept
<1> TAKE r \in 0..(Limit - 1)
<1> HAVE ui'.i - HalfChunk <= r /\ r < ui'.i + HalfChunk
<1>3. InCache(r) => InCache(r)'
    BY <1>1, InCacheKept
<1>4. CASE CompleteLoad
    BY <1>2, <1>3, <1>4, CompleteLoads
<1>5. CASE /\ ui.op = "complete" /\ ui.pc \in {"trigger", "queue"}
           /\ ui'.i = ui.i /\ ui'.b = ui.b /\ ui'.e = ui.e
    BY <1>2, <1>3, <1>5 DEF Block
<1> QED
    BY <1>4, <1>5, CompleteSteps

\* After the first chunk, no counter is started for the present query, and one
\* that has ended stays so.
LEMMA NoCounterStarts ==
    ASSUME IInv, [Next]_vars, ~ClearAndSetQuery, Loads', FirstRead,
           worker.pc \notin {"count", "assign"}
    PROVE  /\ worker'.pc \notin {"count", "assign"}
           /\ row_counter' = row_counter
           /\ CounterEnded(row_counter) => CounterEnded(row_counter)'
<1> USE DEF loader
<1>0. Types /\ Tasks /\ worker \in WorkerType
    BY DEF IInv, Types
<1>1. ~NewQuery /\ first_chunk_loaded
    BY LoadsKept
<1>2. ~StartCounter /\ ~AssignFuture
    BY DEF StartCounter, AssignFuture
<1>3. row_counter' = row_counter
    BY <1>1, <1>2 DEF Next, vars, Scroll, CompleteCache, UiWaits,
       WaitForFuture, TriggerInterrupt, TriggerFetch, CompleteLoop,
       CompleteLoad, CompleteReturn, HandleSignal, WorkerNext, TaskEnd,
       TakeTask, ReadRow, WriteRow, ReadEnd, FirstChunk, EmitFetched,
       CounterNext, CountStart, CountEnd, CountDone, OtherGets,
       OtherReleases, OtherInterrupts
<1>4. \A d \in counters' : \E b \in counters : d.id = b.id
  <2>1. CASE TriggerInterrupt \/ OtherInterrupts
      BY <1>0, <2>1, Interrupted DEF TriggerInterrupt, OtherInterrupts,
         Tasks, Types
  <2>2. ASSUME NEW c \in counters, CounterNext(c)
        PROVE  \A d \in counters' : \E b \in counters : d.id = b.id
      BY <2>2, CounterKeeps
  <2>3. CASE UNCHANGED counters
      BY <2>3
  <2> QED
      BY <1>1, <1>2, <2>1, <2>2, <2>3 DEF Next, vars, Scroll, CompleteCache,
         UiWaits, WaitForFuture, TriggerFetch, CompleteLoop, CompleteLoad,
         CompleteReturn, HandleSignal, WorkerNext, TaskEnd, TakeTask,
         ReadRow, WriteRow, ReadEnd, FirstChunk, EmitFetched, OtherGets,
         OtherReleases
<1>5. worker'.pc \notin {"count", "assign"}
  <2>1. CASE TriggerInterrupt \/ OtherInterrupts
      BY <1>0, <2>1, Interrupted DEF TriggerInterrupt, OtherInterrupts,
         Tasks, Types
  <2>2. CASE TaskEnd \/ TakeTask
      BY <2>2 DEF TaskEnd, TakeTask, WorkerAt
  <2>3. CASE WriteRow
      BY <1>0, <2>3, WorkerWrites
  <2>4. CASE ReadRow \/ ReadEnd \/ FirstChunk \/ EmitFetched
      BY <1>0, <1>1, <2>4, WorkerGoesOn DEF ReadRow, ReadEnd, FirstChunk,
         EmitFetched, WorkerStays, WorkerPlaces
  <2>5. CASE UNCHANGED worker
      BY <2>5
  <2> QED
      BY <1>1, <1>2, <2>1, <2>2, <2>3, <2>4, <2>5 DEF Next, vars, Scroll,
         CompleteCache, UiWaits, WaitForFuture, TriggerFetch, CompleteLoop,
         CompleteLoad, CompleteReturn, HandleSignal, WorkerNext, CounterNext,
         CountStart, CountEnd, CountDone, OtherGets, OtherReleases
<1> QED
    BY <1>3, <1>4, <1>5 DEF CounterEnded

\* When completeCache comes to a block, the first chunk is shown, and so is
\* the row count if its counter has been waited for.
LEMMA Arrived ==
    ASSUME IInv, Own, Shown, Counts, Quiet, Progress, Loads, CompleteLoad
    PROVE  /\ FirstRead /\ rowCount >= FirstRows
           /\ worker.pc \notin {"count", "assign"}
           /\ ui.i > 0 => available = "Complete" /\ CounterEnded(row_counter)
<1>0. /\ Types /\ Tasks /\ Tokens /\ First
      /\ ui.op = "complete" /\ ui.pc = "events" /\ signals = << >>
      /\ row_counter \in Nat
    BY DEF IInv, Types, TypeOK, CompleteLoad
<1>1. FirstRead /\ query = life
    BY <1>0 DEF First, Loads, Tokens
<1>2. first_chunk_loaded
    BY <1>1 DEF FirstRead, Loads
<1>3. Waiting = {}
    BY <1>0, EmptySeq DEF Waiting
<1>4. worker.pc \notin {"count", "assign", "fetched"}
    BY <1>0 DEF Quiet, Tasks, Active
<1>5. rowCount >= FirstRows
    BY <1>2, <1>3, <1>4 DEF Shown
<1>6. ui.i > 0 => available = "Complete" /\ CounterEnded(row_counter)
  <2>1. SUFFICES ASSUME ui.i > 0
                 PROVE  available = "Complete" /\ CounterEnded(row_counter)
      OBVIOUS
  <2>2. CounterEnded(row_counter)
      BY <1>0, <2>1 DEF Progress
  <2>3. \A c \in counters : c.token # query
    <3>1. SUFFICES ASSUME NEW c \in counters, c.token = query PROVE FALSE
        OBVIOUS
    <3>2. c.id = row_counter /\ c.id > 0
        BY <1>4, <3>1 DEF Own
    <3> QED
        BY <1>0, <2>2, <3>2 DEF CounterEnded
  <2>4. available = "Complete"
      BY <1>2, <1>3, <1>4, <2>3 DEF Counts
  <2> QED
      BY <2>2, <2>4
<1> QED
    BY <1>1, <1>4, <1>5, <1>6

\* From the first block on the first chunk is shown, and from the second on the
\* count is final.
LEMMA ProgressKept ==
    ASSUME IInv, Own, Shown, Counts, Quiet, Progress, [Next]_vars
    PROVE  Progress'
<1> USE DEF loader, model
<1>0. /\ Types /\ Tasks /\ Tokens /\ ui.i \in Nat /\ ChunkSize \in Nat
      /\ rowCount \in Nat /\ rowCount' \in Nat /\ ChunkSize >= 4
    BY RowLoaderAssumption, ModelTyped, Fields DEF IInv, Types
<1> SUFFICES ASSUME ui'.op = "complete", Loads' PROVE Progress'
    BY DEF Progress
<1>1. ~ClearAndSetQuery
    BY CompleteSteps
<1>2. /\ Loads /\ query = life /\ Rows[life] \in Nat
      /\ FirstRows' = FirstRows /\ FirstRows \in Nat
  <2>1. /\ Loads /\ query = life /\ Rows[life] \in Nat
        /\ FirstRows' = FirstRows
      BY <1>1, LoadsKept
  <2> QED
      BY <2>1, HalfChunkType DEF FirstRows, FirstSize, Smaller
<1>3. /\ FirstRead => FirstRead'
      /\ rowCount' >= rowCount
      /\ available = "Complete" => available' = "Complete"
  <2>1. FirstRead => FirstRead'
      BY <1>0, <1>1, FirstReadKept
  <2>2. /\ rowCount' >= rowCount
        /\ available = "Complete" => available' = "Complete"
    <3>1. CASE HandleSignal
        BY <1>2, <3>1, SignalHandled
    <3>2. CASE ~HandleSignal
        BY <1>0, <1>1, <3>2, ModelStays
    <3> QED
        BY <3>1, <3>2
  <2> QED
      BY <2>1, <2>2
<1>4. CASE CompleteCache /\ ui'.i = 0 /\ ui'.pc = "future"
    BY <1>0, <1>4 DEF Progress
<1>5. CASE CompleteLoad
  <2>1. /\ FirstRead /\ rowCount >= FirstRows
        /\ worker.pc \notin {"count", "assign"}
        /\ ui.i > 0 => available = "Complete" /\ CounterEnded(row_counter)
      BY <1>2, <1>5, Arrived
  <2>2. UNCHANGED <<model, loader, worker, counters>>
      BY <1>5 DEF CompleteLoad
  <2>3. CounterEnded(row_counter) => CounterEnded(row_counter)'
      BY <2>2 DEF CounterEnded
  <2>4. ui.i > 0 => ui.i >= ChunkSize
      BY <1>2, <1>5, CompleteLoads DEF Progress
  <2>5. CASE ui'.pc = "trigger" /\ ui'.i = ui.i
      BY <1>0, <1>2, <1>3, <2>1, <2>2, <2>3, <2>4, <2>5 DEF Progress
  <2>6. CASE /\ ui'.pc = "future" /\ ui'.i = ui.i + ChunkSize
             /\ ui'.fut = row_counter
    <3>1. ui'.i >= ChunkSize /\ (ui'.i > ChunkSize => ui.i > 0)
        BY <1>0, <2>6
    <3> QED
        BY <1>0, <1>2, <1>3, <2>1, <2>2, <2>6, <3>1 DEF Progress
  <2> QED
      BY <1>2, <1>5, <2>5, <2>6, CompleteLoads
<1>6. CASE /\ TriggerFetch /\ ui.op = "complete" /\ ui.pc = "queue"
           /\ ui'.pc = "future" /\ ui'.i = ui.i + ChunkSize
           /\ ui'.fut = row_counter
  <2>1. /\ FirstRead /\ rowCount >= FirstRows
        /\ ui.i > 0 => available = "Complete"
      BY <1>2, <1>6 DEF Progress
  <2>2. worker.pc \notin {"count", "assign"}
      BY <1>0, <1>6 DEF Quiet, Tasks, Active
  <2>3. UNCHANGED <<model, worker, row_counter>>
      BY <1>6 DEF TriggerFetch
  <2>4. ui'.i >= ChunkSize /\ (ui'.i > ChunkSize => ui.i > 0)
      BY <1>0, <1>6
  <2> QED
      BY <1>0, <1>2, <1>3, <1>6, <2>1, <2>2, <2>3, <2>4 DEF Progress
<1>7. CASE /\ ui.op = "complete" /\ ui'.i = ui.i /\ ui'.fut = ui.fut
           /\ \/ ui' = ui
              \/ WaitForFuture /\ ui.pc = "future" /\ ui'.pc = "wait"
              \/ CompleteLoop /\ ui.pc = "wait" /\ ui'.pc = "events"
              \/ ui.pc = "trigger" /\ ui'.pc = "queue"
  <2>1. /\ ui.i > 0 \/ ui.pc \in {"trigger", "queue"} =>
               FirstRead /\ rowCount >= FirstRows
        /\ \/ ui.i > ChunkSize
           \/ ui.i > 0 /\ ui.pc \in {"trigger", "queue"}
           => available = "Complete"
        /\ ui.i > 0 =>
               /\ ui.i >= ChunkSize
               /\ worker.pc \notin {"count", "assign"}
               /\ IF ui.pc = "future" THEN ui.fut = row_counter
                                      ELSE CounterEnded(row_counter)
      BY <1>2, <1>7 DEF Progress
  <2>2. ui'.pc \in {"trigger", "queue"} => ui.pc \in {"trigger", "queue"}
      BY <1>7
  <2>3. ui.i > 0 =>
            /\ worker'.pc \notin {"count", "assign"}
            /\ row_counter' = row_counter
            /\ CounterEnded(row_counter) => CounterEnded(row_counter)'
      BY <1>1, <2>1, NoCounterStarts
  <2>4. ui.i > 0 => IF ui'.pc = "future" THEN ui'.fut = row_counter'
                                         ELSE CounterEnded(row_counter)'
    <3>1. CASE WaitForFuture /\ ui.pc = "future" /\ ui'.pc = "wait"
        BY <2>1, <2>3, <3>1 DEF WaitForFuture
    <3>2. CASE (ui.pc = "future") <=> (ui'.pc = "future")
        BY <1>7, <2>1, <2>3, <3>2
    <3> QED
        BY <1>7, <3>1, <3>2
  <2>5. rowCount >= FirstRows => rowCount' >= FirstRows
      BY <1>0, <1>2, <1>3
  <2> QED
      BY <1>2, <1>3, <1>7, <2>1, <2>2, <2>3, <2>4, <2>5 DEF Progress
<1> QED
    BY <1>4, <1>5, <1>6, <1>7, CompleteSteps

\* The invariant of loading all rows.
CInv == Mutex /\ FirstFull /\ Own /\ Quiet /\ Shown /\ Counts /\ Passed
        /\ Block /\ Progress

---------------------------------------------------------------------------
(* The theorems. *)

\* The invariant holds before the first query.
LEMMA InitIInv == Init => IInv
<1> SUFFICES ASSUME Init PROVE IInv
    OBVIOUS
<1> USE DEF Init
<1>0. /\ Len(Rows) \in Nat /\ NoTask \in TaskType
      /\ Len(<< >>) = 0 /\ << >> \in Seq(SignalType)
    BY LivesType, TaskTyped, EmptySeq
<1>1. worker = WorkerAt("loop", 0, 0, "ok") /\ worker.pc = "loop"
    BY DEF WorkerAt
<1>2. ui = UiIdle /\ ui.op = "none" /\ ui.pc = "idle"
    BY DEF UiIdle, UiAt
<1>3. Waiting = {}
    BY <1>0 DEF Waiting
<1>4. /\ NoTask.token = 0 /\ NoTask.row_begin = 0 /\ NoTask.row_end = 0
      /\ NoTask.cancel = FALSE
    BY DEF NoTask
<1>5. Types
  <2>1. TypeOK
    <3>1. 0 \in 0..Len(Rows) /\ 0 \in 0..started
        BY <1>0
    <3>2. /\ life \in 0..Len(Rows) /\ query \in 0..Len(Rows)
          /\ row_counter \in 0..started
        BY <3>1
    <3>3. rowCount \in Nat /\ realRowCount \in Nat /\ num_tasks \in Nat
        OBVIOUS
    <3>4. /\ first_chunk_loaded \in BOOLEAN /\ pDb \in BOOLEAN
          /\ aborted \in BOOLEAN
        OBVIOUS
    <3>5. /\ current_task \in TaskType /\ next_task \in TaskType
        BY <1>0
    <3> QED
        BY <3>2, <3>3, <3>4, <3>5 DEF TypeOK
  <2>2. UiIdle \in UiType
      BY DEF UiIdle, UiAt, UiType
  <2>3. worker \in WorkerType
      BY <1>0 DEF WorkerAt, WorkerType
  <2> QED
      BY <1>0, <1>2, <2>1, <2>2, <2>3 DEF Types
<1>6. Tasks
  <2>1. IsFiniteSet(counters) /\ Cardinality(counters) = 0
      BY FS_EmptySet
  <2> QED
      BY <1>1, <2>1 DEF Tasks, TasksHoldDb, Number, Active
<1>7. Tokens
    BY <1>1, <1>2, <1>3 DEF Tokens, Fresh, Active
<1>8. Ranges
    BY <1>1, <1>2 DEF Ranges, Active
<1>9. First
    BY <1>1, <1>2, <1>3, <1>4 DEF First, FirstAwaited
<1>10. Totals
    BY <1>3 DEF Totals
<1> QED
    BY <1>5, <1>6, <1>7, <1>8, <1>9, <1>10 DEF IInv

\* Every step keeps the invariant.
LEMMA IInvKept ==
    ASSUME IInv, [Next]_vars
    PROVE  IInv'
BY TypesKept, TasksKept, TokensKept, RangesKept, FirstKept, TotalsKept
DEF IInv

\* The invariant holds in every state.
LEMMA Invariance == Spec => []IInv
<1>1. IInv /\ [Next]_vars => IInv'
    BY IInvKept
<1> QED
    BY InitIInv, <1>1, PTL DEF Spec

\* The invariant of loading all rows holds before the first query.
LEMMA InitCInv == Init => CInv
<1> SUFFICES ASSUME Init PROVE CInv
    OBVIOUS
<1>1. /\ worker.pc = "loop" /\ m = "free" /\ ui.op = "none"
      /\ ui.pc = "idle" /\ counters = {} /\ life = 0
      /\ current_task = NoTask /\ next_task = NoTask
    BY DEF Init, WorkerAt, UiIdle, UiAt
<1>2. ~Loads
    BY <1>1 DEF Loads
<1> QED
    BY <1>1, <1>2 DEF CInv, Mutex, FirstFull, Own, Quiet, Shown, Counts,
       Passed, Block, Progress

\* Both invariants hold in every state, for even block sizes.
LEMMA CInvariance ==
    ASSUME ChunkSize % 2 = 0
    PROVE  Spec => [](IInv /\ CInv)
<1>1. IInv /\ CInv /\ [Next]_vars => IInv' /\ CInv'
    BY IInvKept, MutexKept, FirstFullKept, OwnKept, QuietKept, ShownKept,
       CountsKept, PassedKept, BlockKept, ProgressKept DEF CInv
<1> QED
    BY InitIInv, InitCInv, <1>1, PTL DEF Spec

\* The variables have their types, whatever the threads do in whichever order.
THEOREM Typed == Spec => []TypeOK
<1>1. IInv => TypeOK
    BY DEF IInv, Types
<1> QED
    BY <1>1, Invariance, PTL

\* The loader's m_num_tasks is the number of tasks and counters there are, and
\* the loader holds the database exactly while it is not 0: triggerFetch,
\* nosync_taskDone and triggerRowCountDetermination keep their books together.
THEOREM TasksAreCounted == Spec => []TasksHoldDb
<1>1. IInv => TasksHoldDb
    BY DEF IInv, Tasks
<1> QED
    BY <1>1, Invariance, PTL

\* After clearCache has waited for the loader, no row of an earlier query is
\* written to the cache any more.
THEOREM CacheOfQuery == Spec => []CacheIsOfQuery
<1>1. IInv => CacheIsOfQuery
    BY DEF IInv, Tokens, Fresh, CacheIsOfQuery
<1> QED
    BY <1>1, Invariance, PTL

\* A row count that is shown as final is the number of rows of the query that
\* is shown, unless the user has aborted reading it: the signals of earlier
\* queries are dropped or come too late to be taken for it.
THEOREM FinalCountIsTotal == Spec => []CountIsTotal
<1>1. IInv => CountIsTotal
    BY DEF IInv, Totals, Fresh, CountIsTotal
<1> QED
    BY <1>1, Invariance, PTL

\* When completeCache returns, all rows up to the limit are in the cache, if
\* the query can be prepared, the user has not aborted a read of it and the
\* prefetch block size is even: it steps by whole blocks and loads half of one
\* on either side, and it waits for the counter after each block.
THEOREM AllIsLoaded ==
    ASSUME ChunkSize % 2 = 0
    PROVE  Spec => CompleteLoadsAll
<1>1. ASSUME IInv, CInv, CompleteReturn, life \notin Broken, ~aborted
      PROVE  \A r \in 0..(Smaller(Rows[life], RowsLimit) - 1) : InCache(r)
  <2>0. /\ Types /\ Tasks /\ Tokens /\ ui.op = "complete" /\ ui.pc = "wait"
        /\ Idle /\ ui.i >= rowCount + HalfChunk
        /\ ui.i \in Nat /\ rowCount \in Nat /\ life \in Nat
        /\ HalfChunk \in Nat /\ HalfChunk >= 2
        /\ RowsLimit \in Nat /\ ChunkSize \in Nat
        /\ Passed /\ Counts /\ Progress
      BY <1>1, RowLoaderAssumption, HalfChunkType, Fields
      DEF IInv, CInv, CompleteReturn
  <2>1. ChunkSize = 2 * HalfChunk
      BY <2>0 DEF HalfChunk
  <2>2. Loads /\ Rows[life] \in Nat
    <3>1. life > 0
        BY <2>0 DEF Tokens
    <3> QED
        BY <1>1, <2>0, <3>1, QueryRows DEF Loads, Fresh
  <2>3. Limit \in Nat /\ Limit <= Rows[life]
      BY <2>0, <2>2 DEF Limit, Smaller
  <2>4. Limit <= rowCount
    <3>1. /\ ui.i >= ChunkSize
          /\ rowCount >= FirstRows
          /\ ui.i > ChunkSize => available = "Complete"
        BY <2>0, <2>2 DEF Progress
    <3>2. CASE ui.i > ChunkSize
        BY <2>0, <2>2, <3>1, <3>2 DEF Counts
    <3>3. CASE ui.i = ChunkSize
      <4>1. rowCount < FirstSize
          BY <2>0, <2>1, <3>3 DEF FirstSize
      <4>2. FirstRows # FirstSize
          BY <2>0, <3>1, <4>1 DEF FirstSize
      <4>3. FirstRows = Rows[life]
          BY <4>2 DEF FirstRows, Smaller
      <4> QED
          BY <2>0, <2>2, <2>3, <3>1, <4>3
    <3> QED
        BY <2>0, <3>1, <3>2, <3>3
  <2>5. ASSUME NEW r \in 0..(Limit - 1) PROVE InCache(r)
    <3>1. r < ui.i - HalfChunk
        BY <2>0, <2>3, <2>4
    <3>2. ~Pending(r)
        BY <2>0 DEF Pending, Idle, Tasks, Active
    <3> QED
        BY <2>0, <2>2, <3>1, <3>2 DEF Passed
  <2> QED
      BY <2>5 DEF Limit
<1>2. IInv /\ CInv => [CompleteReturn /\ life \notin Broken /\ ~aborted =>
             \A r \in 0..(Smaller(Rows[life], RowsLimit) - 1) :
                 InCache(r)]_vars
    BY <1>1
<1> QED
    BY <1>2, CInvariance, PTL DEF CompleteLoadsAll
===========================================================================
