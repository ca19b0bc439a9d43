-------------------------- MODULE ScriptWindowProofs --------------------------
(***************************************************************************)
(* Proofs about ScriptWindow, for texts of any length and any statements:  *)
(* the next statement waits until the result of the one before is shown, a *)
(* stopped script prepares nothing, no script prepares more than it was    *)
(* asked for, and the mutex and the database are held where the code holds *)
(* them.                                                                   *)
(***************************************************************************)
EXTENDS ScriptWindow, SequenceTheorems, TLAPS

Holds == {"acquire", "unneeded", "conclude"}

\* The mutex is held where the statement's code keeps it, and a script that
\* was stopped has nothing left and is past the point where it prepares.
Cleared ==
  /\ m <=> pc \in Holds
  /\ stopped => left = <<>> /\ pc # "acquire"

\* The position follows the statements that were prepared, up to the end.
Counted ==
  /\ left \in Seq(Kinds)
  /\ pc = "acquire" => left # <<>>
  /\ position \in Nat /\ until \in Nat /\ prepared \in Nat /\ asked \in Nat
  /\ local \in [kind : Kinds \cup {"empty"}, end : Nat, failed : BOOLEAN]
  /\ prepared <= asked
  /\ ~stopped /\ pc \in {"begin", "acquire"} =>
       prepared = position /\ position < until /\ until = asked
  /\ ~stopped /\ pc \notin {"begin", "acquire", "done"} =>
       prepared = local.end /\ until = asked

\* The question comes while the script is blocked in it, and once.
Questions ==
  /\ events \in Seq(Signals)
  /\ \A i \in 1..Len(events) : events[i] = "confirm" =>
       /\ pc = "confirm" /\ window # "asking"
       /\ \A j \in 1..Len(events) : events[j] = "confirm" => j = i
  /\ window = "asking" => pc = "confirm"

\* A result that is not shown yet is the only one, and the script is parked.
Results ==
  ~stopped =>
    /\ \A i \in 1..Len(events) : events[i] \in {"executed", "rows"} =>
         /\ pc = "parked" /\ ~mayContinue /\ ~callback
         /\ \A j \in 1..Len(events) :
              events[j] \in {"executed", "rows"} => j = i
    /\ callback => pc = "parked" /\ ~mayContinue

\* The inductive invariant.
IInv == Cleared /\ Counted /\ Questions /\ Results

(***************************************************************************)
(* The queue of signals.                                                   *)
(***************************************************************************)
LEMMA Consumed ==
  ASSUME NEW e \in Seq(Signals), e # <<>>
  PROVE  /\ Head(e) = e[1] /\ 1 \in 1..Len(e)
         /\ Tail(e) \in Seq(Signals)
         /\ Len(Tail(e)) = Len(e) - 1
         /\ \A i \in 1..Len(Tail(e)) :
              i + 1 \in 1..Len(e) /\ Tail(e)[i] = e[i + 1]
  BY HeadTailProperties, EmptySeq

\* A signal that is sent is the last one in the queue.
LEMMA Queued ==
  ASSUME NEW e \in Seq(Signals), NEW s \in Signals
  PROVE  /\ Append(e, s) \in Seq(Signals)
         /\ Len(Append(e, s)) = Len(e) + 1
         /\ \A i \in 1..Len(Append(e, s)) :
              \/ i \in 1..Len(e) /\ Append(e, s)[i] = e[i]
              \/ i = Len(e) + 1 /\ Append(e, s)[i] = s
  BY AppendProperties

\* Two signals at once are two signals one after the other.
LEMMA QueuedTwo ==
  ASSUME NEW e \in Seq(Signals), NEW s \in Signals, NEW u \in Signals
  PROVE  e \o <<s, u>> = Append(Append(e, s), u)
  OBVIOUS

\* Signals that are neither questions nor results, and results of statements
\* that failed, tell nothing more about the script.
Plain(e, f) ==
  /\ f \in Seq(Signals)
  /\ \A i \in 1..Len(f) : \/ i \in 1..Len(e) /\ f[i] = e[i]
                          \/ f[i] \in {"errored", "finished", "counted"}

\* A signal without a result leaves the results in the queue as they are ...
LEMMA PlainSignal ==
  ASSUME NEW e \in Seq(Signals), NEW s \in {"errored", "finished", "counted"}
  PROVE  Plain(e, Append(e, s))
  BY Queued DEF Plain, Signals

\* ... and so do those that end a script.
LEMMA PlainEnd ==
  ASSUME NEW e \in Seq(Signals)
  PROVE  Plain(e, e \o <<"errored", "finished">>)
<1>. DEFINE f == Append(e, "errored")
<1>1. f \in Seq(Signals) /\ Plain(e, f) /\ Plain(f, Append(f, "finished"))
  BY PlainSignal, Queued DEF Signals
<1>2. e \o <<"errored", "finished">> = Append(f, "finished")
  BY QueuedTwo DEF Signals
<1>. HIDE DEF f
<1>. QED BY <1>1, <1>2 DEF Plain

(***************************************************************************)
(* The invariant is inductive.  Cleared and Counted are about the script.  *)
(***************************************************************************)
LEMMA Initially == Init => IInv
<1>. SUFFICES ASSUME Init PROVE IInv
  OBVIOUS
<1>. USE ScriptWindowAssumption
<1>1. PICK length \in 1..MaxLength : left \in [1..length -> Kinds]
  BY DEF Init
<1>2. left \in Seq(Kinds) /\ Len(left) = length
  BY <1>1
<1>3. Cleared
  BY DEF Init, Cleared, Holds
<1>4. Counted
  <2>1. local \in [kind : Kinds \cup {"empty"}, end : Nat, failed : BOOLEAN]
    BY DEF Init, NoStatement
  <2>2. /\ until \in Nat /\ 0 < until /\ asked = until
        /\ position = 0 /\ prepared = 0 /\ pc = "begin"
    BY <1>2 DEF Init
  <2>. QED BY <1>2, <2>1, <2>2 DEF Counted
<1>5. Questions
  BY DEF Init, Questions
<1>6. Results
  BY DEF Init, Results
<1>. QED BY <1>3, <1>4, <1>5, <1>6 DEF IInv

\* A stopped script gets nothing to do again.
LEMMA ClearedKept == IInv /\ [Next]_vars => Cleared'
<1>. SUFFICES ASSUME IInv, [Next]_vars PROVE Cleared'
  OBVIOUS
<1>. USE DEF IInv, Cleared, Holds, script, gui, history
<1>1. CASE Begin
  BY <1>1 DEF Begin
<1>2. CASE Prepare
  BY <1>2 DEF Prepare
<1>3. CASE Empty
  BY <1>3 DEF Empty, Proceed, StopExecution
<1>4. CASE SetSavepoints \/ Reacquire
  BY <1>4 DEF SetSavepoints, Reacquire
<1>5. CASE Answered \/ ReleaseAllSavepoints
  BY <1>5 DEF Answered, ReleaseAllSavepoints
<1>6. CASE Step \/ Report \/ Continue
  BY <1>6 DEF Step, Report, Continue
<1>7. CASE Cleanup \/ ReleaseUnneeded
  BY <1>7 DEF Cleanup, ReleaseUnneeded
<1>8. CASE Conclude
  BY <1>8 DEF Conclude, Proceed, StopExecution
<1>9. CASE HandleEvent
  BY <1>9 DEF HandleEvent, HandleExecuted, HandleRows, HandleCounted,
              HandleEnd, HandleConfirm, StartNextStatement
<1>10. CASE Answer
  BY <1>10 DEF Answer, Stop, StopExecution, Questions
<1>11. CASE StopScript \/ Close
  BY <1>11 DEF StopScript, Close, Stop, StopExecution
<1>12. CASE Joined \/ LoadEnd
  BY <1>12 DEF Joined, LoadEnd
<1>13. CASE UNCHANGED vars
  BY <1>13 DEF vars
<1>. QED
  BY <1>1, <1>2, <1>3, <1>4, <1>5, <1>6, <1>7, <1>8, <1>9, <1>10, <1>11,
     <1>12, <1>13 DEF Next, ScriptStep

\* The position follows what was prepared.
LEMMA CountedKept == IInv /\ [Next]_vars => Counted'
<1>. SUFFICES ASSUME IInv, [Next]_vars PROVE Counted'
  OBVIOUS
<1>. USE DEF IInv, Counted, script, gui, history
<1>1. CASE Begin
  BY <1>1 DEF Begin
<1>2. CASE Prepare
  <2>1. Head(left) \in Kinds
    BY <1>2, HeadTailProperties DEF Prepare
  <2>2. Tail(left) \in Seq(Kinds)
    BY <1>2, HeadTailProperties DEF Prepare
  <2>3. /\ local' = [kind |-> Head(left), end |-> position + 1,
                     failed |-> Head(left) = "invalid"]
        /\ pc' \notin {"begin", "acquire", "done"}
    BY <1>2 DEF Prepare
  <2>4. local' \in [kind : Kinds \cup {"empty"}, end : Nat, failed : BOOLEAN]
        /\ local'.end = position + 1
    BY <2>1, <2>3
  <2>5. /\ ~stopped /\ prepared = position
        /\ position < until /\ until = asked
    BY <1>2 DEF Prepare, Cleared
  <2>6. /\ left' = Tail(left) /\ prepared' = prepared + 1
        /\ position' = position /\ until' = until /\ asked' = asked
    BY <1>2 DEF Prepare
  <2>. QED BY <2>2, <2>3, <2>4, <2>5, <2>6
<1>3. CASE Empty
  <2>1. /\ pc = "empty" /\ local' = local /\ Proceed
        /\ prepared' = prepared /\ asked' = asked /\ (stopped' <=> stopped)
    BY <1>3 DEF Empty
  <2>2. CASE local.end >= until
    BY <2>1, <2>2, EmptySeq DEF Proceed, StopExecution
  <2>3. CASE ~(local.end >= until)
    BY <2>1, <2>3 DEF Proceed
  <2>. QED BY <2>2, <2>3
<1>4. CASE SetSavepoints \/ Reacquire
  BY <1>4 DEF SetSavepoints, Reacquire
<1>5. CASE Answered \/ ReleaseAllSavepoints
  BY <1>5 DEF Answered, ReleaseAllSavepoints
<1>6. CASE Step \/ Report \/ Continue
  BY <1>6 DEF Step, Report, Continue
<1>7. CASE Cleanup \/ ReleaseUnneeded
  BY <1>7 DEF Cleanup, ReleaseUnneeded
<1>8. CASE Conclude
  <2>1. /\ pc = "conclude" /\ local' = local
        /\ prepared' = prepared /\ asked' = asked /\ (stopped' <=> stopped)
    BY <1>8 DEF Conclude
  <2>2. CASE local.failed
    BY <1>8, <2>1, <2>2, EmptySeq DEF Conclude, StopExecution
  <2>3. CASE ~local.failed
    <3>1. Proceed
      BY <1>8, <2>3 DEF Conclude
    <3>2. CASE local.end >= until
      BY <2>1, <3>1, <3>2, EmptySeq DEF Proceed, StopExecution
    <3>3. CASE ~(local.end >= until)
      BY <2>1, <3>1, <3>3 DEF Proceed
    <3>. QED BY <3>2, <3>3
  <2>. QED BY <2>2, <2>3
<1>9. CASE HandleEvent
  BY <1>9 DEF HandleEvent, HandleExecuted, HandleRows, HandleCounted,
              HandleEnd, HandleConfirm, StartNextStatement
<1>10. CASE Answer
  <2>1. /\ pc = "confirm" /\ pc' = "answered"
    BY <1>10 DEF Answer, Questions
  <2>2. CASE Stop
    BY <2>1, <2>2, EmptySeq DEF Stop, StopExecution
  <2>3. CASE ~Stop
    BY <1>10, <2>1, <2>3 DEF Answer
  <2>. QED BY <2>2, <2>3
<1>11. CASE StopScript \/ Close
  <2>1. pc # "acquire"
    BY <1>11 DEF StopScript, Close, Stop, Cleared, Holds
  <2>2. left' = <<>> /\ position' = 0 /\ until' = 0 /\ stopped'
    BY <1>11 DEF StopScript, Close, Stop, StopExecution
  <2>3. /\ pc' = pc /\ local' = local
        /\ prepared' = prepared /\ asked' = asked
    BY <1>11 DEF StopScript, Close, Stop
  <2>. QED BY <2>1, <2>2, <2>3, EmptySeq
<1>12. CASE Joined \/ LoadEnd
  BY <1>12 DEF Joined, LoadEnd
<1>13. CASE UNCHANGED vars
  BY <1>13 DEF vars
<1>. QED
  BY <1>1, <1>2, <1>3, <1>4, <1>5, <1>6, <1>7, <1>8, <1>9, <1>10, <1>11,
     <1>12, <1>13 DEF Next, ScriptStep

(***************************************************************************)
(* Questions and Results follow the queue.                                 *)
(***************************************************************************)
LEMMA QuestionsKept == IInv /\ [Next]_vars => Questions'
<1>. SUFFICES ASSUME IInv, [Next]_vars PROVE Questions'
  OBVIOUS
<1>. USE DEF IInv, Questions, script, gui, history
\* The script goes on without a question.
<1>1. ASSUME Plain(events, events'), window' = window,
             pc # "confirm" \/ pc' = "confirm"
      PROVE  Questions'
  BY <1>1 DEF Plain
\* The window takes a signal and asks nothing new.
<1>2. ASSUME events # <<>>, events' = Tail(events), window' = window,
             pc' = pc
      PROVE  Questions'
  BY <1>2, Consumed
<1>3. Plain(events, events)
  BY DEF Plain
<1>4. CASE Begin
  BY <1>1, <1>3, <1>4, PlainSignal DEF Begin, Emit
<1>5. CASE Prepare
  <2>1. CASE pc' = "confirm"
    <3>1. events' = Append(events, "confirm") /\ pc = "acquire"
          /\ window' = window
      BY <1>5, <2>1 DEF Prepare, Emit
    <3>2. "confirm" \in Signals
      BY DEF Signals
    <3>. QED BY <2>1, <3>1, <3>2, Queued
  <2>2. CASE pc' # "confirm"
    BY <1>1, <1>3, <1>5, <2>2 DEF Prepare
  <2>. QED BY <2>1, <2>2
<1>6. CASE Empty
  BY <1>1, <1>3, <1>6, PlainSignal DEF Empty, Proceed, Emit
<1>7. CASE SetSavepoints \/ Reacquire \/ ReleaseAllSavepoints
  BY <1>1, <1>3, <1>7 DEF SetSavepoints, Reacquire, ReleaseAllSavepoints
<1>8. CASE Answered
  BY <1>1, <1>3, <1>8, PlainEnd DEF Answered
<1>9. CASE Step \/ Continue \/ Cleanup \/ ReleaseUnneeded
  BY <1>1, <1>3, <1>9 DEF Step, Continue, Cleanup, ReleaseUnneeded
<1>10. CASE Report
  <2>1. PICK s \in {"rows", "executed"} : events' = Append(events, s)
    BY <1>10 DEF Report, Emit
  <2>2. pc = "report" /\ window' = window /\ s \in Signals
    BY <1>10 DEF Report, Signals
  <2>. QED BY <2>1, <2>2, Queued
<1>11. CASE Conclude
  BY <1>1, <1>3, <1>11, PlainEnd, PlainSignal DEF Conclude, Proceed, Emit
<1>12. CASE HandleExecuted \/ HandleRows \/ HandleCounted \/ HandleEnd
  BY <1>2, <1>12
  DEF HandleExecuted, HandleRows, HandleCounted, HandleEnd, Handle,
      StartNextStatement
<1>13. CASE HandleConfirm
  BY <1>13, Consumed DEF HandleConfirm, Handle
<1>14. CASE Answer
  <2>1. /\ events' = events /\ window = "asking" /\ window' = "idle"
    BY <1>14 DEF Answer
  <2>. QED BY <2>1
<1>15. CASE StopScript
  BY <1>1, <1>3, <1>15 DEF StopScript
<1>16. CASE Close \/ Joined
  BY <1>16 DEF Close, Joined
<1>17. CASE LoadEnd
  BY <1>1, <1>3, <1>17, PlainSignal DEF LoadEnd, Emit
<1>18. CASE UNCHANGED vars
  BY <1>1, <1>3, <1>18 DEF vars
<1>. QED
  BY <1>4, <1>5, <1>6, <1>7, <1>8, <1>9, <1>10, <1>11, <1>12, <1>13, <1>14,
     <1>15, <1>16, <1>17, <1>18 DEF Next, ScriptStep, HandleEvent

\* A script that was stopped stays so.
LEMMA StopStays ==
  ASSUME stopped, [Next]_vars
  PROVE  stopped'
<1>. USE DEF script, gui, history
<1>1. CASE ScriptStep
  BY <1>1 DEF ScriptStep, Begin, Prepare, Empty, SetSavepoints, Reacquire,
     Answered, ReleaseAllSavepoints, Step, Report, Continue, Cleanup,
     ReleaseUnneeded, Conclude
<1>2. CASE HandleEvent
  BY <1>2 DEF HandleEvent, HandleExecuted, HandleRows, HandleCounted,
     HandleEnd, HandleConfirm
<1>3. CASE Answer \/ StopScript \/ Close
  BY <1>3 DEF Answer, StopScript, Close, Stop
<1>4. CASE Joined \/ LoadEnd \/ UNCHANGED vars
  BY <1>4 DEF Joined, LoadEnd, vars
<1>. QED BY <1>1, <1>2, <1>3, <1>4 DEF Next

\* A result not yet shown stays the only one while the script is parked.
LEMMA ResultsKept == IInv /\ [Next]_vars => Results'
<1>. SUFFICES ASSUME IInv, [Next]_vars, ~stopped, ~stopped' PROVE Results'
  BY StopStays DEF Results
<1>. USE DEF IInv, Results, Questions, script, gui, history
\* The script is not parked, or goes on to sleep, and no result comes.
<1>1. ASSUME Plain(events, events'), callback' = callback,
             \/ pc # "parked"
             \/ pc' = "parked" /\ (mayContinue' <=> mayContinue)
      PROVE  Results'
  BY <1>1 DEF Plain
<1>2. ASSUME events # <<>>, events' = Tail(events), callback' = callback,
             pc' = pc, mayContinue' <=> mayContinue
      PROVE  Results'
  BY <1>2, Consumed
<1>3. Plain(events, events)
  BY DEF Plain
<1>4. CASE Begin
  BY <1>1, <1>3, <1>4, PlainSignal DEF Begin, Emit
<1>5. CASE Prepare
  <2>1. pc = "acquire" /\ callback' = callback
    BY <1>5 DEF Prepare
  <2>2. events' = events \/ events' = Append(events, "confirm")
    BY <1>5 DEF Prepare, Emit
  <2>3. "confirm" \in Signals
    BY DEF Signals
  <2>. QED BY <2>1, <2>2, <2>3, Queued
<1>6. CASE Empty
  BY <1>1, <1>3, <1>6, PlainSignal DEF Empty, Proceed, Emit
<1>7. CASE SetSavepoints \/ Reacquire \/ ReleaseAllSavepoints
  BY <1>1, <1>3, <1>7 DEF SetSavepoints, Reacquire, ReleaseAllSavepoints
<1>8. CASE Answered
  BY <1>1, <1>3, <1>8, PlainEnd DEF Answered
<1>9. CASE Step \/ Cleanup \/ ReleaseUnneeded
  BY <1>1, <1>3, <1>9 DEF Step, Cleanup, ReleaseUnneeded
<1>10. CASE Continue
  BY <1>10 DEF Continue
<1>11. CASE Report
  <2>1. PICK s \in {"rows", "executed"} : events' = Append(events, s)
    BY <1>11 DEF Report, Emit
  <2>2. /\ pc = "report" /\ pc' = "parked" /\ callback' = callback
        /\ ~mayContinue' /\ s \in Signals
    BY <1>11 DEF Report, Signals
  <2>. QED BY <2>1, <2>2, Queued
<1>12. CASE Conclude
  BY <1>1, <1>3, <1>12, PlainEnd, PlainSignal DEF Conclude, Proceed, Emit
<1>13. CASE HandleExecuted
  <2>1. /\ events # <<>> /\ events[1] = "executed" /\ events' = Tail(events)
        /\ callback' = callback
    BY <1>13, Consumed DEF HandleExecuted, Handle
  <2>2. \A i \in 1..Len(events') : events'[i] \notin {"executed", "rows"}
    BY <2>1, Consumed
  <2>. QED BY <2>1, <2>2, Consumed
<1>14. CASE HandleRows
  <2>1. /\ events # <<>> /\ events[1] = "rows" /\ events' = Tail(events)
        /\ pc' = pc /\ (mayContinue' <=> mayContinue)
    BY <1>14, Consumed DEF HandleRows, Handle
  <2>2. \A i \in 1..Len(events') : events'[i] \notin {"executed", "rows"}
    BY <2>1, Consumed
  <2>. QED BY <2>1, <2>2, Consumed
<1>15. CASE HandleCounted
  <2>1. CASE callback
    BY <1>15, <2>1, Consumed DEF HandleCounted, Handle
  <2>2. CASE ~callback
    BY <1>2, <1>15, <2>2 DEF HandleCounted, Handle
  <2>. QED BY <2>1, <2>2
<1>16. CASE HandleEnd \/ HandleConfirm
  BY <1>2, <1>16 DEF HandleEnd, HandleConfirm, Handle
<1>17. CASE Answer
  <2>1. /\ pc = "confirm" /\ events' = events /\ callback' = callback
    BY <1>17 DEF Answer
  <2>. QED BY <1>1, <1>3, <2>1
<1>18. CASE StopScript \/ Close
  BY <1>18 DEF StopScript, Close, Stop
<1>19. CASE Joined
  BY <1>1, <1>3, <1>19 DEF Joined
<1>20. CASE LoadEnd
  BY <1>1, <1>3, <1>20, PlainSignal DEF LoadEnd, Emit
<1>21. CASE UNCHANGED vars
  BY <1>1, <1>3, <1>21 DEF vars
<1>. QED
  BY <1>4, <1>5, <1>6, <1>7, <1>8, <1>9, <1>10, <1>11, <1>12, <1>13, <1>14,
     <1>15, <1>16, <1>17, <1>18, <1>19, <1>20, <1>21
  DEF Next, ScriptStep, HandleEvent

\* The invariant holds in every state.
LEMMA Invariant == Spec => []IInv
<1>1. IInv /\ [Next]_vars => IInv'
  BY ClearedKept, CountedKept, QuestionsKept, ResultsKept DEF IInv
<1>. QED BY <1>1, Initially, PTL DEF Spec

(***************************************************************************)
(* Who holds the database.  Between the statement's first step and its     *)
(* last one the script does, from its cleanup on it may be the loader.     *)
(***************************************************************************)
Types ==
  /\ pc \in {"begin", "acquire", "empty", "savepoints", "reacquire",
             "confirm", "answered", "commit", "step", "report", "parked",
             "cleanup", "unneeded", "conclude", "done"}
  /\ position \in 0..MaxLength
  /\ until \in 0..MaxLength
  /\ mayContinue \in BOOLEAN
  /\ m \in BOOLEAN
  /\ window \in {"idle", "asking", "joining", "closed"}

Holders ==
  /\ db \in {"none", "script", "loader"}
  /\ pc \in {"empty", "confirm", "answered", "step"} => db = "script"
  /\ db = "script" =>
       pc \in {"empty", "confirm", "answered", "step", "cleanup"}
  /\ loading \in BOOLEAN
  /\ db = "loader" <=> loading

\* Before anything was run nobody holds the mutex or the database.
LEMMA TypesInitially == Init => Types /\ Holders
<1>. SUFFICES ASSUME Init PROVE Types /\ Holders
  OBVIOUS
<1>1. PICK length \in 1..MaxLength : left \in [1..length -> Kinds]
  BY DEF Init
<1>2. until \in 0..MaxLength
  <2>1. Len(left) = length /\ length \in Nat /\ length <= MaxLength
    BY <1>1, ScriptWindowAssumption
  <2>. QED BY <2>1, ScriptWindowAssumption DEF Init
<1>3. 0 \in 0..MaxLength
  BY ScriptWindowAssumption
<1>. QED BY <1>2, <1>3 DEF Init, Types, Holders

\* Every step keeps the types.
LEMMA TypesKept == IInv /\ Types /\ Holders /\ [Next]_vars => Types'
<1>. SUFFICES ASSUME IInv, Types, Holders, [Next]_vars PROVE Types'
  OBVIOUS
<1>. USE DEF Types, script, gui, history
<1>0. 0 \in 0..MaxLength
  BY ScriptWindowAssumption
<1>p. Proceed => position' \in 0..MaxLength /\ until' \in 0..MaxLength
                 /\ mayContinue' \in BOOLEAN /\ pc' \in {"done", "begin"}
  <2>1. local.end \in Nat /\ MaxLength \in Nat
    BY ScriptWindowAssumption DEF IInv, Counted
  <2>2. ASSUME ~(local.end >= until) PROVE local.end \in 0..MaxLength
    BY <2>1, <2>2
  <2>. QED BY <1>0, <2>2 DEF Proceed, StopExecution
<1>1. CASE Begin
  BY <1>1 DEF Begin
<1>2. CASE Prepare
  BY <1>2 DEF Prepare
<1>3. CASE Empty
  BY <1>3, <1>p DEF Empty
<1>4. CASE SetSavepoints \/ Reacquire
  BY <1>4 DEF SetSavepoints, Reacquire
<1>5. CASE Answered \/ ReleaseAllSavepoints
  BY <1>5 DEF Answered, ReleaseAllSavepoints
<1>6. CASE Step \/ Report \/ Continue
  BY <1>6 DEF Step, Report, Continue
<1>7. CASE Cleanup \/ ReleaseUnneeded
  BY <1>7 DEF Cleanup, ReleaseUnneeded
<1>8. CASE Conclude
  BY <1>0, <1>8, <1>p DEF Conclude, StopExecution
<1>9. CASE HandleEvent
  BY <1>9 DEF HandleEvent, HandleExecuted, HandleRows, HandleCounted,
              HandleEnd, HandleConfirm, StartNextStatement
<1>10. CASE Answer
  BY <1>0, <1>10 DEF Answer, Stop, StopExecution
<1>11. CASE StopScript \/ Close
  BY <1>0, <1>11 DEF StopScript, Close, Stop, StopExecution
<1>12. CASE Joined \/ LoadEnd
  BY <1>12 DEF Joined, LoadEnd
<1>13. CASE UNCHANGED vars
  BY <1>13 DEF vars
<1>. QED
  BY <1>1, <1>2, <1>3, <1>4, <1>5, <1>6, <1>7, <1>8, <1>9, <1>10, <1>11,
     <1>12, <1>13 DEF Next, ScriptStep

\* Every step keeps the mutex and the database with the one at that place.
LEMMA HoldersKept == IInv /\ Types /\ Holders /\ [Next]_vars => Holders'
<1>. SUFFICES ASSUME IInv, Types, Holders, [Next]_vars PROVE Holders'
  OBVIOUS
<1>. USE DEF Holders, script, gui, history
<1>1. CASE Begin
  BY <1>1 DEF Begin
<1>2. CASE Prepare
  BY <1>2 DEF Prepare
<1>3. CASE Empty
  BY <1>3 DEF Empty, Proceed
<1>4. CASE SetSavepoints \/ Reacquire
  BY <1>4 DEF SetSavepoints, Reacquire
<1>5. CASE Answered \/ ReleaseAllSavepoints
  BY <1>5 DEF Answered, ReleaseAllSavepoints
<1>6. CASE Step \/ Report \/ Continue
  BY <1>6 DEF Step, Report, Continue
<1>7. CASE Cleanup \/ ReleaseUnneeded
  BY <1>7 DEF Cleanup, ReleaseUnneeded
<1>8. CASE Conclude
  BY <1>8 DEF Conclude, Proceed
<1>9. CASE HandleEvent
  <2>1. CASE HandleRows
    BY <2>1 DEF HandleRows
  <2>2. CASE ~HandleRows
    BY <1>9, <2>2 DEF HandleEvent, HandleExecuted, HandleCounted,
                      HandleEnd, HandleConfirm, StartNextStatement
  <2>. QED BY <2>1, <2>2
<1>10. CASE Answer
  BY <1>10 DEF Answer, IInv, Questions
<1>11. CASE StopScript \/ Close
  BY <1>11 DEF StopScript, Close
<1>12. CASE Joined \/ LoadEnd
  <2>1. CASE Joined
    BY <2>1 DEF Joined
  <2>2. CASE LoadEnd
    <3>1. /\ db = "loader" /\ db' = "none" /\ pc' = pc /\ loading' = FALSE
      BY <2>2 DEF LoadEnd
    <3>2. pc \notin {"empty", "confirm", "answered", "step"}
      BY <3>1
    <3>. QED BY <3>1, <3>2
  <2>. QED BY <1>12, <2>1, <2>2
<1>13. CASE UNCHANGED vars
  BY <1>13 DEF vars
<1>. QED
  BY <1>1, <1>2, <1>3, <1>4, <1>5, <1>6, <1>7, <1>8, <1>9, <1>10, <1>11,
     <1>12, <1>13 DEF Next, ScriptStep

\* The types and the holders are right in every state.
LEMMA TypesInvariant == Spec => [](Types /\ Holders)
<1>1. IInv /\ (Types /\ Holders) /\ [Next]_vars => (Types /\ Holders)'
  BY TypesKept, HoldersKept
<1>. QED BY <1>1, TypesInitially, Invariant, PTL DEF Spec

(***************************************************************************)
(* The theorems.                                                           *)
(***************************************************************************)
\* The script's thread has the mutex in executeNextStatement exactly where
\* the code locks it, and a result and the script never have the database
\* at the same time: it is free whenever the script reports or sleeps.
THEOREM LocksAreHeldInOrder == Spec => []TypeOK
<1>1. IInv /\ Types /\ Holders => TypeOK
  BY DEF IInv, Types, Holders, Cleared, Holds, Questions, TypeOK
<1>. QED BY <1>1, Invariant, TypesInvariant, PTL

\* When a statement begins, the result of the one before has been shown,
\* for the wait in executeNextStatement and the handlers of executeQuery.
THEOREM ResultsAreShownFirst == Spec => []ShownBeforeNext
<1>1. IInv => ShownBeforeNext
  BY DEF IInv, Results, ShownBeforeNext
<1>. QED BY <1>1, Invariant, PTL

\* run() never goes beyond the statements the user asked for.
THEOREM NoMoreThanAsked == Spec => []OnlyAskedFor
<1>1. IInv => OnlyAskedFor
  BY DEF IInv, Counted, OnlyAskedFor
<1>. QED BY <1>1, Invariant, PTL

\* A script that was stopped prepares no other statement, whatever it did
\* when stop() came.
THEOREM StopIsFinal == Spec => StoppedPreparesNothing
<1>1. IInv /\ [Next]_vars => (stopped => prepared' = prepared)
  <2>. SUFFICES ASSUME IInv, Next, stopped PROVE prepared' = prepared
    BY DEF vars, history
  <2>1. ~Prepare
    BY DEF IInv, Cleared, Prepare
  <2>. QED
    BY <2>1 DEF Next, ScriptStep, HandleEvent, Begin, Empty,
       SetSavepoints, Reacquire, Answered, ReleaseAllSavepoints, Step,
       Report, Continue, Cleanup, ReleaseUnneeded, Conclude, HandleExecuted,
       HandleRows, HandleCounted, HandleEnd, HandleConfirm, Answer, Stop,
       StopScript, Close, Joined, LoadEnd, gui, history
<1>. QED BY <1>1, Invariant, PTL DEF Spec, StoppedPreparesNothing
===============================================================================
