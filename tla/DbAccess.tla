------------------------------- MODULE DbAccess -------------------------------
(***************************************************************************)
(* How the threads share the one connection of DBBrowserDB.  get() waits   *)
(* until nobody uses the database, marks it used and returns the handle;   *)
(* the deleter of the handle takes the mark away and notifies one waiting  *)
(* thread.  Other calls only wait and then use the connection unmarked.    *)
(* The main thread may pass its handle on to a row loader.  Only the mutex *)
(* m of the condition variable makes steps atomic: the end of the wait and *)
(* the mark are two steps, as are the release and the notification.        *)
(***************************************************************************)
EXTENDS FiniteSets

CONSTANTS
  Main,     \* the thread of the user interface
  Scripts,  \* the threads that execute scripts
  Loaders   \* the row loaders, which get their handle from the main thread

Threads == {Main} \cup Scripts
Users == Threads \cup Loaders

\* A thread is not a loader, and the main thread executes no script.
ASSUME DbAccessAssumption == /\ Main \notin Scripts
                             /\ Threads \cap Loaders = {}

VARIABLES
  used,       \* db_used
  pc,         \* what each user is doing
  kind,       \* what a thread waits for: to "get" a handle or a "plain" use
  swallowed,  \* history: a plain use took the notification another one needs
  raced       \* history: two threads were between the wait and the mark

vars == <<used, pc, kind, swallowed, raced>>

In(state) == {u \in Users : pc[u] = state}

\* The states of the users and, but for loaders, of a wait.  Only the main
\* thread can ask the user.
TypeOK ==
  /\ used \in BOOLEAN
  /\ pc \in [Users -> {"idle", "check", "ask", "relock", "wait", "woken",
                       "mark", "use", "notify", "plain"}]
  /\ kind \in [Threads -> {"get", "plain"}]
  /\ swallowed \in BOOLEAN
  /\ raced \in BOOLEAN
  /\ \A l \in Loaders : pc[l] \in {"idle", "use", "notify"}
  /\ \A t \in Scripts : pc[t] # "ask"

Init ==
  /\ used = FALSE
  /\ pc = [u \in Users |-> "idle"]
  /\ kind = [t \in Threads |-> "get"]
  /\ swallowed = FALSE
  /\ raced = FALSE

Goto(u, state) == pc' = [pc EXCEPT ![u] = state]

(***************************************************************************)
(* waitForDbRelease.                                                       *)
(***************************************************************************)
\* A call of get(), or of another function, which waits only.
Call(t, k) ==
  /\ pc[t] = "idle"
  /\ kind' = [kind EXCEPT ![t] = k]
  /\ Goto(t, "check")
  /\ UNCHANGED <<used, swallowed, raced>>

\* The end of the wait, with the database found unused.
Pass(t) ==
  IF kind[t] = "get"
  THEN Goto(t, "mark") /\ raced' = (raced \/ In("mark") # {})
  ELSE Goto(t, "plain") /\ UNCHANGED raced

\* Mutant: every thread asks the user.
Check_AskAlways(t) ==
  /\ pc[t] = "check"
  /\ IF ~used THEN Pass(t) ELSE Goto(t, "ask") /\ UNCHANGED raced
  /\ UNCHANGED <<used, kind, swallowed>>

\* The condition of the loop.  In another thread than the main one Ask
\* means Wait.
Check(t) ==
  /\ pc[t] = "check"
  /\ IF ~used
     THEN Pass(t)
     ELSE /\ Goto(t, IF t = Main THEN "ask" ELSE "relock")
          /\ UNCHANGED raced
  /\ UNCHANGED <<used, kind, swallowed>>

\* The user answers; the other operation may be interrupted, and ends sooner.
Answer ==
  /\ pc[Main] = "ask"
  /\ Goto(Main, "relock")
  /\ UNCHANGED <<used, kind, swallowed, raced>>

\* Mutant: it sleeps without looking at the mark again.
Relock_Blind(t) ==
  /\ pc[t] = "relock"
  /\ Goto(t, "wait")
  /\ UNCHANGED <<used, kind, swallowed, raced>>

\* cv.wait looks at the mark before it sleeps.
Relock(t) ==
  /\ pc[t] = "relock"
  /\ IF ~used THEN Pass(t) ELSE Goto(t, "wait") /\ UNCHANGED raced
  /\ UNCHANGED <<used, kind, swallowed>>

\* A condition variable may wake up on its own.
WakeUp(t) ==
  /\ pc[t] = "wait"
  /\ Goto(t, "woken")
  /\ UNCHANGED <<used, kind, swallowed, raced>>

\* Mutant: a wait without a predicate, in an if instead of a loop.
Recheck_Once(t) ==
  /\ pc[t] = "woken"
  /\ Pass(t)
  /\ swallowed' = (swallowed \/ kind[t] = "plain")
  /\ UNCHANGED <<used, kind>>

\* cv.wait looks at the mark again after it slept.
Recheck(t) ==
  /\ pc[t] = "woken"
  /\ IF ~used THEN Pass(t) ELSE Goto(t, "wait") /\ UNCHANGED raced
  /\ swallowed' = (swallowed \/ (~used /\ kind[t] = "plain"))
  /\ UNCHANGED <<used, kind>>

(***************************************************************************)
(* get, the uses and the deleter.                                          *)
(***************************************************************************)
Mark(t) ==
  /\ pc[t] = "mark"
  /\ used' = TRUE
  /\ Goto(t, "use")
  /\ UNCHANGED <<kind, swallowed, raced>>

\* RowLoader::triggerFetch keeps the handle until its tasks are done.
PassOn(l) ==
  /\ pc[Main] = "use"
  /\ pc[l] = "idle"
  /\ pc' = [pc EXCEPT ![Main] = "idle", ![l] = "use"]
  /\ UNCHANGED <<used, kind, swallowed, raced>>

EndPlain(t) ==
  /\ pc[t] = "plain"
  /\ Goto(t, "idle")
  /\ UNCHANGED <<used, kind, swallowed, raced>>

\* Mutant: the mark stays.
Release_KeepMark(u) ==
  /\ pc[u] = "use"
  /\ Goto(u, "notify")
  /\ UNCHANGED <<used, kind, swallowed, raced>>

Release(u) ==
  /\ pc[u] = "use"
  /\ used' = FALSE
  /\ Goto(u, "notify")
  /\ UNCHANGED <<kind, swallowed, raced>>

\* Mutant: nobody is notified.
Notify_Nobody(u) ==
  /\ pc[u] = "notify"
  /\ Goto(u, "idle")
  /\ swallowed' = FALSE
  /\ UNCHANGED <<used, kind, raced>>

\* notify_one
Notify(u) ==
  /\ pc[u] = "notify"
  /\ \/ /\ In("wait") = {}
        /\ Goto(u, "idle")
     \/ \E t \in In("wait") :
          pc' = [pc EXCEPT ![u] = "idle", ![t] = "woken"]
  /\ swallowed' = FALSE
  /\ UNCHANGED <<used, kind, raced>>

ThreadStep(t) == \/ Check(t) \/ Relock(t) \/ Recheck(t)
                 \/ Mark(t) \/ EndPlain(t)

Next ==
  \/ \E t \in Threads : \/ Call(t, "get") \/ Call(t, "plain")
                        \/ ThreadStep(t) \/ WakeUp(t)
  \/ Answer
  \/ \E l \in Loaders : PassOn(l)
  \/ \E u \in Users : Release(u) \/ Notify(u)

\* The threads run, the user answers, and every use of the database ends.
Fairness ==
  /\ \A t \in Threads : WF_vars(ThreadStep(t))
  /\ WF_vars(Answer)
  /\ \A u \in Users : WF_vars(Release(u)) /\ WF_vars(Notify(u))

Spec == Init /\ [][Next]_vars /\ Fairness

(***************************************************************************)
(* Properties.                                                             *)
(***************************************************************************)
\* The database is never left marked as used with nobody to release it
\* (get and DatabaseReleaser), whatever else goes wrong.
UsedIsHeld == used => In("use") # {}

\* Two users hold the handle at once only after two threads have been
\* between the wait and the mark of get() at once: there is no other hole in
\* the exclusive access that the comment on get() promises.
SharedOnlyByRace ==
  \A u, v \in In("use") : u # v => raced

\* No thread sleeps on a database that is unused unless somebody is on the
\* way to notify it, or the one notification went to a plain use, which ends
\* without notifying (notify_one in the deleter, cv.wait with its predicate).
NobodyForgotten ==
  In("wait") # {} /\ ~used =>
    swallowed \/ In("woken") \cup In("mark") \cup In("use") \cup In("notify") # {}

\* A waiting thread, or another one, is woken in the end, with the same
\* exception.
SomebodyWakes ==
  In("wait") # {} ~> In("woken") # {} \/ swallowed
===============================================================================
