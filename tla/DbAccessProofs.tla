---------------------------- MODULE DbAccessProofs ----------------------------
(***************************************************************************)
(* Proofs about DbAccess, for every set of script threads and of loaders:  *)
(* the handle is shared through one hole only, the database is never left  *)
(* marked with nobody to release it, and no waiting thread is forgotten,   *)
(* except for a notification that a plain use took.                        *)
(***************************************************************************)
EXTENDS DbAccess, TLAPS

\* As long as no two threads were between the wait and the mark, the mark
\* says exactly whether somebody holds the handle, one user at most holds it
\* or is about to mark, and none holds it while another is about to.
MarkIsTrue ==
  ~raced => /\ In("use") # {} => used
            /\ \A u, v \in In("use") : u = v
            /\ \A u, v \in In("mark") : u = v
            /\ In("mark") # {} => ~used

\* The inductive invariant.
IInv == TypeOK /\ UsedIsHeld /\ NobodyForgotten /\ MarkIsTrue

\* The step that ends a wait keeps the invariant: shared by the three places
\* that look at the mark.
LEMMA PassKeeps ==
  ASSUME IInv, NEW t \in Threads, ~used,
         pc[t] \in {"check", "relock", "woken"},
         Pass(t), used' = used, kind' = kind,
         swallowed' = (swallowed \/ (pc[t] = "woken" /\ kind[t] = "plain"))
  PROVE  IInv'
<1>. USE DbAccessAssumption DEF Users, Threads
<1>1. CASE kind[t] = "get"
  <2>1. /\ pc' = [pc EXCEPT ![t] = "mark"]
        /\ raced' = (raced \/ In("mark") # {})
    BY <1>1 DEF Pass, Goto
  <2>2. TypeOK'
    BY <2>1 DEF IInv, TypeOK
  <2>3. UsedIsHeld'
    BY DEF UsedIsHeld
  <2>4. NobodyForgotten'
    BY <2>1 DEF NobodyForgotten, In, IInv, TypeOK
  <2>5. MarkIsTrue'
    BY <2>1 DEF MarkIsTrue, In, IInv, TypeOK
  <2>. QED BY <2>2, <2>3, <2>4, <2>5 DEF IInv
<1>2. CASE kind[t] = "plain"
  <2>1. pc' = [pc EXCEPT ![t] = "plain"] /\ raced' = raced
    BY <1>2 DEF Pass, Goto
  <2>2. TypeOK'
    BY <2>1 DEF IInv, TypeOK
  <2>3. UsedIsHeld'
    BY DEF UsedIsHeld
  <2>4. NobodyForgotten'
    BY <1>2, <2>1 DEF NobodyForgotten, In, IInv, TypeOK
  <2>5. MarkIsTrue'
    BY <2>1 DEF MarkIsTrue, In, IInv, TypeOK
  <2>. QED BY <2>2, <2>3, <2>4, <2>5 DEF IInv
<1>. QED BY <1>1, <1>2 DEF IInv, TypeOK

\* A step in which one user goes from one state to another, neither of which
\* holds the handle or is about to mark, keeps the invariant.
LEMMA GotoKeeps ==
  ASSUME IInv, NEW t \in Threads, NEW s,
         pc[t] \in {"idle", "check", "ask", "relock", "wait", "woken", "plain"},
         s \in {"idle", "check", "ask", "relock", "wait", "woken"},
         s = "ask" => t = Main,
         s = "wait" => used,
         pc[t] = "woken" => used,
         Goto(t, s), used' = used, swallowed' = swallowed, raced' = raced,
         kind' \in [Threads -> {"get", "plain"}]
  PROVE  IInv'
<1>. USE DbAccessAssumption DEF Users, Threads
<1>1. pc' = [pc EXCEPT ![t] = s]
  BY DEF Goto
<1>2. TypeOK'
  BY <1>1 DEF IInv, TypeOK
<1>3. UsedIsHeld'
  BY <1>1 DEF UsedIsHeld, In, IInv, TypeOK
<1>4. NobodyForgotten'
  BY <1>1 DEF NobodyForgotten, In, IInv, TypeOK
<1>5. MarkIsTrue'
  BY <1>1 DEF MarkIsTrue, In, IInv, TypeOK
<1>. QED BY <1>2, <1>3, <1>4, <1>5 DEF IInv

\* The invariant holds before any thread has called.
LEMMA Initially == Init => IInv
BY DbAccessAssumption
   DEF Init, IInv, TypeOK, UsedIsHeld, NobodyForgotten, MarkIsTrue, In,
       Users, Threads

\* Every step of a thread keeps the invariant.
LEMMA Inductive == IInv /\ [Next]_vars => IInv'
<1>. SUFFICES ASSUME IInv, [Next]_vars PROVE IInv'
  OBVIOUS
<1>. USE DbAccessAssumption
<1>typed. TypeOK
  BY DEF IInv
<1>1. ASSUME NEW t \in Threads, NEW k \in {"get", "plain"}, Call(t, k)
      PROVE  IInv'
  <2>1. kind' \in [Threads -> {"get", "plain"}]
    BY <1>1, <1>typed DEF Call, TypeOK
  <2>. QED BY <1>1, <2>1, GotoKeeps DEF Call
<1>2. ASSUME NEW t \in Threads, Check(t) PROVE IInv'
  <2>1. CASE used
    <3>. DEFINE s == IF t = Main THEN "ask" ELSE "relock"
    <3>1. s \in {"ask", "relock"} /\ (s = "ask" => t = Main)
      OBVIOUS
    <3>2. /\ Goto(t, s) /\ pc[t] = "check"
          /\ used' = used /\ kind' = kind
          /\ swallowed' = swallowed /\ raced' = raced
      BY <1>2, <2>1 DEF Check
    <3>. HIDE DEF s
    <3>. QED BY <3>1, <3>2, <1>typed, GotoKeeps DEF TypeOK
  <2>2. CASE ~used
    BY <1>2, <2>2, <1>typed, PassKeeps DEF Check, TypeOK
  <2>. QED BY <2>1, <2>2
<1>3. CASE Answer
  BY <1>3, <1>typed, GotoKeeps DEF Answer, TypeOK, Threads
<1>4. ASSUME NEW t \in Threads, Relock(t) PROVE IInv'
  <2>1. CASE used
    BY <1>4, <2>1, <1>typed, GotoKeeps DEF Relock, TypeOK
  <2>2. CASE ~used
    BY <1>4, <2>2, <1>typed, PassKeeps DEF Relock, TypeOK
  <2>. QED BY <2>1, <2>2
<1>5. ASSUME NEW t \in Threads, WakeUp(t) PROVE IInv'
  BY <1>5, <1>typed, GotoKeeps DEF WakeUp, TypeOK
<1>6. ASSUME NEW t \in Threads, Recheck(t) PROVE IInv'
  <2>1. CASE used
    BY <1>6, <2>1, <1>typed, GotoKeeps DEF Recheck, TypeOK
  <2>2. CASE ~used
    BY <1>6, <2>2, <1>typed, PassKeeps DEF Recheck, TypeOK
  <2>. QED BY <2>1, <2>2
<1>7. ASSUME NEW t \in Threads, Mark(t) PROVE IInv'
  <2>1. /\ pc[t] = "mark" /\ used' = TRUE
        /\ pc' = [pc EXCEPT ![t] = "use"]
        /\ kind' = kind /\ swallowed' = swallowed /\ raced' = raced
    BY <1>7 DEF Mark, Goto
  <2>2. TypeOK'
    BY <2>1, <1>typed DEF TypeOK, Users, Threads
  <2>3. UsedIsHeld'
    BY <2>1, <1>typed DEF UsedIsHeld, In, TypeOK, Users
  <2>4. NobodyForgotten'
    BY <2>1 DEF NobodyForgotten
  <2>5. MarkIsTrue'
    BY <2>1, <1>typed DEF IInv, MarkIsTrue, In, TypeOK, Users
  <2>. QED BY <2>2, <2>3, <2>4, <2>5 DEF IInv
<1>8. ASSUME NEW t \in Threads, EndPlain(t) PROVE IInv'
  BY <1>8, <1>typed, GotoKeeps DEF EndPlain, TypeOK
<1>9. ASSUME NEW l \in Loaders, PassOn(l) PROVE IInv'
  <2>1. /\ pc[Main] = "use" /\ pc[l] = "idle" /\ l # Main
        /\ pc' = [pc EXCEPT ![Main] = "idle", ![l] = "use"]
        /\ UNCHANGED <<used, kind, swallowed, raced>>
    BY <1>9 DEF PassOn, Threads
  <2>2. TypeOK'
    BY <2>1, <1>typed DEF TypeOK, Users, Threads
  <2>3. UsedIsHeld'
    BY <2>1, <1>typed DEF UsedIsHeld, In, TypeOK, Users
  <2>4. NobodyForgotten'
    BY <2>1, <1>typed DEF IInv, NobodyForgotten, In, TypeOK, Users
  <2>5. MarkIsTrue'
    BY <2>1, <1>typed DEF IInv, MarkIsTrue, In, TypeOK, Users, Threads
  <2>. QED BY <2>2, <2>3, <2>4, <2>5 DEF IInv
<1>10. ASSUME NEW u \in Users, Release(u) PROVE IInv'
  <2>1. /\ pc[u] = "use" /\ used' = FALSE
        /\ pc' = [pc EXCEPT ![u] = "notify"]
        /\ UNCHANGED <<kind, swallowed, raced>>
    BY <1>10 DEF Release, Goto
  <2>2. TypeOK'
    BY <2>1, <1>typed DEF TypeOK, Users, Threads
  <2>3. UsedIsHeld'
    BY <2>1 DEF UsedIsHeld
  <2>4. NobodyForgotten'
    BY <2>1, <1>typed DEF NobodyForgotten, In, TypeOK
  <2>5. MarkIsTrue'
    BY <2>1, <1>typed DEF IInv, MarkIsTrue, In, TypeOK
  <2>. QED BY <2>2, <2>3, <2>4, <2>5 DEF IInv
<1>11. ASSUME NEW u \in Users, Notify(u) PROVE IInv'
  <2>1. pc[u] = "notify" /\ swallowed' = FALSE
        /\ UNCHANGED <<used, kind, raced>>
    BY <1>11 DEF Notify
  <2>2. CASE In("wait") = {} /\ Goto(u, "idle")
    <3>1. pc' = [pc EXCEPT ![u] = "idle"]
      BY <2>2 DEF Goto
    <3>2. TypeOK'
      BY <2>1, <3>1, <1>typed DEF TypeOK, Users, Threads
    <3>3. UsedIsHeld'
      BY <2>1, <3>1, <1>typed DEF IInv, UsedIsHeld, In, TypeOK
    <3>4. NobodyForgotten'
      BY <2>2, <3>1, <1>typed DEF NobodyForgotten, In, TypeOK
    <3>5. MarkIsTrue'
      BY <2>1, <3>1, <1>typed DEF IInv, MarkIsTrue, In, TypeOK
    <3>. QED BY <3>2, <3>3, <3>4, <3>5 DEF IInv
  <2>3. ASSUME NEW t \in In("wait"),
               pc' = [pc EXCEPT ![u] = "idle", ![t] = "woken"]
        PROVE  IInv'
    <3>1. t \in Users /\ pc[t] = "wait" /\ t # u
      BY <2>1, <2>3 DEF In
    <3>2. TypeOK'
      BY <2>1, <2>3, <3>1, <1>typed DEF TypeOK, Users, Threads
    <3>3. UsedIsHeld'
      BY <2>1, <2>3, <3>1, <1>typed DEF IInv, UsedIsHeld, In, TypeOK
    <3>4. NobodyForgotten'
      BY <2>3, <3>1, <1>typed DEF NobodyForgotten, In, TypeOK
    <3>5. MarkIsTrue'
      BY <2>1, <2>3, <3>1, <1>typed DEF IInv, MarkIsTrue, In, TypeOK
    <3>. QED BY <3>2, <3>3, <3>4, <3>5 DEF IInv
  <2>. QED BY <1>11, <2>2, <2>3 DEF Notify
<1>12. CASE UNCHANGED vars
  BY <1>12 DEF vars, IInv, TypeOK, UsedIsHeld, NobodyForgotten, MarkIsTrue, In
<1>. QED
  BY <1>1, <1>2, <1>3, <1>4, <1>5, <1>6, <1>7, <1>8, <1>9, <1>10, <1>11, <1>12
     DEF Next, ThreadStep

\* The invariant holds in every state.
LEMMA Invariant == Spec => []IInv
BY Initially, Inductive, PTL DEF Spec

\* The handle is shared only after two threads raced between the wait and the
\* mark of get().
THEOREM SharingNeedsRace == Spec => []SharedOnlyByRace
<1>1. IInv => SharedOnlyByRace
  BY DEF IInv, MarkIsTrue, SharedOnlyByRace
<1>. QED BY <1>1, Invariant, PTL

\* While no script runs the main thread alone calls get(), as the comment on
\* it intends, and the handle has one holder at a time.
NoRace == ~raced

\* Without scripts, the main thread and the loaders never use the handle at the
\* same time (get).
THEOREM MainAloneIsExclusive ==
  ASSUME Scripts = {}
  PROVE  Spec => [](\A u, v \in In("use") : u = v)
<1>. DEFINE Alone == IInv /\ NoRace
<1>1. Init => Alone
  BY Initially DEF Init, NoRace
<1>2. Alone /\ [Next]_vars => Alone'
  <2>. SUFFICES ASSUME Alone, [Next]_vars PROVE NoRace'
    BY Inductive
  <2>1. ASSUME NEW t \in Threads, Pass(t),
               pc[t] \in {"check", "relock", "woken"}
        PROVE  NoRace'
    <3>1. t = Main
      BY DEF Threads
    <3>2. In("mark") = {}
      BY <2>1, <3>1 DEF In, IInv, TypeOK, Users, Threads
    <3>. QED BY <2>1, <3>2 DEF Pass, NoRace
  <2>. QED
    BY <2>1 DEF NoRace, Next, vars, ThreadStep, Call, Check, Answer, Relock,
                WakeUp, Recheck, Mark, PassOn, EndPlain, Release, Notify
<1>3. Alone => \A u, v \in In("use") : u = v
  BY DEF IInv, MarkIsTrue, NoRace
<1>. QED BY <1>1, <1>2, <1>3, PTL DEF Spec

\* The mark is never left behind.
THEOREM MarkHasHolder == Spec => []UsedIsHeld
<1>1. IInv => UsedIsHeld
  BY DEF IInv
<1>. QED BY <1>1, Invariant, PTL

\* The users go through the states of a wait, and only the main thread asks.
THEOREM Typed == Spec => []TypeOK
<1>1. IInv => TypeOK
  BY DEF IInv
<1>. QED BY <1>1, Invariant, PTL

\* No thread sleeps unnoticed on an unused database.
THEOREM NobodySleepsUnnoticed == Spec => []NobodyForgotten
<1>1. IInv => NobodyForgotten
  BY DEF IInv
<1>. QED BY <1>1, Invariant, PTL
===============================================================================
