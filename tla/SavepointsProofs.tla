-------------------------- MODULE SavepointsProofs --------------------------
(***************************************************************************)
(* The list of savepoints is SQLite's stack, and the file holds what the   *)
(* user asked to have saved and the side effects RunSql saves at once,     *)
(* whatever the number of dialogs, writes and statements, until a          *)
(* statement of a script ends the transaction by itself.  Until then also  *)
(* a dialog that is rejected brings back what was there before it, and a   *)
(* script without a known write leaves nothing to save.                    *)
(***************************************************************************)
EXTENDS Savepoints, FiniteSetsExt, WellFoundedInduction, SequenceTheorems,
        TLAPS

\* Max picks the greatest element of a set of naturals with an upper bound.
LEMMA GreatestNatural ==
    ASSUME NEW T \in SUBSET Nat, NEW n \in T,
           NEW bound \in Nat, \A k \in T : k <= bound
    PROVE  Max(T) \in T /\ \A k \in T : k <= Max(T)
<1> DEFINE Upper == {b \in Nat : \A k \in T : k <= b}
<1>1. PICK m \in Upper : \A b \in Upper : ~ (<<b, m>> \in OpToRel(<, Nat))
  <2>1. bound \in Upper /\ Upper \in SUBSET Nat
      OBVIOUS
  <2> HIDE DEF Upper
  <2> QED
      BY <2>1, NatLessThanWellFounded, WFMin
<1>2. m \in Upper /\ \A b \in Upper : ~ (b < m)
    BY <1>1 DEF OpToRel
<1>3. m \in T
  <2>1. CASE m = 0
      BY <1>2, <2>1
  <2>2. CASE m # 0
    <3>1. m - 1 \in Nat /\ m - 1 < m
        BY <1>2, <2>2
    <3>2. PICK k \in T : ~ (k <= m - 1)
        BY <1>2, <3>1
    <3>3. k = m
        BY <1>2, <3>1, <3>2
    <3> QED
        BY <3>2, <3>3
  <2> QED
      BY <2>1, <2>2
<1>4. \E x \in T : \A y \in T : x >= y
    BY <1>2, <1>3
<1> QED
    BY <1>4 DEF Max

---------------------------------------------------------------------------
(* The savepoint layer. *)

ConnectionType == [stack : Seq([name : Names, content : SUBSET Writes]),
                   content : SUBSET Writes, disk : SUBSET Writes]

\* What every operation of the layer keeps: the list is the stack, the oldest
\* savepoint remembers what the file holds, and nothing that the file holds is
\* missing from the content or from what a savepoint remembers.
Sound(d) ==
    /\ d.list \in Seq(Names)
    /\ d.conn \in ConnectionType
    /\ Len(d.list) = Len(d.conn.stack)
    /\ \A i \in 1..Len(d.conn.stack) : d.list[i] = d.conn.stack[i].name
    /\ d.conn.stack = << >> => d.conn.content = d.conn.disk
    /\ d.conn.stack # << >> => d.conn.stack[1].content = d.conn.disk
    /\ d.conn.disk \subseteq d.conn.content
    /\ \A i \in 1..Len(d.conn.stack) :
           d.conn.disk \subseteq d.conn.stack[i].content

\* The greatest index in a set of indices, or 0.
LEMMA LastOf ==
    ASSUME NEW n \in Nat, NEW I \in SUBSET (1..n)
    PROVE  LET k == IF I # {} THEN Max(I) ELSE 0
           IN  /\ k \in 0..n
               /\ k # 0 => k \in I
               /\ k = 0 => I = {}
<1>1. CASE I = {}
    BY <1>1
<1>2. CASE I # {}
  <2>1. PICK i \in I : TRUE
      BY <1>2
  <2>2. I \in SUBSET Nat /\ \A j \in I : j <= n
      OBVIOUS
  <2>3. Max(I) \in I
      BY <2>1, <2>2, GreatestNatural
  <2>4. Max(I) \in 1..n
      BY <2>3, Zenon
  <2>5. Max(I) \in 0..n /\ Max(I) # 0
      BY <2>4
  <2> QED
      BY <1>2, <2>3, <2>4, <2>5
<1> QED
    BY <1>1, <1>2

\* The list and the stack agree on where the last savepoint of a name is.
LEMMA SameIndex ==
    ASSUME NEW d, Sound(d), NEW name
    PROVE  LET k == Innermost(d.conn, name)
           IN  /\ k \in 0..Len(d.list)
               /\ name \in Range(d.list) <=> k # 0
               /\ Forget(d.list, name) = SubSeq(d.list, 1, k - 1)
<1> DEFINE I == {i \in 1..Len(d.conn.stack) : d.conn.stack[i].name = name}
           J == {i \in 1..Len(d.list) : d.list[i] = name}
           k == IF I # {} THEN Max(I) ELSE 0
<1>1. Len(d.list) \in Nat /\ I = J
    BY DEF Sound
<1>2. Innermost(d.conn, name) = k
    BY DEF Innermost, SelectLastInSeq
<1>3. Forget(d.list, name) = SubSeq(d.list, 1, (IF J # {} THEN Max(J) ELSE 0) - 1)
    BY DEF Forget, SelectLastInSeq
<1>4. Forget(d.list, name) = SubSeq(d.list, 1, k - 1)
    BY <1>1, <1>3
<1>5. J \in SUBSET (1..Len(d.list))
    OBVIOUS
<1>6. /\ k \in 0..Len(d.list)
      /\ k # 0 => k \in J
      /\ k = 0 => J = {}
  <2> HIDE DEF J, I
  <2> QED
      BY <1>1, <1>5, LastOf
<1>7. name \in Range(d.list) <=> J # {}
    BY DEF Sound, Range
<1> QED
    BY <1>2, <1>4, <1>6, <1>7

\* One savepoint more.
LEMMA PushSound ==
    ASSUME NEW d, Sound(d), NEW name \in Names
    PROVE  LET e == Db(Append(d.list, name), Savepoint(d.conn, name))
           IN  /\ Sound(e)
               /\ e.list # << >>
               /\ e.conn.content = d.conn.content
               /\ e.conn.disk = d.conn.disk
<1> DEFINE s == d.conn.stack
           entry == [name |-> name, content |-> d.conn.content]
           list == Append(d.list, name)
           stack == Append(s, entry)
<1>1. /\ d.list \in Seq(Names)
      /\ s \in Seq([name : Names, content : SUBSET Writes])
      /\ d.conn.content \in SUBSET Writes /\ d.conn.disk \in SUBSET Writes
      /\ entry \in [name : Names, content : SUBSET Writes]
      /\ Len(d.list) = Len(s) /\ Len(s) \in Nat
    BY DEF Sound, ConnectionType
<1>2. /\ list \in Seq(Names)
      /\ stack \in Seq([name : Names, content : SUBSET Writes])
      /\ Len(list) = Len(stack) /\ Len(stack) = Len(s) + 1
      /\ list # << >> /\ stack # << >>
      /\ \A i \in 1..Len(s) : list[i] = d.list[i] /\ stack[i] = s[i]
      /\ list[Len(s) + 1] = name /\ stack[Len(s) + 1] = entry
  <2> HIDE DEF s, entry
  <2>1. /\ list \in Seq(Names) /\ list # << >>
        /\ Len(list) = Len(d.list) + 1
        /\ \A i \in 1..Len(d.list) : list[i] = d.list[i]
        /\ list[Len(d.list) + 1] = name
      BY <1>1, AppendProperties
  <2>2. /\ stack \in Seq([name : Names, content : SUBSET Writes])
        /\ stack # << >>
        /\ Len(stack) = Len(s) + 1
        /\ \A i \in 1..Len(s) : stack[i] = s[i]
        /\ stack[Len(s) + 1] = entry
      BY <1>1, AppendProperties
  <2> HIDE DEF list, stack
  <2> QED
      BY <1>1, <2>1, <2>2
<1>3. \A i \in 1..Len(stack) : list[i] = stack[i].name
    BY <1>1, <1>2 DEF Sound
<1>4. stack[1].content = d.conn.disk
  <2>1. CASE s = << >>
      BY <1>1, <2>1 DEF Sound
  <2>2. CASE s # << >>
    <3>1. Len(s) # 0
        BY <1>1, <2>2
    <3>2. stack[1] = s[1]
        BY <1>1, <3>1
    <3> QED
        BY <2>2, <3>2 DEF Sound
  <2> QED
      BY <2>1, <2>2
<1>7. /\ d.conn.disk \subseteq d.conn.content
      /\ \A i \in 1..Len(stack) : d.conn.disk \subseteq stack[i].content
  <2>1. /\ d.conn.disk \subseteq d.conn.content
        /\ \A i \in 1..Len(s) : d.conn.disk \subseteq s[i].content
      BY DEF Sound
  <2>2. entry.content = d.conn.content
      OBVIOUS
  <2>3. ASSUME NEW i \in 1..Len(stack)
        PROVE  d.conn.disk \subseteq stack[i].content
    <3>1. i \in 1..Len(s) \/ i = Len(s) + 1
        BY <1>1, <1>2
    <3> HIDE DEF s, entry, stack
    <3> QED
        BY <1>2, <2>1, <2>2, <3>1
  <2> QED
      BY <2>1, <2>3
<1> HIDE DEF s, entry, list, stack
<1>5. Savepoint(d.conn, name)
        = [stack |-> stack, content |-> d.conn.content, disk |-> d.conn.disk]
    BY DEF Savepoint, Connection, stack, s, entry
<1>6. Db(Append(d.list, name), Savepoint(d.conn, name))
        = [list |-> list, conn |-> [stack |-> stack,
                                    content |-> d.conn.content,
                                    disk |-> d.conn.disk]]
    BY <1>5 DEF Db, list
<1> QED
    BY <1>1, <1>2, <1>3, <1>4, <1>6, <1>7 DEF Sound, ConnectionType

\* The first entries of a sequence.
LEMMA Prefix ==
    ASSUME NEW S, NEW seq \in Seq(S), NEW k \in 1..Len(seq)
    PROVE  /\ SubSeq(seq, 1, k - 1) \in Seq(S)
           /\ Len(SubSeq(seq, 1, k - 1)) = k - 1
           /\ \A i \in 1..(k - 1) : SubSeq(seq, 1, k - 1)[i] = seq[i]
<1>1. k - 1 \in Int /\ \A i \in 1..(k - 1) : seq[i] \in S
    BY ElementOfSeq
<1>2. /\ SubSeq(seq, 1, k - 1) \in Seq(S)
      /\ Len(SubSeq(seq, 1, k - 1)) = IF 1 <= k - 1 THEN k - 1 - 1 + 1 ELSE 0
      /\ \A i \in 1..(k - 1 - 1 + 1) :
             SubSeq(seq, 1, k - 1)[i] = seq[1 + i - 1]
    BY <1>1, SubSeqProperties
<1> QED
    BY <1>2

\* Some savepoints less; if none is left, the file is what is seen.
LEMMA CutSound ==
    ASSUME NEW d, Sound(d), NEW k \in 1..Len(d.list),
           NEW content \in SUBSET Writes, NEW disk \in SUBSET Writes,
           disk \subseteq content,
           k = 1 => content = disk,
           k # 1 => disk = d.conn.disk
    PROVE  Sound(Db(SubSeq(d.list, 1, k - 1),
                    Connection(SubSeq(d.conn.stack, 1, k - 1), content, disk)))
<1> DEFINE list == SubSeq(d.list, 1, k - 1)
           stack == SubSeq(d.conn.stack, 1, k - 1)
<1>1. /\ d.list \in Seq(Names)
      /\ d.conn.stack \in Seq([name : Names, content : SUBSET Writes])
      /\ Len(d.list) = Len(d.conn.stack) /\ Len(d.list) \in Nat
    BY DEF Sound, ConnectionType
<1>2. /\ list \in Seq(Names)
      /\ stack \in Seq([name : Names, content : SUBSET Writes])
      /\ Len(list) = k - 1 /\ Len(stack) = k - 1
    BY <1>1, Prefix
<1>3. \A i \in 1..(k - 1) : list[i] = d.list[i] /\ stack[i] = d.conn.stack[i]
    BY <1>1, Prefix
<1>4. \A i \in 1..Len(stack) : list[i] = stack[i].name
    BY <1>1, <1>2, <1>3 DEF Sound
<1>5. stack = << >> => content = disk
  <2> HIDE DEF stack
  <2> QED
      BY <1>2
<1>6. stack # << >> => stack[1].content = disk
  <2> SUFFICES ASSUME stack # << >> PROVE stack[1].content = disk
      OBVIOUS
  <2>1. k # 1
      BY <1>2
  <2>2. stack[1] = d.conn.stack[1] /\ d.conn.stack # << >>
      BY <1>1, <1>3, <2>1
  <2> QED
      BY <2>1, <2>2 DEF Sound
<1>9. \A i \in 1..Len(stack) : disk \subseteq stack[i].content
  <2> SUFFICES ASSUME NEW i \in 1..Len(stack)
               PROVE  disk \subseteq stack[i].content
      OBVIOUS
  <2>1. i \in 1..(k - 1) /\ i \in 1..Len(d.conn.stack) /\ k # 1
      BY <1>1, <1>2
  <2>2. d.conn.disk \subseteq d.conn.stack[i].content
      BY <2>1 DEF Sound
  <2> QED
      BY <1>3, <2>1, <2>2
<1> HIDE DEF list, stack
<1>7. Db(list, Connection(stack, content, disk))
        = [list |-> list, conn |-> [stack |-> stack, content |-> content,
                                    disk |-> disk]]
    BY DEF Db, Connection
<1>8. Sound(Db(list, Connection(stack, content, disk)))
    BY <1>2, <1>4, <1>5, <1>6, <1>7, <1>9 DEF Sound, ConnectionType
<1> QED
    BY <1>8 DEF list, stack

\* The four operations of the layer and a write keep the list the stack.  What
\* a savepoint is set for does not change what is seen or held by the file.
LEMMA SetSavepointSound ==
    ASSUME NEW d, Sound(d), NEW name \in Names
    PROVE  /\ Sound(SetSavepoint(d, name))
           /\ SetSavepoint(d, name).list # << >>
           /\ SetSavepoint(d, name).conn.content = d.conn.content
           /\ SetSavepoint(d, name).conn.disk = d.conn.disk
<1>1. CASE name \in Range(d.list)
  <2>1. d.list # << >>
      BY <1>1 DEF Range
  <2>2. SetSavepoint(d, name) = d
      BY <1>1 DEF SetSavepoint
  <2> QED
      BY <2>1, <2>2
<1>2. CASE name \notin Range(d.list)
  <2>1. SetSavepoint(d, name) = Db(Append(d.list, name), Savepoint(d.conn, name))
      BY <1>2 DEF SetSavepoint
  <2> QED
      BY <2>1, PushSound
<1> QED
    BY <1>1, <1>2

\* Setting an undo point keeps Sound and changes neither content nor file.
LEMMA SetUndoSavepointSound ==
    ASSUME NEW d, Sound(d)
    PROVE  /\ Sound(SetUndoSavepoint(d))
           /\ SetUndoSavepoint(d).list # << >>
           /\ SetUndoSavepoint(d).conn.content = d.conn.content
           /\ SetUndoSavepoint(d).conn.disk = d.conn.disk
<1>1. UNDOPOINT \in Names
    BY DEF Names
<1>2. SetUndoSavepoint(d)
        = Db(Append(d.list, UNDOPOINT), Savepoint(d.conn, UNDOPOINT))
    BY DEF SetUndoSavepoint
<1> QED
    BY <1>1, <1>2, PushSound

\* A release commits everything or nothing.
LEMMA ReleaseSavepointSound ==
    ASSUME NEW d, Sound(d), NEW name, NEW refused
    PROVE  LET e == ReleaseSavepoint(d, name, refused)
           IN  /\ Sound(e)
               /\ e.conn.content = d.conn.content
               /\ e.conn.disk \in {d.conn.disk, d.conn.content}
<1> DEFINE k == Innermost(d.conn, name)
           disk == IF k = 1 THEN d.conn.content ELSE d.conn.disk
           c == Connection(SubSeq(d.conn.stack, 1, k - 1), d.conn.content, disk)
           e == Db(SubSeq(d.list, 1, k - 1), c)
<1>1. CASE name \notin Range(d.list) \/ ReleaseFails(d.conn, name, refused)
    BY <1>1 DEF ReleaseSavepoint
<1>2. CASE ~ (name \notin Range(d.list) \/ ReleaseFails(d.conn, name, refused))
  <2>1. /\ k \in 1..Len(d.list)
        /\ Forget(d.list, name) = SubSeq(d.list, 1, k - 1)
    <3>1. /\ k \in 0..Len(d.list) /\ k # 0
          /\ Forget(d.list, name) = SubSeq(d.list, 1, k - 1)
        BY <1>2, SameIndex
    <3>2. Len(d.list) \in Nat
        BY DEF Sound
    <3> HIDE DEF k
    <3> QED
        BY <3>1, <3>2
  <2>2. ReleaseSavepoint(d, name, refused) = e
      BY <1>2, <2>1 DEF ReleaseSavepoint, Release
  <2>3. /\ d.conn.content \in SUBSET Writes /\ d.conn.disk \in SUBSET Writes
        /\ disk \in SUBSET Writes /\ disk \subseteq d.conn.content
      BY DEF Sound, ConnectionType
  <2>4. Sound(e)
    <3> HIDE DEF k
    <3> QED
        BY <2>1, <2>3, CutSound
  <2>5. e.conn.content = d.conn.content /\ e.conn.disk = disk
      BY DEF Db, Connection
  <2> HIDE DEF e, k
  <2> QED
      BY <2>2, <2>4, <2>5
<1> QED
    BY <1>1, <1>2

\* Reverting keeps Sound and does not touch the file.
LEMMA RevertToSavepointSound ==
    ASSUME NEW d, Sound(d), NEW name
    PROVE  LET e == RevertToSavepoint(d, name)
           IN  Sound(e) /\ e.conn.disk = d.conn.disk
<1> DEFINE k == Innermost(d.conn, name)
           content == d.conn.stack[k].content
           c == Connection(SubSeq(d.conn.stack, 1, k - 1), content, d.conn.disk)
           e == Db(SubSeq(d.list, 1, k - 1), c)
<1>1. CASE name \notin Range(d.list)
    BY <1>1 DEF RevertToSavepoint
<1>2. CASE name \in Range(d.list)
  <2>1. /\ k \in 1..Len(d.list) /\ k # 0
        /\ Forget(d.list, name) = SubSeq(d.list, 1, k - 1)
    <3>1. /\ k \in 0..Len(d.list) /\ k # 0
          /\ Forget(d.list, name) = SubSeq(d.list, 1, k - 1)
        BY <1>2, SameIndex
    <3>2. Len(d.list) \in Nat
        BY DEF Sound
    <3> HIDE DEF k
    <3> QED
        BY <3>1, <3>2
  <2>2. RevertToSavepoint(d, name) = e
      BY <1>2, <2>1 DEF RevertToSavepoint, RollbackAndRelease
  <2>3. /\ content \in SUBSET Writes /\ d.conn.disk \in SUBSET Writes
        /\ k = 1 => content = d.conn.disk
        /\ d.conn.disk \subseteq content
    <3>1. /\ d.conn.stack \in Seq([name : Names, content : SUBSET Writes])
          /\ Len(d.list) = Len(d.conn.stack)
          /\ d.conn.disk \in SUBSET Writes
        BY DEF Sound, ConnectionType
    <3>2. d.conn.stack[k] \in [name : Names, content : SUBSET Writes]
      <4> HIDE DEF k
      <4> QED
          BY <2>1, <3>1, ElementOfSeq
    <3>3. d.conn.stack # << >> /\ k \in 1..Len(d.conn.stack)
        BY <2>1, <3>1
    <3> HIDE DEF k
    <3> QED
        BY <3>1, <3>2, <3>3 DEF Sound
  <2>4. Sound(e)
    <3> HIDE DEF k, content
    <3> QED
        BY <2>1, <2>3, CutSound
  <2>5. e.conn.disk = d.conn.disk
      BY DEF Db, Connection
  <2> HIDE DEF e, k
  <2> QED
      BY <2>2, <2>4, <2>5
<1> QED
    BY <1>1, <1>2

\* A write in a savepoint leaves the file alone.
LEMMA WriteSound ==
    ASSUME NEW d, Sound(d), d.list # << >>, NEW w \in Writes
    PROVE  /\ Sound(Db(d.list, Write(d.conn, w)))
           /\ Write(d.conn, w).disk = d.conn.disk
<1>1. /\ d.list \in Seq(Names)
      /\ d.conn.stack \in Seq([name : Names, content : SUBSET Writes])
      /\ Len(d.list) = Len(d.conn.stack)
      /\ d.conn.content \in SUBSET Writes
      /\ d.conn.disk \in SUBSET Writes
    BY DEF Sound, ConnectionType
<1>2. d.conn.stack # << >>
    BY <1>1, EmptySeq
<1>3. Write(d.conn, w) = [stack |-> d.conn.stack,
                          content |-> d.conn.content \cup {w},
                          disk |-> d.conn.disk]
    BY <1>2 DEF Write, Connection
<1>4. Db(d.list, Write(d.conn, w))
        = [list |-> d.list, conn |-> [stack |-> d.conn.stack,
                                      content |-> d.conn.content \cup {w},
                                      disk |-> d.conn.disk]]
    BY <1>3 DEF Db
<1> DEFINE e == [list |-> d.list, conn |-> [stack |-> d.conn.stack,
                                            content |-> d.conn.content \cup {w},
                                            disk |-> d.conn.disk]]
<1>5. e.conn \in ConnectionType
    BY <1>1 DEF ConnectionType
<1>6. Sound(e)
    BY <1>1, <1>2, <1>5 DEF Sound
<1>7. Write(d.conn, w).disk = d.conn.disk
    BY <1>3
<1> HIDE DEF e
<1> QED
    BY <1>4, <1>6, <1>7 DEF e

\* A list without an entry means that no savepoint is open.
LEMMA NothingOpen ==
    ASSUME NEW d, Sound(d), d.list = << >>
    PROVE  d.conn.stack = << >>
<1>1. d.conn.stack \in Seq([name : Names, content : SUBSET Writes])
    BY DEF Sound, ConnectionType
<1> QED
    BY <1>1, EmptySeq DEF Sound

\* What a closed connection leaves.
LEMMA ClosedSound ==
    ASSUME NEW d, Sound(d)
    PROVE  /\ Sound(Db(<< >>, Rollback(d.conn)))
           /\ Rollback(d.conn).disk = d.conn.disk
<1>1. d.conn.disk \in SUBSET Writes
    BY DEF Sound, ConnectionType
<1>2. Rollback(d.conn) = [stack |-> << >>, content |-> d.conn.disk,
                          disk |-> d.conn.disk]
    BY DEF Rollback, Connection
<1>3. Rollback(d.conn) \in ConnectionType
    BY <1>1, <1>2 DEF ConnectionType
<1>4. << >> \in Seq(Names)
    BY EmptySeq
<1> QED
    BY <1>2, <1>3, <1>4 DEF Sound, Db

---------------------------------------------------------------------------
(* The invariant. *)

ScriptType == [pc : ScriptStates, was_dirty : BOOLEAN,
               savepoint_created : BOOLEAN, modified : BOOLEAN,
               left : 0..MaxStatements]

\* What a running script `s` knows of the database: the savepoints it set are
\* still there.
ScriptKnows(d, s) ==
    /\ s.pc # "off" => s.left # 0
    /\ s.pc \notin {"off", "commit"} /\ s.savepoint_created
           => d.list # << >>
    /\ s.pc = "ready" => d.list # << >>

HistoryType == (SUBSET Writes) \X (SUBSET Writes) \X BOOLEAN

IInv ==
    /\ Sound(db)
    /\ history \in HistoryType
    /\ written \in 0..MaxWrites
    /\ ui \in UiStates
    /\ dialog \in Dialogs \cup {NoDialog}
    /\ opened \in SUBSET Writes
    /\ script \in ScriptType
    /\ script.pc # "off" => ui = "idle"
    /\ ScriptKnows(db, script)

\* What the layer keeps is what the properties ask for.
LEMMA Implied ==
    ASSUME IInv
    PROVE  /\ TypeOK /\ ListMirrorsStack
           /\ ~getDirty => conn.content = conn.disk
<1>1. /\ savepointList \in Seq(Names)
      /\ conn \in ConnectionType
      /\ Len(savepointList) = Len(conn.stack)
      /\ ListMirrorsStack
      /\ conn.stack = << >> => conn.content = conn.disk
    BY DEF IInv, Sound, db, Db, ListMirrorsStack
<1>2. TypeOK
  <2>1. /\ saved \in SUBSET Writes /\ unclassed \in SUBSET Writes
        /\ ended \in BOOLEAN
      BY DEF IInv, history, HistoryType
  <2> QED
      BY <1>1, <2>1 DEF IInv, TypeOK, ConnectionType, ScriptType
<1>3. ~getDirty => conn.content = conn.disk
  <2>1. conn.stack \in Seq([name : Names, content : SUBSET Writes])
      BY <1>1 DEF ConnectionType
  <2> QED
      BY <1>1, <2>1, EmptySeq DEF getDirty
<1> QED
    BY <1>1, <1>2, <1>3

\* A step to a sound pair of list and connection keeps the invariant.
LEMMA Step ==
    ASSUME NEW d, Sound(d),
           savepointList' = d.list, conn' = d.conn, history' \in HistoryType,
           written' \in 0..MaxWrites,
           ui' \in UiStates,
           dialog' \in Dialogs \cup {NoDialog},
           opened' \in SUBSET Writes,
           script' \in ScriptType,
           script'.pc # "off" => ui' = "idle",
           ScriptKnows(d, script')
    PROVE  IInv'
<1>1. Sound(db)'
    BY DEF Sound, db, Db
<1>2. ScriptKnows(db, script)'
    BY DEF ScriptKnows, db, Db
<1> QED
    BY <1>1, <1>2 DEF IInv

\* The same for the steps of the user interface: no script runs.
LEMMA UiStep ==
    ASSUME IInv, script.pc = "off", script' = script,
           NEW d, Sound(d),
           savepointList' = d.list, conn' = d.conn, history' \in HistoryType,
           written' \in 0..MaxWrites,
           ui' \in UiStates,
           dialog' \in Dialogs \cup {NoDialog},
           opened' \in SUBSET Writes
    PROVE  IInv'
<1>1. ScriptKnows(d, script')
    BY DEF ScriptKnows
<1> QED
    BY <1>1, Step DEF IInv

\* The same for the steps of a script that leave its counters alone.
LEMMA ScriptStep ==
    ASSUME IInv, ui = "idle",
           NEW d, Sound(d),
           savepointList' = d.list, conn' = d.conn, history' \in HistoryType,
           written' \in 0..MaxWrites,
           UNCHANGED <<ui, dialog, opened>>,
           script' \in ScriptType,
           ScriptKnows(d, script')
    PROVE  IInv'
    BY Step DEF IInv

\* A write keeps the list the stack and leaves the file alone.
LEMMA WriteToSound ==
    ASSUME NEW d, Sound(d), d.list # << >>, written \in 0..MaxWrites,
           CanWrite, WriteTo(d), MaxWrites \in Nat
    PROVE  \E e : /\ Sound(e)
                  /\ savepointList' = e.list /\ conn' = e.conn
                  /\ e.list = d.list
                  /\ e.conn.disk = d.conn.disk
                  /\ written' \in 0..MaxWrites
<1>1. written + 1 \in Writes /\ written' \in 0..MaxWrites
    BY DEF CanWrite, WriteTo, Writes
<1> DEFINE e == Db(d.list, Write(d.conn, written + 1))
<1>2. savepointList' = e.list /\ conn' = e.conn
    BY DEF WriteTo, Become
<1>3. Sound(e) /\ Write(d.conn, written + 1).disk = d.conn.disk
    BY <1>1, WriteSound
<1>4. e.list = d.list /\ e.conn = Write(d.conn, written + 1)
    BY DEF Db
<1> HIDE DEF e
<1> QED
    BY <1>1, <1>2, <1>3, <1>4

---------------------------------------------------------------------------
(* The steps. *)

\* What is known of the database in a state of the invariant.
LEMMA Now ==
    ASSUME IInv
    PROVE  /\ Sound(db) /\ db.list = savepointList /\ db.conn = conn
           /\ RESTOREPOINT \in Names /\ Dialogs \subseteq Names
           /\ MaxWrites \in Nat
           /\ conn.content \in SUBSET Writes
    BY SavepointsAssumption DEF IInv, Sound, ConnectionType, db, Db, Names

\* A write through the savepoint of the transaction, set now if it was not.
LEMMA WriteInSavepoint ==
    ASSUME IInv, NEW d, Sound(d), d.conn.disk = conn.disk,
           script.pc = "off", script' = script, UNCHANGED history,
           UNCHANGED <<ui, dialog, opened>>,
           \/ Become(SetSavepoint(d, RESTOREPOINT)) /\ UNCHANGED written
           \/ CanWrite /\ WriteTo(SetSavepoint(d, RESTOREPOINT))
    PROVE  IInv'
<1> DEFINE e == SetSavepoint(d, RESTOREPOINT)
<1>1. Sound(e) /\ e.list # << >> /\ e.conn.disk = conn.disk
    BY Now, SetSavepointSound
<1> HIDE DEF e
<1>2. CASE Become(e) /\ UNCHANGED written
    BY <1>1, <1>2, UiStep DEF Become, IInv
<1>3. CASE CanWrite /\ WriteTo(e)
  <2>1. PICK f : /\ Sound(f)
                 /\ savepointList' = f.list /\ conn' = f.conn
                 /\ f.conn.disk = e.conn.disk
                 /\ written' \in 0..MaxWrites
      BY <1>1, <1>3, Now, WriteToSound DEF IInv
  <2> QED
      BY <1>1, <2>1, UiStep DEF IInv
<1> QED
    BY <1>2, <1>3 DEF e

\* No step of the user interface loses the invariant.
LEMMA UiKeeps ==
    ASSUME IInv, UiNext
    PROVE  IInv'
<1>1. UiFree => script.pc = "off"
    BY DEF UiFree, ScriptOff
<1>2. ui # "idle" => script.pc = "off"
    BY DEF IInv
<1>3. CASE EditCell
  <2>1. script.pc = "off"
      BY <1>1, <1>3 DEF EditCell
  <2>2. /\ Sound(SetUndoSavepoint(db))
        /\ SetUndoSavepoint(db).conn.disk = conn.disk
      BY Now, SetUndoSavepointSound
  <2>3. CASE Become(SetUndoSavepoint(db)) /\ UNCHANGED written
      BY <1>3, <2>1, <2>2, <2>3, UiStep DEF EditCell, Become, IInv
  <2>4. CASE \/ /\ Become(SetSavepoint(SetUndoSavepoint(db), RESTOREPOINT))
                /\ UNCHANGED written
             \/ /\ CanWrite
                /\ WriteTo(SetSavepoint(SetUndoSavepoint(db), RESTOREPOINT))
      BY <1>3, <2>1, <2>2, <2>4, WriteInSavepoint DEF EditCell
  <2> QED
      BY <1>3, <2>3, <2>4 DEF EditCell
<1>4. CASE ExecuteDirty
  <2>1. script.pc = "off"
      BY <1>1, <1>4 DEF ExecuteDirty
  <2> QED
      BY <1>4, <2>1, Now, WriteInSavepoint DEF ExecuteDirty
<1>5. CASE OpenDialog
  <2>1. script.pc = "off"
      BY <1>1, <1>5 DEF OpenDialog
  <2>2. PICK name \in Dialogs : Become(SetSavepoint(db, name)) /\ dialog' = name
      BY <1>5 DEF OpenDialog
  <2>3. /\ Sound(SetSavepoint(db, name))
        /\ SetSavepoint(db, name).conn.disk = conn.disk
      BY Now, SetSavepointSound
  <2>4. ui' \in UiStates /\ opened' \in SUBSET Writes
      BY <1>5, Now DEF OpenDialog, UiStates
  <2> QED
      BY <1>5, <2>1, <2>2, <2>3, <2>4, UiStep DEF OpenDialog, Become, IInv
<1>6. CASE DialogWrite
  <2>1. script.pc = "off"
      BY <1>2, <1>6 DEF DialogWrite
  <2> QED
      BY <1>6, <2>1, Now, WriteInSavepoint DEF DialogWrite
<1>7. CASE AcceptDialog
  <2>1. script.pc = "off"
      BY <1>2, <1>7 DEF AcceptDialog
  <2> QED
      BY <1>7, <2>1, Now, UiStep DEF AcceptDialog, CloseDialog, UiStates, IInv
<1>8. CASE RejectDialog
  <2>1. script.pc = "off"
      BY <1>2, <1>8 DEF RejectDialog
  <2>2. /\ Sound(RevertToSavepoint(db, dialog))
        /\ RevertToSavepoint(db, dialog).conn.disk = conn.disk
      BY Now, RevertToSavepointSound
  <2> QED
      BY <1>8, <2>1, <2>2, UiStep
         DEF RejectDialog, CloseDialog, Become, UiStates, IInv
<1>9. CASE Undo
  <2>1. script.pc = "off"
      BY <1>1, <1>9 DEF Undo
  <2>2. /\ Sound(RevertToSavepoint(db, UNDOPOINT))
        /\ RevertToSavepoint(db, UNDOPOINT).conn.disk = conn.disk
      BY Now, RevertToSavepointSound
  <2> QED
      BY <1>9, <2>1, <2>2, UiStep DEF Undo, Become, IInv
<1>10. ASSUME NEW what \in {"save", "revert", "close_save", "close_discard",
                            "close"}, Start(what)
       PROVE  IInv'
  <2>1. /\ script.pc = "off" /\ what \in UiStates
        /\ history' \in HistoryType
      BY <1>1, <1>10, Now DEF Start, UiStates, IInv, history, HistoryType
  <2> QED
      BY <1>10, <2>1, Now, UiStep DEF Start, IInv
<1>11. ASSUME NEW refused \in BOOLEAN, SetPragma(refused)
       PROVE  IInv'
  <2>1. script.pc = "off"
      BY <1>1, <1>11 DEF SetPragma
  <2>2. /\ Sound(ReleaseSavepoint(db, RESTOREPOINT, refused))
        /\ history' \in HistoryType
      BY <1>11, Now, ReleaseSavepointSound
         DEF SetPragma, IInv, history, HistoryType
  <2> QED
      BY <1>11, <2>1, <2>2, UiStep DEF SetPragma, Become, IInv
<1>12. ASSUME NEW refused \in BOOLEAN, ReleaseFront(refused)
       PROVE  IInv'
  <2>1. script.pc = "off"
      BY <1>2, <1>12 DEF ReleaseFront, Releasing
  <2>2. Sound(ReleaseSavepoint(db, Head(savepointList), refused))
      BY Now, ReleaseSavepointSound
  <2>3. ui' \in UiStates
      BY <1>12 DEF ReleaseFront, Releasing, After, UiStates
  <2> QED
      BY <1>12, <2>1, <2>2, <2>3, UiStep DEF ReleaseFront, Become, IInv
<1>13. ASSUME NEW refused \in BOOLEAN, ReleaseDone(refused)
       PROVE  IInv'
  <2>1. script.pc = "off"
      BY <1>2, <1>13 DEF ReleaseDone, Releasing
  <2>2. conn.stack = << >>
      BY <1>13, Now, NothingOpen DEF ReleaseDone, getDirty
  <2>3. ui' \in UiStates
      BY <1>13 DEF ReleaseDone, Releasing, After, UiStates
  <2> QED
      BY <1>13, <2>1, <2>2, <2>3, Now, UiStep DEF ReleaseDone, IInv
<1>14. CASE RevertFront
  <2>1. script.pc = "off"
      BY <1>2, <1>14 DEF RevertFront, Reverting
  <2>2. /\ Sound(RevertToSavepoint(db, Head(savepointList)))
        /\ RevertToSavepoint(db, Head(savepointList)).conn.disk = conn.disk
      BY Now, RevertToSavepointSound
  <2> QED
      BY <1>14, <2>1, <2>2, UiStep DEF RevertFront, Become, IInv
<1>15. CASE RevertDone
  <2>1. script.pc = "off"
      BY <1>2, <1>15 DEF RevertDone, Reverting
  <2>2. ui' \in UiStates
      BY <1>15 DEF RevertDone, Reverting, After, UiStates
  <2> QED
      BY <1>15, <2>1, <2>2, Now, UiStep DEF RevertDone, IInv
<1>16. CASE Close
  <2>1. script.pc = "off"
      BY <1>2, <1>16 DEF Close
  <2>2. Sound(Db(<< >>, Rollback(conn))) /\ Rollback(conn).disk = conn.disk
      BY Now, ClosedSound
  <2> QED
      BY <1>16, <2>1, <2>2, UiStep DEF Close, UiStates, IInv, Db
<1> QED
    BY <1>3, <1>4, <1>5, <1>6, <1>7, <1>8, <1>9, <1>10, <1>11, <1>12, <1>13,
       <1>14, <1>15, <1>16 DEF UiNext

\* Where a script goes, it stays typed.
LEMMA GoToType ==
    ASSUME script \in ScriptType, NEW pc \in ScriptStates,
           NEW created \in BOOLEAN, NEW modified \in BOOLEAN,
           GoTo(pc, created, modified)
    PROVE  /\ script' \in ScriptType
           /\ script' = [pc |-> pc, was_dirty |-> script.was_dirty,
                         savepoint_created |-> created, modified |-> modified,
                         left |-> script.left]
    BY DEF GoTo, Script, ScriptType

\* A step of a script that leaves the database alone.
LEMMA ScriptOnly ==
    ASSUME IInv, script.pc # "off",
           NEW pc \in ScriptStates \ {"off"},
           NEW created \in BOOLEAN, NEW modified \in BOOLEAN,
           GoTo(pc, created, modified),
           script.modified => modified,
           pc # "commit" /\ created => savepointList # << >>,
           pc = "ready" => savepointList # << >>,
           history' \in HistoryType,
           UNCHANGED <<savepointList, conn, written, ui, dialog, opened>>
    PROVE  IInv'
<1>1. ui = "idle"
    BY DEF IInv
<1>2. /\ script' \in ScriptType
      /\ script' = [pc |-> pc, was_dirty |-> script.was_dirty,
                    savepoint_created |-> created, modified |-> modified,
                    left |-> script.left]
    BY GoToType DEF IInv
<1>3. ScriptKnows(db, script')
    BY <1>2, Now DEF ScriptKnows, IInv
<1> QED
    BY <1>1, <1>2, <1>3, Now, ScriptStep DEF IInv

\* No step of a script loses the invariant.
LEMMA ScriptKeeps ==
    ASSUME IInv, ~ EndTransaction, ScriptNext
    PROVE  IInv'
<1>1. /\ script.pc \in ScriptStates /\ script.was_dirty \in BOOLEAN
      /\ script.savepoint_created \in BOOLEAN /\ script.modified \in BOOLEAN
      /\ script.left \in 0..MaxStatements
      /\ MaxStatements \in Nat
      /\ history \in HistoryType
    BY SavepointsAssumption DEF IInv, ScriptType
<1>2. script.pc # "off" => ui = "idle"
    BY DEF IInv
<1>3. Off \in ScriptType /\ Off.pc = "off"
    BY <1>1 DEF Off, Script, ScriptType, ScriptStates
<1>4. \A d : ScriptKnows(d, Off)
    BY <1>3 DEF ScriptKnows
<1>5. CASE Execute
  <2>1. PICK n \in 1..MaxStatements :
            script' = [pc |-> "next", was_dirty |-> getDirty,
                       savepoint_created |-> FALSE, modified |-> FALSE,
                       left |-> n]
      BY <1>5 DEF Execute, Script
  <2>2. getDirty \in BOOLEAN
      BY DEF getDirty
  <2>3. script' \in ScriptType
      BY <1>1, <2>1, <2>2 DEF ScriptType, ScriptStates
  <2>5. ScriptKnows(db, script')
      BY <2>1, Now DEF ScriptKnows
  <2> QED
      BY <1>5, <2>3, <2>5, Now, ScriptStep DEF Execute, IInv
<1>6. CASE Prepare
  <2>1. script.pc = "next" /\ GoTo("ready", TRUE, script.modified)
      BY <1>6 DEF Prepare
  <2>2. CASE script.savepoint_created
    <3>1. savepointList # << >>
        BY <2>1, <2>2, Now DEF IInv, ScriptKnows
    <3> QED
        BY <1>1, <1>6, <2>1, <2>2, <3>1, ScriptOnly DEF Prepare, ScriptStates
  <2>3. CASE ~ script.savepoint_created
    <3> DEFINE d == SetSavepoint(SetUndoSavepoint(db), RESTOREPOINT)
    <3>1. /\ Sound(d) /\ d.list # << >>
          /\ d.conn.content = conn.content /\ d.conn.disk = conn.disk
        BY Now, SetUndoSavepointSound, SetSavepointSound
    <3>2. Become(d)
        BY <1>6, <2>3 DEF Prepare
    <3> HIDE DEF d
    <3>3. /\ script' \in ScriptType
          /\ script' = [pc |-> "ready", was_dirty |-> script.was_dirty,
                        savepoint_created |-> TRUE,
                        modified |-> script.modified, left |-> script.left]
        BY <1>1, <2>1, GoToType DEF IInv, ScriptStates
    <3>4. ScriptKnows(d, script')
        BY <2>1, <3>1, <3>3, Now DEF IInv, ScriptKnows
    <3> QED
        BY <1>2, <1>6, <2>1, <3>1, <3>2, <3>3, <3>4, Now, ScriptStep
           DEF Prepare, Become, IInv
  <2> QED
      BY <2>2, <2>3
<1>7. CASE PragmaClean
  <2>1. script.pc = "next" /\ ~ script.savepoint_created
      BY <1>7, Now DEF PragmaClean, IInv, ScriptKnows, getDirty
  <2> QED
      BY <1>1, <1>7, <2>1, ScriptOnly DEF PragmaClean, ScriptStates
<1>8. CASE PragmaAborted
  <2>1. ui = "idle"
      BY <1>2, <1>8 DEF PragmaAborted
  <2> QED
      BY <1>3, <1>4, <1>8, <2>1, Now, ScriptStep DEF PragmaAborted, IInv
<1>9. CASE PragmaConfirmed
  <2>1. history' \in HistoryType
      BY <1>9, Now DEF PragmaConfirmed, IInv, history, HistoryType
  <2> QED
      BY <1>1, <1>9, <2>1, ScriptOnly DEF PragmaConfirmed, ScriptStates, getDirty
<1>10. ASSUME NEW refused \in BOOLEAN, CommitFront(refused)
       PROVE  IInv'
  <2> DEFINE d == ReleaseSavepoint(db, Head(savepointList), refused)
  <2>1. /\ Sound(d) /\ d.conn.content = conn.content
        /\ d.conn.disk \in {conn.disk, conn.content}
      BY Now, ReleaseSavepointSound
  <2>2. Become(d) /\ script.pc = "commit"
      BY <1>10 DEF CommitFront
  <2> HIDE DEF d
  <2>3. CASE UNCHANGED script
    <3>1. ScriptKnows(d, script')
        BY <2>1, <2>2, <2>3, Now DEF IInv, ScriptKnows
    <3> QED
        BY <1>2, <1>10, <2>1, <2>2, <2>3, <3>1, Now, ScriptStep
           DEF CommitFront, Become, IInv
  <2>4. CASE GoTo("pragma", FALSE, script.modified)
    <3>1. /\ script' \in ScriptType
          /\ script' = [pc |-> "pragma", was_dirty |-> script.was_dirty,
                        savepoint_created |-> FALSE,
                        modified |-> script.modified, left |-> script.left]
        BY <1>1, <2>4, GoToType DEF IInv, ScriptStates
    <3>2. ScriptKnows(d, script')
        BY <2>1, <2>2, <3>1, Now DEF IInv, ScriptKnows
    <3> QED
        BY <1>2, <1>10, <2>1, <2>2, <3>1, <3>2, Now, ScriptStep
           DEF CommitFront, Become, IInv
  <2> QED
      BY <1>10, <2>3, <2>4 DEF CommitFront
<1>11. ASSUME NEW refused \in BOOLEAN, CommitDone(refused)
       PROVE  IInv'
  <2>1. conn.stack = << >>
      BY <1>11, Now, NothingOpen DEF CommitDone, getDirty
  <2> QED
      BY <1>1, <1>11, <2>1, ScriptOnly DEF CommitDone, ScriptStates, IInv
<1>12. CASE RunPragma
  <2>1. script.pc = "pragma" /\ (script.savepoint_created => savepointList # << >>)
      BY <1>12, Now DEF RunPragma, IInv, ScriptKnows
  <2>2. CASE GoTo("failed", script.savepoint_created, script.modified)
      BY <1>1, <1>12, <2>1, <2>2, ScriptOnly DEF RunPragma, ScriptStates
  <2>3. ASSUME NEW vacuum \in BOOLEAN,
               GoTo("paused", script.savepoint_created,
                    script.modified \/ vacuum)
        PROVE  IInv'
    <3>1. (script.modified \/ vacuum) \in BOOLEAN
        OBVIOUS
    <3> QED
        BY <1>1, <1>12, <2>1, <2>3, <3>1, ScriptOnly DEF RunPragma, ScriptStates
  <2> QED
      BY <1>12, <2>2, <2>3 DEF RunPragma
<1>13. CASE Read
    BY <1>1, <1>13, Now, ScriptOnly DEF Read, ScriptStates, IInv, ScriptKnows
<1>14. CASE ScriptWrite \/ UnclassedWrite
  <2>1. /\ script.pc = "ready" /\ savepointList # << >>
        /\ CanWrite /\ WriteTo(db)
      BY <1>14, Now DEF ScriptWrite, UnclassedWrite, IInv, ScriptKnows
  <2>2. PICK d : /\ Sound(d)
                 /\ savepointList' = d.list /\ conn' = d.conn
                 /\ d.list = savepointList
                 /\ d.conn.disk = conn.disk
                 /\ written' \in 0..MaxWrites
      BY <2>1, Now, WriteToSound DEF IInv
  <2>3. PICK modified \in BOOLEAN :
            /\ script' \in ScriptType
            /\ script' = [pc |-> "paused", was_dirty |-> script.was_dirty,
                          savepoint_created |-> script.savepoint_created,
                          modified |-> modified, left |-> script.left]
      BY <1>1, <1>14, GoToType
         DEF ScriptWrite, UnclassedWrite, IInv, ScriptStates
  <2>4. ScriptKnows(d, script')
      BY <2>1, <2>2, <2>3 DEF IInv, ScriptKnows
  <2>5. written + 1 \in Writes
      BY <2>1, Now DEF CanWrite, Writes, IInv
  <2>6. history' \in HistoryType
      BY <1>14, <2>5
         DEF ScriptWrite, UnclassedWrite, IInv, history, HistoryType
  <2> QED
      BY <1>2, <1>14, <2>1, <2>2, <2>3, <2>4, <2>6, ScriptStep
         DEF ScriptWrite, UnclassedWrite, IInv
<1>15. CASE Fail
    BY <1>1, <1>15, Now, ScriptOnly DEF Fail, ScriptStates, IInv, ScriptKnows
<1>16. CASE StartNextStatement
    BY <1>1, <1>16, Now, ScriptOnly
       DEF StartNextStatement, ScriptStates, IInv, ScriptKnows
<1>17. ASSUME NEW refused \in BOOLEAN, Cleanup(refused)
       PROVE  IInv'
  <2> DEFINE once == ReleaseSavepoint(db, RESTOREPOINT, refused)
             twice == ReleaseSavepoint(once, UNDOPOINT, refused)
             d == IF Unneeded THEN twice ELSE db
             next == [pc |-> "next", was_dirty |-> script.was_dirty,
                      savepoint_created |-> script.savepoint_created /\ ~ Unneeded,
                      modified |-> script.modified, left |-> script.left - 1]
  <2>1. /\ script.pc \in {"cleanup", "failed"} /\ ui = "idle"
        /\ Become(d)
        /\ script' = Off \/ (script.left # 1 /\ script' = next)
        /\ UNCHANGED <<written, ui, dialog, opened, history>>
      BY <1>2, <1>17 DEF Cleanup, Script
  <2>2. Sound(d) /\ (~ Unneeded => d.list = savepointList)
    <3>1. Sound(once)
        BY Now, ReleaseSavepointSound
    <3> HIDE DEF once
    <3>2. Sound(twice)
        BY <3>1, ReleaseSavepointSound
    <3> HIDE DEF twice
    <3> QED
        BY <3>2, Now
  <2> HIDE DEF d
  <2>3. CASE script' = Off
      BY <1>3, <1>4, <2>1, <2>2, <2>3, Now, ScriptStep DEF Become, IInv
  <2>4. CASE script.left # 1 /\ script' = next
    <3>1. script.left # 0
        BY <2>1 DEF IInv, ScriptKnows
    <3>2. /\ script.left - 1 \in 0..MaxStatements /\ script.left - 1 # 0
          /\ (script.savepoint_created /\ ~ Unneeded) \in BOOLEAN
        BY <1>1, <2>4, <3>1
    <3>3. script' \in ScriptType
        BY <1>1, <2>4, <3>2 DEF ScriptType, ScriptStates
    <3>4. script.savepoint_created => savepointList # << >>
        BY <2>1, Now DEF IInv, ScriptKnows
    <3>6. ScriptKnows(d, script')
        BY <2>2, <2>4, <3>2, <3>4 DEF ScriptKnows
    <3> QED
        BY <2>1, <2>2, <3>3, <3>6, Now, ScriptStep DEF Become, IInv
  <2> QED
      BY <2>1, <2>3, <2>4
<1> QED
    BY <1>5, <1>6, <1>7, <1>8, <1>9, <1>10, <1>11, <1>12, <1>13, <1>14, <1>15,
       <1>16, <1>17 DEF ScriptNext

---------------------------------------------------------------------------
(* The theorems. *)

\* The program starts with an empty list and nothing unsaved.
LEMMA Begins ==
    ASSUME Init
    PROVE  IInv
<1>1. 0 \in 0..MaxWrites /\ 0 \in 0..MaxStatements
    BY SavepointsAssumption
<1>2. << >> \in Seq(Names) /\ << >> \in Seq([name : Names, content : SUBSET Writes])
    BY EmptySeq
<1>3. conn = [stack |-> << >>, content |-> {}, disk |-> {}]
    BY DEF Init, Connection
<1>4. conn \in ConnectionType
    BY <1>2, <1>3 DEF ConnectionType
<1>5. Sound(db)
  <2>1. /\ savepointList = << >> /\ conn.stack = << >>
        /\ conn.content = {} /\ conn.disk = {}
    <3>1. savepointList = << >>
        BY DEF Init
    <3> QED
        BY <1>3, <3>1
  <2>2. /\ Len(savepointList) = 0 /\ Len(conn.stack) = 0
        /\ 1..Len(conn.stack) = {} /\ conn.disk \subseteq conn.content
      BY <2>1
  <2>3. db.list = savepointList /\ db.conn = conn
      BY DEF db, Db
  <2> QED
      BY <1>2, <1>4, <2>1, <2>2, <2>3 DEF Sound
<1>6. script \in ScriptType /\ script.pc = "off"
    BY <1>1 DEF Init, Off, Script, ScriptType, ScriptStates
<1>7. ScriptKnows(db, script)
    BY <1>6 DEF ScriptKnows
<1>8. history \in HistoryType
    BY DEF Init, history, HistoryType
<1> QED
    BY <1>1, <1>3, <1>5, <1>6, <1>7, <1>8 DEF Init, IInv, UiStates

\* Only a statement that ends the transaction is remembered as one.
LEMMA NotEnded ==
    ASSUME [Next]_vars, ~ended'
    PROVE  ~ended /\ ~ EndTransaction
<1>1. ~ EndTransaction
    BY DEF EndTransaction
<1>2. CASE UNCHANGED vars
    BY <1>1, <1>2 DEF vars
<1>3. CASE UiNext
    BY <1>1, <1>3 DEF UiNext, EditCell, ExecuteDirty, OpenDialog, DialogWrite,
       AcceptDialog, RejectDialog, CloseDialog, Undo, Start, SetPragma,
       ReleaseFront, ReleaseDone, RevertFront, RevertDone, Close, history
<1>4. CASE ScriptNext
  <2>1. ASSUME NEW refused \in BOOLEAN,
               CommitFront(refused) \/ CommitDone(refused) \/ Cleanup(refused)
        PROVE  ~ended
      BY <2>1 DEF CommitFront, CommitDone, Cleanup, history
  <2>2. ASSUME \/ Execute \/ Prepare \/ PragmaClean \/ PragmaAborted
               \/ PragmaConfirmed \/ RunPragma
        PROVE  ~ended
      BY <2>2 DEF Execute, Prepare, PragmaClean, PragmaAborted,
         PragmaConfirmed, RunPragma, history
  <2>3. ASSUME \/ Read \/ UnclassedWrite \/ ScriptWrite \/ Fail
               \/ StartNextStatement
        PROVE  ~ended
      BY <2>3 DEF Read, UnclassedWrite, ScriptWrite, Fail,
         StartNextStatement, history
  <2> QED
      BY <1>1, <1>4, <2>1, <2>2, <2>3 DEF ScriptNext
<1> QED
    BY <1>2, <1>3, <1>4 DEF Next

\* The invariant is inductive until a statement ends the transaction.
LEMMA Inductive ==
    Spec => [](~ended => IInv)
<1>1. Init => IInv
    BY Begins
<1>2. (~ended => IInv) /\ [Next]_vars => (~ended => IInv)'
  <2> SUFFICES ASSUME ~ended => IInv, [Next]_vars, ~ended'
               PROVE  IInv'
      OBVIOUS
  <2>1. ~ended /\ ~ EndTransaction
      BY NotEnded
  <2>2. CASE UNCHANGED vars
      BY <2>1, <2>2 DEF vars, history, IInv, Sound, db, Db, ScriptKnows
  <2>3. CASE Next
      BY <2>1, <2>3, UiKeeps, ScriptKeeps DEF Next
  <2> QED
      BY <2>2, <2>3
<1> QED
    BY <1>1, <1>2, PTL DEF Spec

\* The names DBBrowserDB keeps in savepointList are the savepoints that SQLite
\* has open, in the same order, with any number of dialogs, writes and
\* statements, until a statement of a script ends the transaction.
THEOREM ListIsStack ==
    Spec => []ListMirrorsStack
<1>1. (~ended => IInv) => ListMirrorsStack
    BY Implied DEF ListMirrorsStack
<1> QED
    BY <1>1, Inductive, PTL

\* A database that getDirty calls clean has nothing unsaved, so closing it
\* without a question loses nothing, until a statement of a script ends the
\* transaction.
THEOREM CleanHasNothing ==
    Spec => []CleanMeansSaved
<1>1. (~ended => IInv) => CleanMeansSaved
    BY Implied DEF CleanMeansSaved
<1> QED
    BY <1>1, Inductive, PTL

---------------------------------------------------------------------------
(* The file: what the user asked for, and side effects.                    *)

\* While something is being saved, that is the whole content; what a script
\* has not noted as a modification is a side effect that was not counted.
FileInv ==
    /\ conn.disk \ saved \subseteq unclassed
    /\ Releasing \/ script.pc = "commit" => saved = conn.content
    /\ script.pc # "off" /\ ~ script.modified /\ ~ script.was_dirty
           => conn.content \ conn.disk \subseteq unclassed

\* Where a savepoint is open, a write changes what is seen only.
LEMMA WriteSeen ==
    ASSUME NEW d, Sound(d), d.list # << >>, WriteTo(d)
    PROVE  /\ conn'.content = d.conn.content \cup {written + 1}
           /\ conn'.disk = d.conn.disk
           /\ savepointList' = d.list
<1>1. d.conn.stack # << >>
  <2>1. d.list \in Seq(Names) /\ Len(d.list) = Len(d.conn.stack)
      BY DEF Sound
  <2> QED
      BY <2>1, EmptySeq
<1> QED
    BY <1>1 DEF WriteTo, Become, Db, Write, Connection

\* A step of the user interface that neither saves nor commits.
LEMMA UiFile ==
    ASSUME FileInv, script.pc = "off", script' = script,
           conn'.disk = conn.disk, UNCHANGED history,
           ui' \notin {"save", "close_save"}
    PROVE  FileInv'
    BY DEF FileInv, history, Releasing

\* Nothing but a save or a pragma commits in the user interface, and these
\* commit what was asked for.
LEMMA UiFileKeeps ==
    ASSUME IInv, FileInv, UiNext
    PROVE  FileInv'
<1>1. /\ UiFree => script.pc = "off" /\ ui = "idle"
      /\ ui # "idle" => script.pc = "off"
    BY DEF UiFree, ScriptOff, IInv
<1>2. conn.disk \subseteq conn.content
    BY Now DEF Sound
<1>3. CASE EditCell
  <2> DEFINE undo == SetUndoSavepoint(db)
             both == SetSavepoint(undo, RESTOREPOINT)
  <2>1. Sound(undo) /\ undo.conn.disk = conn.disk
      BY Now, SetUndoSavepointSound
  <2> HIDE DEF undo
  <2>2. Sound(both) /\ both.conn.disk = conn.disk /\ both.list # << >>
      BY <2>1, Now, SetSavepointSound
  <2> HIDE DEF both
  <2>3. Become(undo) \/ Become(both) \/ WriteTo(both)
      BY <1>3 DEF EditCell, undo, both
  <2>4. conn'.disk = conn.disk
      BY <2>1, <2>2, <2>3, WriteSeen DEF Become
  <2> QED
      BY <1>1, <1>3, <2>4, UiFile DEF EditCell
<1>4. CASE ExecuteDirty \/ DialogWrite
  <2> DEFINE d == SetSavepoint(db, RESTOREPOINT)
  <2>1. Sound(d) /\ d.conn.disk = conn.disk /\ d.list # << >>
      BY Now, SetSavepointSound
  <2> HIDE DEF d
  <2>2. Become(d) \/ WriteTo(d)
      BY <1>4 DEF ExecuteDirty, DialogWrite, d
  <2>3. conn'.disk = conn.disk
      BY <2>1, <2>2, WriteSeen DEF Become
  <2> QED
      BY <1>1, <1>4, <2>3, UiFile DEF ExecuteDirty, DialogWrite
<1>5. CASE OpenDialog
  <2>1. PICK name \in Dialogs : Become(SetSavepoint(db, name))
      BY <1>5 DEF OpenDialog
  <2>2. conn'.disk = conn.disk
      BY <2>1, Now, SetSavepointSound DEF Become
  <2> QED
      BY <1>1, <1>5, <2>2, UiFile DEF OpenDialog
<1>6. CASE AcceptDialog
    BY <1>1, <1>6, UiFile DEF AcceptDialog, CloseDialog
<1>7. CASE RejectDialog
  <2>1. conn'.disk = conn.disk
      BY <1>7, Now, RevertToSavepointSound DEF RejectDialog, Become
  <2> QED
      BY <1>1, <1>7, <2>1, UiFile DEF RejectDialog, CloseDialog
<1>8. CASE Undo
  <2>1. conn'.disk = conn.disk
      BY <1>8, Now, RevertToSavepointSound DEF Undo, Become
  <2> QED
      BY <1>1, <1>8, <2>1, UiFile DEF Undo
<1>9. ASSUME NEW what, Start(what)
      PROVE  FileInv'
  <2>1. CASE what \in {"save", "close_save"}
      BY <1>1, <1>2, <1>9, <2>1 DEF Start, FileInv
  <2>2. CASE what \notin {"save", "close_save"}
      BY <1>1, <1>9, <2>2, UiFile DEF Start, history
  <2> QED
      BY <2>1, <2>2
<1>10. ASSUME NEW refused \in BOOLEAN, SetPragma(refused)
       PROVE  FileInv'
  <2>1. conn'.disk \in {conn.disk, conn.content}
      BY <1>10, Now, ReleaseSavepointSound DEF SetPragma, Become
  <2> QED
      BY <1>1, <1>2, <1>10, <2>1 DEF SetPragma, FileInv, Releasing
<1>11. ASSUME NEW refused \in BOOLEAN, ReleaseFront(refused)
       PROVE  FileInv'
  <2>1. /\ conn'.disk \in {conn.disk, conn.content}
        /\ conn'.content = conn.content
      BY <1>11, Now, ReleaseSavepointSound DEF ReleaseFront, Become
  <2>2. /\ ui # "idle" /\ saved' = saved /\ unclassed' = unclassed
        /\ script' = script /\ saved = conn.content
      BY <1>11 DEF ReleaseFront, history, Releasing, FileInv
  <2> QED
      BY <1>1, <1>2, <2>1, <2>2 DEF FileInv
<1>12. ASSUME NEW refused \in BOOLEAN, ReleaseDone(refused)
       PROVE  FileInv'
  <2>1. conn.stack = << >>
      BY <1>12, Now, NothingOpen DEF ReleaseDone, getDirty
  <2>2. /\ ui # "idle" /\ script' = script /\ conn' = conn
        /\ saved' = saved /\ unclassed' = unclassed /\ saved = conn.content
      BY <1>12, <2>1 DEF ReleaseDone, Releasing, history, FileInv
  <2> QED
      BY <1>1, <2>2 DEF FileInv
<1>13. CASE RevertFront
  <2>1. conn'.disk = conn.disk
      BY <1>13, Now, RevertToSavepointSound DEF RevertFront, Become
  <2> QED
      BY <1>1, <1>13, <2>1, UiFile DEF RevertFront, Reverting
<1>14. CASE RevertDone
    BY <1>1, <1>14, UiFile DEF RevertDone, Reverting, After
<1>15. CASE Close
  <2>1. conn'.disk = conn.disk
      BY <1>15, Now, ClosedSound DEF Close
  <2> QED
      BY <1>1, <1>15, <2>1, UiFile DEF Close
<1> QED
    BY <1>3, <1>4, <1>5, <1>6, <1>7, <1>8, <1>9, <1>10, <1>11, <1>12, <1>13,
       <1>14, <1>15 DEF UiNext

\* A step of a script that leaves what is seen and what the file holds.
LEMMA ScriptFile ==
    ASSUME FileInv, ui = "idle", ui' = ui,
           conn'.content = conn.content, conn'.disk = conn.disk,
           UNCHANGED history,
           script'.pc # "commit",
           script'.pc # "off" => /\ script.pc # "off"
                                 /\ script'.was_dirty = script.was_dirty
                                 /\ script.modified => script'.modified
    PROVE  FileInv'
    BY DEF FileInv, history, Releasing

\* A script commits after a question, or in the cleanup what it did not count.
LEMMA ScriptFileKeeps ==
    ASSUME IInv, FileInv, ~ EndTransaction, ScriptNext
    PROVE  FileInv'
<1>1. script.pc # "off" => ui = "idle"
    BY DEF IInv
<1>2. conn.disk \subseteq conn.content
    BY Now DEF Sound
<1>3. ASSUME NEW pc, NEW created, NEW modified, GoTo(pc, created, modified)
      PROVE  /\ script'.pc = pc /\ script'.modified = modified
             /\ script'.was_dirty = script.was_dirty
             /\ script'.savepoint_created = created
    BY <1>3 DEF GoTo, Script
<1>4. CASE Execute
  <2>1. /\ script'.was_dirty = getDirty /\ script'.pc = "next"
        /\ ui = "idle" /\ ui' = ui /\ conn' = conn /\ UNCHANGED history
      BY <1>4 DEF Execute, Script
  <2>2. ~ getDirty => conn.content = conn.disk
      BY Implied
  <2> QED
      BY <2>1, <2>2 DEF FileInv, history, Releasing
<1>5. CASE Prepare
  <2> DEFINE d == SetSavepoint(SetUndoSavepoint(db), RESTOREPOINT)
  <2>1. d.conn.content = conn.content /\ d.conn.disk = conn.disk
      BY Now, SetUndoSavepointSound, SetSavepointSound
  <2> HIDE DEF d
  <2>2. UNCHANGED conn \/ Become(d)
      BY <1>5 DEF Prepare, d
  <2>3. conn'.content = conn.content /\ conn'.disk = conn.disk
      BY <2>1, <2>2 DEF Become
  <2>4. /\ script.pc = "next" /\ script'.pc = "ready"
        /\ script'.modified = script.modified
        /\ script'.was_dirty = script.was_dirty
        /\ ui' = ui /\ UNCHANGED history
      BY <1>3, <1>5 DEF Prepare
  <2> QED
      BY <1>1, <2>3, <2>4, ScriptFile
<1>6. CASE PragmaClean \/ RunPragma \/ Read \/ Fail \/ StartNextStatement
  <2>1. /\ script.pc # "off" /\ ui' = ui /\ conn' = conn /\ UNCHANGED history
      BY <1>6 DEF PragmaClean, RunPragma, Read, Fail, StartNextStatement
  <2>2. /\ script'.pc # "commit" /\ script'.was_dirty = script.was_dirty
        /\ script.modified => script'.modified
    <3>1. CASE PragmaClean
        BY <1>3, <3>1 DEF PragmaClean
    <3>2. CASE RunPragma
      <4>1. ASSUME NEW vacuum \in BOOLEAN,
                   GoTo("paused", script.savepoint_created,
                        script.modified \/ vacuum)
            PROVE  /\ script'.pc = "paused"
                   /\ script'.modified = (script.modified \/ vacuum)
                   /\ script'.was_dirty = script.was_dirty
          BY <4>1, <1>3
      <4>2. ASSUME GoTo("failed", script.savepoint_created, script.modified)
            PROVE  /\ script'.pc = "failed"
                   /\ script'.modified = script.modified
                   /\ script'.was_dirty = script.was_dirty
          BY <4>2, <1>3
      <4> QED
          BY <3>2, <4>1, <4>2 DEF RunPragma
    <3>3. CASE Read \/ Fail \/ StartNextStatement
        BY <1>3, <3>3 DEF Read, Fail, StartNextStatement
    <3> QED
        BY <1>6, <3>1, <3>2, <3>3
  <2> QED
      BY <1>1, <2>1, <2>2, ScriptFile
<1>7. CASE PragmaAborted
  <2>1. /\ script.pc # "off" /\ script'.pc = "off"
        /\ ui' = ui /\ conn' = conn /\ UNCHANGED history
      BY <1>7 DEF PragmaAborted, Off, Script
  <2> QED
      BY <1>1, <2>1, ScriptFile
<1>8. CASE PragmaConfirmed
  <2>1. /\ script.pc # "off" /\ script'.modified = script.modified
        /\ script'.was_dirty = script.was_dirty
        /\ saved' = conn.content /\ unclassed' = unclassed
        /\ ui' = ui /\ conn' = conn
      BY <1>3, <1>8 DEF PragmaConfirmed
  <2> QED
      BY <1>2, <2>1 DEF FileInv
<1>9. ASSUME NEW refused \in BOOLEAN, CommitFront(refused)
      PROVE  FileInv'
  <2>1. /\ conn'.disk \in {conn.disk, conn.content}
        /\ conn'.content = conn.content
      BY <1>9, Now, ReleaseSavepointSound DEF CommitFront, Become
  <2>2. /\ script.pc = "commit" /\ script'.modified = script.modified
        /\ script'.was_dirty = script.was_dirty
        /\ saved' = saved /\ unclassed' = unclassed
        /\ saved = conn.content
      BY <1>3, <1>9 DEF CommitFront, history, FileInv
  <2> QED
      BY <1>2, <2>1, <2>2 DEF FileInv
<1>10. ASSUME NEW refused \in BOOLEAN, CommitDone(refused)
       PROVE  FileInv'
  <2>1. conn.stack = << >>
      BY <1>10, Now, NothingOpen DEF CommitDone, getDirty
  <2>2. /\ script.pc = "commit" /\ script'.modified = script.modified
        /\ script'.was_dirty = script.was_dirty /\ script'.pc = "pragma"
        /\ conn' = conn /\ ui' = ui /\ UNCHANGED history
      BY <1>3, <1>10, <2>1 DEF CommitDone
  <2> QED
      BY <1>1, <2>2, ScriptFile
<1>11. CASE ScriptWrite \/ UnclassedWrite
  <2>1. script.pc = "ready" /\ WriteTo(db) /\ savepointList # << >>
      BY <1>11, Now DEF ScriptWrite, UnclassedWrite, IInv, ScriptKnows
  <2>2. /\ conn'.content = conn.content \cup {written + 1}
        /\ conn'.disk = conn.disk
      BY <2>1, Now, WriteSeen
  <2>3. /\ ui' = ui /\ saved' = saved /\ ui = "idle"
        /\ script'.pc = "paused" /\ script'.was_dirty = script.was_dirty
      BY <1>1, <1>3, <1>11 DEF ScriptWrite, UnclassedWrite, history
  <2>4. \/ script'.modified /\ unclassed' = unclassed
        \/ /\ script'.modified = script.modified
           /\ unclassed' = unclassed \cup {written + 1}
      BY <1>3, <1>11 DEF ScriptWrite, UnclassedWrite, history
  <2> QED
      BY <2>1, <2>2, <2>3, <2>4 DEF FileInv, Releasing
<1>12. ASSUME NEW refused \in BOOLEAN, Cleanup(refused)
       PROVE  FileInv'
  <2> DEFINE once == ReleaseSavepoint(db, RESTOREPOINT, refused)
             twice == ReleaseSavepoint(once, UNDOPOINT, refused)
  <2>1. /\ script.pc \in {"cleanup", "failed"} /\ ui' = ui
        /\ saved' = saved /\ unclassed' = unclassed
        /\ Become(IF Unneeded THEN twice ELSE db)
        /\ \/ script'.pc = "off"
           \/ /\ script'.pc = "next" /\ script'.modified = script.modified
              /\ script'.was_dirty = script.was_dirty
      BY <1>12 DEF Cleanup, Off, Script, history
  <2>2. /\ Sound(once) /\ once.conn.content = conn.content
        /\ once.conn.disk \in {conn.disk, conn.content}
      BY Now, ReleaseSavepointSound
  <2> HIDE DEF once
  <2>3. /\ twice.conn.content = conn.content
        /\ twice.conn.disk \in {conn.disk, conn.content}
      BY <2>2, ReleaseSavepointSound
  <2> HIDE DEF twice
  <2>4. /\ conn'.content = conn.content
        /\ conn'.disk = conn.disk \/ (Unneeded /\ conn'.disk = conn.content)
      BY <2>1, <2>3, Now DEF Become
  <2>5. Unneeded => conn.content \ conn.disk \subseteq unclassed
      BY <2>1 DEF Unneeded, FileInv
  <2> QED
      BY <1>1, <1>2, <2>1, <2>4, <2>5 DEF FileInv, Releasing
<1> QED
    BY <1>4, <1>5, <1>6, <1>7, <1>8, <1>9, <1>10, <1>11, <1>12
    DEF ScriptNext

\* The file holds nothing that the user did not ask to have saved but for the
\* side effects of statements that RunSql does not count as modifications,
\* whatever savepoints dialogs, edits and scripts have open, and a save that
\* went through has left out nothing.
THEOREM NothingUnasked ==
    Spec => []FileHoldsOnlySaved
<1>1. Init => FileInv
    BY DEF Init, FileInv, Connection, Off, Script, Releasing
<1>2. (~ended => IInv) /\ (~ended => FileInv) /\ [Next]_vars
          => (~ended => FileInv)'
  <2> SUFFICES ASSUME ~ended => IInv, ~ended => FileInv, [Next]_vars, ~ended'
               PROVE  FileInv'
      OBVIOUS
  <2>1. ~ended /\ ~ EndTransaction
      BY NotEnded
  <2>2. CASE UNCHANGED vars
      BY <2>1, <2>2 DEF vars, FileInv, Releasing
  <2>3. CASE Next
      BY <2>1, <2>3, UiFileKeeps, ScriptFileKeeps DEF Next
  <2> QED
      BY <2>2, <2>3
<1>3. (~ended => IInv) /\ (~ended => FileInv) => FileHoldsOnlySaved
    BY Implied DEF FileInv, FileHoldsOnlySaved
<1> QED
    BY <1>1, <1>2, <1>3, Inductive, PTL DEF Spec

---------------------------------------------------------------------------
(* What a dialog can rely on: its savepoint stays on the stack with the    *)
(* content from when it was opened, under whatever it sets itself.         *)

\* The most recent savepoint of that name has that content.
Remembers(stack, name, content) ==
    \E k \in 1..Len(stack) :
        /\ stack[k].name = name /\ stack[k].content = content
        /\ \A j \in 1..Len(stack) : j > k => stack[j].name # name

StackType == Seq([name : Names, content : SUBSET Writes])

\* A savepoint that is set now remembers the content.
LEMMA PushRemembers ==
    ASSUME NEW c \in ConnectionType, NEW name \in Names
    PROVE  Remembers(Savepoint(c, name).stack, name, c.content)
<1> DEFINE entry == [name |-> name, content |-> c.content]
           stack == Append(c.stack, entry)
<1>1. /\ c.stack \in StackType
      /\ entry \in [name : Names, content : SUBSET Writes]
    BY DEF ConnectionType, StackType
<1>2. /\ Len(stack) = Len(c.stack) + 1 /\ Len(c.stack) \in Nat
      /\ stack[Len(c.stack) + 1] = entry
  <2> HIDE DEF entry
  <2> QED
      BY <1>1, AppendProperties DEF StackType
<1>3. entry.name = name /\ entry.content = c.content
    OBVIOUS
<1>4. Savepoint(c, name).stack = stack
    BY DEF Savepoint, Connection
<1> HIDE DEF stack, entry
<1> QED
    BY <1>2, <1>3, <1>4 DEF Remembers

\* A savepoint of another name leaves what is remembered.
LEMMA OtherPush ==
    ASSUME NEW c \in ConnectionType, NEW name, NEW content,
           Remembers(c.stack, name, content),
           NEW other \in Names, other # name
    PROVE  Remembers(Savepoint(c, other).stack, name, content)
<1> DEFINE entry == [name |-> other, content |-> c.content]
           stack == Append(c.stack, entry)
<1>1. /\ c.stack \in StackType
      /\ entry \in [name : Names, content : SUBSET Writes]
    BY DEF ConnectionType, StackType
<1>2. /\ Len(stack) = Len(c.stack) + 1 /\ Len(c.stack) \in Nat
      /\ \A i \in 1..Len(c.stack) : stack[i] = c.stack[i]
      /\ stack[Len(c.stack) + 1] = entry
  <2> HIDE DEF entry
  <2> QED
      BY <1>1, AppendProperties DEF StackType
<1>3. entry.name # name
    OBVIOUS
<1>4. Savepoint(c, other).stack = stack
    BY DEF Savepoint, Connection
<1> HIDE DEF stack, entry
<1>5. PICK k \in 1..Len(c.stack) :
          /\ c.stack[k].name = name /\ c.stack[k].content = content
          /\ \A j \in 1..Len(c.stack) : j > k => c.stack[j].name # name
    BY DEF Remembers
<1>6. k \in 1..Len(stack) /\ stack[k] = c.stack[k]
    BY <1>2
<1>7. ASSUME NEW j \in 1..Len(stack), j > k
      PROVE  stack[j].name # name
  <2>1. CASE j = Len(c.stack) + 1
      BY <1>2, <1>3, <2>1
  <2>2. CASE j # Len(c.stack) + 1
    <3>1. j \in 1..Len(c.stack) /\ stack[j] = c.stack[j]
        BY <1>2, <2>2
    <3> QED
        BY <1>5, <1>7, <3>1
  <2> QED
      BY <2>1, <2>2
<1> QED
    BY <1>4, <1>5, <1>6, <1>7 DEF Remembers

\* Reverting to a savepoint brings back what it remembers.
LEMMA RevertBringsBack ==
    ASSUME NEW d, Sound(d), NEW name, NEW content,
           Remembers(d.conn.stack, name, content)
    PROVE  RevertToSavepoint(d, name).conn.content = content
<1> DEFINE I == {i \in 1..Len(d.conn.stack) : d.conn.stack[i].name = name}
<1>1. /\ d.list \in Seq(Names)
      /\ d.conn.stack \in StackType
      /\ Len(d.list) = Len(d.conn.stack) /\ Len(d.list) \in Nat
      /\ \A i \in 1..Len(d.conn.stack) : d.list[i] = d.conn.stack[i].name
    BY DEF Sound, ConnectionType, StackType
<1>2. PICK k \in 1..Len(d.conn.stack) :
          /\ d.conn.stack[k].name = name /\ d.conn.stack[k].content = content
          /\ \A j \in 1..Len(d.conn.stack) : j > k => d.conn.stack[j].name # name
    BY DEF Remembers
<1>3. k \in I /\ I \in SUBSET Nat /\ (\A i \in I : i <= Len(d.list))
    BY <1>1, <1>2
<1>4. Max(I) \in I /\ \A i \in I : i <= Max(I)
  <2> HIDE DEF I
  <2> QED
      BY <1>1, <1>3, GreatestNatural
<1>5. Max(I) = k
  <2>1. Max(I) \in 1..Len(d.conn.stack) /\ d.conn.stack[Max(I)].name = name
      BY <1>4
  <2>2. k <= Max(I) /\ ~ (Max(I) > k)
      BY <1>2, <1>3, <1>4, <2>1
  <2> QED
      BY <1>1, <2>1, <2>2
<1>6. Innermost(d.conn, name) = k
  <2>1. Innermost(d.conn, name) = IF I # {} THEN Max(I) ELSE 0
      BY DEF Innermost, SelectLastInSeq
  <2> QED
      BY <1>3, <1>5, <2>1
<1>7. name \in Range(d.list)
    BY <1>1, <1>2 DEF Range
<1>8. k # 0
    BY <1>1
<1>9. RevertToSavepoint(d, name)
        = Db(Forget(d.list, name), RollbackAndRelease(d.conn, name))
    BY <1>7 DEF RevertToSavepoint
<1>10. RollbackAndRelease(d.conn, name).content = d.conn.stack[k].content
    BY <1>6, <1>8 DEF RollbackAndRelease, Connection
<1> QED
    BY <1>2, <1>9, <1>10 DEF Db

---------------------------------------------------------------------------
\* While a dialog is open its savepoint remembers what it was opened with.
DialogInv == ui = "dialog" => /\ dialog \in Dialogs
                              /\ Remembers(conn.stack, dialog, opened)

\* Only its opening and its own writes leave a dialog open.
LEMMA InDialog ==
    ASSUME IInv, Next, ui' = "dialog"
    PROVE  OpenDialog \/ DialogWrite
<1>1. script.pc # "off" => ui = "idle"
    BY DEF IInv
<1>2. CASE UiNext
  <2>1. ASSUME NEW what \in {"save", "revert", "close_save", "close_discard",
                             "close"}, Start(what)
        PROVE  FALSE
      BY <2>1 DEF Start
  <2>2. ASSUME NEW refused \in BOOLEAN,
               ReleaseFront(refused) \/ ReleaseDone(refused)
        PROVE  FALSE
      BY <2>2 DEF ReleaseFront, ReleaseDone, Releasing, After
  <2>3. ~ RevertFront /\ ~ RevertDone /\ ~ Close
      BY DEF RevertFront, RevertDone, Close, Reverting, After
  <2>4. ASSUME NEW refused \in BOOLEAN, SetPragma(refused)
        PROVE  FALSE
      BY <2>4 DEF SetPragma, UiFree
  <2>5. ~ EditCell /\ ~ ExecuteDirty /\ ~ Undo
      BY DEF EditCell, ExecuteDirty, Undo, UiFree
  <2>6. ~ AcceptDialog /\ ~ RejectDialog
      BY DEF AcceptDialog, RejectDialog, CloseDialog
  <2> QED
      BY <1>2, <2>1, <2>2, <2>3, <2>4, <2>5, <2>6 DEF UiNext
<1>3. CASE ScriptNext
  <2>1. ui' = ui
      BY <1>3 DEF ScriptNext, Execute, Prepare, PragmaClean, PragmaAborted,
         PragmaConfirmed, RunPragma, Read, UnclassedWrite, ScriptWrite, Fail, EndTransaction,
         StartNextStatement, CommitFront, CommitDone, Cleanup
  <2>2. ui = "idle"
      BY <1>1, <1>3, SavepointsAssumption
         DEF ScriptNext, Execute, Prepare, PragmaClean, PragmaAborted,
         PragmaConfirmed, RunPragma, Read, UnclassedWrite, ScriptWrite, Fail, EndTransaction,
         StartNextStatement, CommitFront, CommitDone, Cleanup
  <2> QED
      BY <2>1, <2>2
<1> QED
    BY <1>2, <1>3 DEF Next

\* Every step keeps what the savepoint of the open dialog remembers.
LEMMA DialogKeeps ==
    ASSUME IInv, DialogInv, Next
    PROVE  DialogInv'
<1> SUFFICES ASSUME ui' = "dialog"
             PROVE  dialog' \in Dialogs /\ Remembers(conn'.stack, dialog', opened')
    BY DEF DialogInv
<1>1. /\ Sound(db) /\ db.list = savepointList /\ db.conn = conn
      /\ conn \in ConnectionType
      /\ RESTOREPOINT \in Names /\ Dialogs \subseteq Names
    BY Now DEF Sound
<1>2. CASE OpenDialog
  <2>1. PICK name \in Dialogs \ Range(savepointList) :
            Become(SetSavepoint(db, name)) /\ dialog' = name
      BY <1>2 DEF OpenDialog
  <2>2. SetSavepoint(db, name)
          = Db(Append(db.list, name), Savepoint(db.conn, name))
      BY <1>1, <2>1 DEF SetSavepoint
  <2>3. conn' = Savepoint(conn, name)
      BY <1>1, <2>1, <2>2 DEF Become, Db
  <2>4. opened' = conn.content
      BY <1>2 DEF OpenDialog
  <2> QED
      BY <1>1, <2>1, <2>3, <2>4, PushRemembers
<1>3. CASE DialogWrite
  <2> DEFINE d == SetSavepoint(db, RESTOREPOINT)
  <2>1. dialog \in Dialogs /\ Remembers(conn.stack, dialog, opened)
      BY <1>3 DEF DialogWrite, DialogInv
  <2>2. dialog # RESTOREPOINT
      BY <2>1, SavepointsAssumption
  <2>3. Remembers(d.conn.stack, dialog, opened)
    <3>1. CASE RESTOREPOINT \in Range(db.list)
        BY <1>1, <2>1, <3>1 DEF SetSavepoint
    <3>2. CASE RESTOREPOINT \notin Range(db.list)
      <4>1. d.conn = Savepoint(conn, RESTOREPOINT)
          BY <1>1, <3>2 DEF SetSavepoint, Db
      <4> HIDE DEF d
      <4> QED
          BY <1>1, <2>1, <2>2, <4>1, OtherPush
    <3> QED
        BY <3>1, <3>2
  <2>4. conn'.stack = d.conn.stack
    <3> HIDE DEF d
    <3>1. CASE Become(d)
        BY <3>1 DEF Become
    <3>2. CASE WriteTo(d)
        BY <3>2 DEF WriteTo, Become, Db, Write, Connection
    <3> QED
        BY <1>3, <3>1, <3>2 DEF DialogWrite, d
  <2>5. UNCHANGED <<dialog, opened>>
      BY <1>3 DEF DialogWrite
  <2> QED
      BY <2>1, <2>3, <2>4, <2>5
<1> QED
    BY <1>2, <1>3, InDialog

\* Rejecting a dialog, or a failed import, brings back what was there when it
\* was opened, with any number of dialogs, writes and statements before.
THEOREM RejectingRestores ==
    Spec => RejectRestoresOpened
<1>1. Init => DialogInv
    BY DEF Init, DialogInv
<1>2. (~ended => IInv) /\ (~ended => DialogInv) /\ [Next]_vars
          => (~ended => DialogInv)'
  <2> SUFFICES ASSUME ~ended => IInv, ~ended => DialogInv, [Next]_vars,
                      ~ended'
               PROVE  DialogInv'
      OBVIOUS
  <2>1. ~ended /\ ~ EndTransaction
      BY NotEnded
  <2>2. CASE UNCHANGED vars
      BY <2>1, <2>2 DEF vars, DialogInv
  <2>3. CASE Next
      BY <2>1, <2>3, DialogKeeps
  <2> QED
      BY <2>2, <2>3
<1>3. (~ended => IInv) /\ (~ended => DialogInv)
          => (~ended /\ RejectDialog => conn'.content = opened)
  <2> SUFFICES ASSUME IInv, DialogInv, RejectDialog
               PROVE  conn'.content = opened
      OBVIOUS
  <2>1. Sound(db) /\ db.conn = conn
      BY Now
  <2>2. Remembers(db.conn.stack, dialog, opened)
      BY <2>1 DEF DialogInv, RejectDialog
  <2>3. RevertToSavepoint(db, dialog).conn.content = opened
      BY <2>1, <2>2, RevertBringsBack
  <2> QED
      BY <2>3 DEF RejectDialog, Become
<1> QED
    BY <1>1, <1>2, <1>3, Inductive, PTL DEF Spec, RejectRestoresOpened

---------------------------------------------------------------------------
(* What a script gives back that has only read.                            *)

\* Releasing the savepoint that was set last takes that one off the list, and
\* cannot be refused while there is nothing to commit.
LEMMA ReleaseLast ==
    ASSUME NEW d, Sound(d), NEW name, NEW refused,
           d.conn.content = d.conn.disk,
           Len(d.list) # 0, d.list[Len(d.list)] = name
    PROVE  ReleaseSavepoint(d, name, refused).list
               = SubSeq(d.list, 1, Len(d.list) - 1)
<1> DEFINE I == {i \in 1..Len(d.conn.stack) : d.conn.stack[i].name = name}
           n == Len(d.list)
<1>1. /\ d.list \in Seq(Names) /\ n \in Nat /\ Len(d.conn.stack) = n
      /\ \A i \in 1..n : d.list[i] = d.conn.stack[i].name
    BY DEF Sound
<1>2. n \in I /\ I \in SUBSET Nat /\ \A i \in I : i <= n
    BY <1>1
<1>3. Max(I) \in I /\ \A i \in I : i <= Max(I)
  <2> HIDE DEF I, n
  <2> QED
      BY <1>1, <1>2, GreatestNatural
<1>4. Max(I) = n
  <2>1. Max(I) \in Nat /\ Max(I) <= n /\ n <= Max(I)
      BY <1>2, <1>3
  <2> HIDE DEF I, n
  <2> QED
      BY <1>1, <2>1
<1>5. Innermost(d.conn, name) = n
  <2>1. Innermost(d.conn, name) = IF I # {} THEN Max(I) ELSE 0
      BY DEF Innermost, SelectLastInSeq
  <2> QED
      BY <1>2, <1>4, <2>1
<1>6. /\ name \in Range(d.list)
      /\ Forget(d.list, name) = SubSeq(d.list, 1, n - 1)
    BY <1>1, <1>5, SameIndex
<1>7. ~ ReleaseFails(d.conn, name, refused)
    BY <1>5 DEF ReleaseFails
<1> QED
    BY <1>6, <1>7 DEF ReleaseSavepoint, Db

\* The two savepoints that are set before a statement of a script.
Two(list) ==
    Len(list) = 2 /\ list[1] = UNDOPOINT /\ list[2] = RESTOREPOINT

\* The two savepoints of a script on an empty list.
LEMMA SetTwo ==
    ASSUME NEW d, d.list = << >>
    PROVE  Two(SetSavepoint(SetUndoSavepoint(d), RESTOREPOINT).list)
<1> DEFINE one == Append(d.list, UNDOPOINT)
           both == Append(one, RESTOREPOINT)
<1> DEFINE S == {UNDOPOINT, RESTOREPOINT}
<1>1. UNDOPOINT \in S /\ RESTOREPOINT \in S /\ UNDOPOINT # RESTOREPOINT
    BY DEF UNDOPOINT, RESTOREPOINT
<1>2. d.list \in Seq(S) /\ Len(d.list) = 0
    BY EmptySeq
<1> HIDE DEF S
<1>3. /\ one \in Seq(S) /\ Len(one) = 1 /\ one[1] = UNDOPOINT
    BY <1>1, <1>2, AppendProperties
<1>4. SetUndoSavepoint(d).list = one
    BY DEF SetUndoSavepoint, Db
<1> HIDE DEF one
<1>5. /\ Len(both) = 2 /\ both[1] = UNDOPOINT /\ both[2] = RESTOREPOINT
  <2>1. /\ Len(Append(one, RESTOREPOINT)) = Len(one) + 1
        /\ \A i \in 1..Len(one) : Append(one, RESTOREPOINT)[i] = one[i]
        /\ Append(one, RESTOREPOINT)[Len(one) + 1] = RESTOREPOINT
    <3>1. one \in Seq(S) /\ RESTOREPOINT \in S
        BY <1>1, <1>3
    <3> QED
        BY <3>1, AppendProperties
  <2>2. /\ Len(both) = Len(one) + 1
        /\ \A i \in 1..Len(one) : both[i] = one[i]
        /\ both[Len(one) + 1] = RESTOREPOINT
      BY <2>1
  <2> HIDE DEF both
  <2> QED
      BY <1>3, <2>2
<1>6. RESTOREPOINT \notin Range(one)
    BY <1>1, <1>3 DEF Range
<1>7. SetSavepoint(SetUndoSavepoint(d), RESTOREPOINT).list = both
    BY <1>4, <1>6 DEF SetSavepoint, Db
<1> QED
    BY <1>5, <1>7 DEF Two

\* When nothing was changed, giving both back empties the list.
LEMMA ReleaseTwo ==
    ASSUME NEW d, Sound(d), d.conn.content = d.conn.disk, Two(d.list),
           NEW refused
    PROVE  ReleaseSavepoint(ReleaseSavepoint(d, RESTOREPOINT, refused),
                            UNDOPOINT, refused).list = << >>
<1> DEFINE e == ReleaseSavepoint(d, RESTOREPOINT, refused)
<1>1. /\ Sound(e) /\ e.conn.content = e.conn.disk
    BY ReleaseSavepointSound
<1>2. e.list = SubSeq(d.list, 1, 1)
  <2>1. Len(d.list) = 2 /\ Len(d.list) # 0
        /\ d.list[Len(d.list)] = RESTOREPOINT
      BY DEF Two
  <2>2. e.list = SubSeq(d.list, 1, Len(d.list) - 1)
      BY <2>1, ReleaseLast
  <2>3. Len(d.list) - 1 = 1
      BY <2>1
  <2> QED
      BY <2>2, <2>3
<1>3. d.list \in Seq(Names) /\ 2 \in 1..Len(d.list)
    BY DEF Sound, Two
<1>4. e.list \in Seq(Names) /\ Len(e.list) = 1 /\ e.list[1] = UNDOPOINT
  <2> HIDE DEF e
  <2>1. \A k \in 1..Len(d.list) :
            /\ SubSeq(d.list, 1, k - 1) \in Seq(Names)
            /\ Len(SubSeq(d.list, 1, k - 1)) = k - 1
            /\ \A i \in 1..(k - 1) : SubSeq(d.list, 1, k - 1)[i] = d.list[i]
      BY <1>3, Prefix
  <2>2. /\ SubSeq(d.list, 1, 2 - 1) \in Seq(Names)
        /\ Len(SubSeq(d.list, 1, 2 - 1)) = 2 - 1
        /\ \A i \in 1..(2 - 1) : SubSeq(d.list, 1, 2 - 1)[i] = d.list[i]
      BY <1>3, <2>1
  <2> QED
      BY <1>2, <2>2 DEF Two
<1> HIDE DEF e
<1>5. ReleaseSavepoint(e, UNDOPOINT, refused).list = SubSeq(e.list, 1, 0)
  <2>1. Len(e.list) # 0 /\ e.list[Len(e.list)] = UNDOPOINT
      BY <1>4
  <2>2. ReleaseSavepoint(e, UNDOPOINT, refused).list
            = SubSeq(e.list, 1, Len(e.list) - 1)
      BY <1>1, <2>1, ReleaseLast
  <2>3. Len(e.list) - 1 = 0
      BY <1>4
  <2> QED
      BY <2>2, <2>3
<1>6. SubSeq(e.list, 1, 0) = << >>
    BY <1>4, SubSeqProperties, EmptySeq
<1> QED
    BY <1>5, <1>6 DEF e

\* There is nothing to release on an empty list.
LEMMA ReleaseNone ==
    ASSUME NEW d, d.list = << >>, NEW name, NEW refused
    PROVE  ReleaseSavepoint(d, name, refused) = d
<1>1. name \notin Range(d.list)
    BY DEF Range
<1> QED
    BY <1>1 DEF ReleaseSavepoint

\* A release that commits something leaves no savepoint.
LEMMA CommitEmpties ==
    ASSUME NEW d, Sound(d), NEW name, NEW refused,
           d.conn.content # d.conn.disk,
           ReleaseSavepoint(d, name, refused).conn.content
               = ReleaseSavepoint(d, name, refused).conn.disk
    PROVE  ReleaseSavepoint(d, name, refused).list = << >>
<1> DEFINE k == Innermost(d.conn, name)
<1>1. /\ name \in Range(d.list)
      /\ ReleaseSavepoint(d, name, refused)
             = Db(Forget(d.list, name), Release(d.conn, name))
    BY DEF ReleaseSavepoint
<1>2. Release(d.conn, name).content = Release(d.conn, name).disk
    BY <1>1 DEF Db
<1>3. k = 1
    BY <1>2 DEF Release, Connection
<1>4. Forget(d.list, name) = SubSeq(d.list, 1, 0)
  <2>1. Forget(d.list, name) = SubSeq(d.list, 1, k - 1)
      BY SameIndex
  <2>2. k - 1 = 0
      BY <1>3
  <2> QED
      BY <2>1, <2>2
<1>5. SubSeq(d.list, 1, 0) = << >>
    BY SubSeqProperties, EmptySeq DEF Sound
<1> QED
    BY <1>1, <1>4, <1>5 DEF Db

\* A script that began on a clean database and has counted no write so far has
\* either no savepoint or the two it set itself, unless a side effect is still
\* unsaved.
ReadInv ==
    script.pc # "off" /\ ~script.was_dirty /\ ~script.modified =>
        /\ script.pc \in {"next", "pragma", "commit"}
               => ~script.savepoint_created
        /\ script.pc = "ready" => script.savepoint_created
        /\ conn.content = conn.disk =>
               IF script.savepoint_created THEN Two(savepointList)
               ELSE savepointList = << >>

\* The cleanup after a statement gives both back, or there is nothing to give.
LEMMA CleanupReleases ==
    ASSUME IInv, ReadInv, ~script.was_dirty, ~script.modified,
           NEW refused, Cleanup(refused), conn'.content = conn'.disk
    PROVE  savepointList' = << >>
<1> DEFINE once == ReleaseSavepoint(db, RESTOREPOINT, refused)
           twice == ReleaseSavepoint(once, UNDOPOINT, refused)
<1>1. /\ script.pc \in {"cleanup", "failed"}
      /\ Become(IF Unneeded THEN twice ELSE db)
    BY DEF Cleanup
<1>2. conn.content = conn.disk =>
          IF script.savepoint_created THEN Two(savepointList)
          ELSE savepointList = << >>
    BY <1>1 DEF ReadInv
<1>3. Sound(db) /\ db.list = savepointList /\ db.conn = conn
    BY Now
<1>4. CASE script.savepoint_created
  <2>1. Become(twice)
      BY <1>1, <1>4 DEF Unneeded
  <2>2. savepointList' = twice.list /\ twice.conn.content = twice.conn.disk
    <3> HIDE DEF twice
    <3> QED
        BY <2>1 DEF Become
  <2>3. Sound(once)
      BY <1>3, ReleaseSavepointSound
  <2>4. CASE conn.content = conn.disk
      BY <1>2, <1>3, <1>4, <2>2, <2>4, ReleaseTwo
  <2>5. CASE conn.content # conn.disk
    <3>1. CASE once.conn.content = once.conn.disk
      <4>1. once.list = << >>
          BY <1>3, <2>5, <3>1, CommitEmpties
      <4> HIDE DEF once
      <4>2. twice = once
          BY <4>1, ReleaseNone
      <4> QED
          BY <2>2, <4>1, <4>2
    <3>2. CASE once.conn.content # once.conn.disk
      <4> HIDE DEF once
      <4> QED
          BY <2>2, <2>3, <3>2, CommitEmpties
    <3> QED
        BY <3>1, <3>2
  <2> QED
      BY <2>4, <2>5
<1>5. CASE ~script.savepoint_created
  <2>1. Become(db)
      BY <1>1, <1>5 DEF Unneeded
  <2> QED
      BY <1>2, <1>3, <1>5, <2>1 DEF Become
<1> QED
    BY <1>4, <1>5

\* Where a script ends.
LEMMA OnlyEnds ==
    ASSUME IInv, Next, ~ EndTransaction,
           script.pc # "off", script'.pc = "off"
    PROVE  PragmaAborted \/ \E refused \in BOOLEAN : Cleanup(refused)
<1>1. ~ UiNext
    BY DEF UiNext, EditCell, ExecuteDirty, OpenDialog, DialogWrite,
       AcceptDialog, RejectDialog, CloseDialog, Undo, Start, SetPragma,
       ReleaseFront, ReleaseDone, RevertFront, RevertDone, Close
<1>2. ~ Execute
    BY DEF Execute, Script
<1>3. ASSUME NEW refused \in BOOLEAN,
             CommitFront(refused) \/ CommitDone(refused)
      PROVE  FALSE
    BY <1>3 DEF CommitFront, CommitDone, GoTo, Script
<1>4. /\ ~ Prepare /\ ~ PragmaClean /\ ~ PragmaConfirmed /\ ~ RunPragma
      /\ ~ Read /\ ~ UnclassedWrite /\ ~ ScriptWrite
      /\ ~ Fail /\ ~ StartNextStatement
    BY DEF Prepare, PragmaClean, PragmaConfirmed, RunPragma, Read,
       UnclassedWrite, ScriptWrite, Fail, StartNextStatement, GoTo, Script
<1> QED
    BY <1>1, <1>2, <1>3, <1>4 DEF Next, ScriptNext

\* Every step keeps what a script that only reads has on the list.
LEMMA ReadKeeps ==
    ASSUME IInv, ReadInv, ~ EndTransaction, Next
    PROVE  ReadInv'
<1>1. script \in ScriptType /\ (script.pc # "off" => ui = "idle")
    BY DEF IInv
<1>2. CASE UiNext
  <2>1. script' = script
      BY <1>2 DEF UiNext, EditCell, ExecuteDirty, OpenDialog, DialogWrite,
         AcceptDialog, RejectDialog, CloseDialog, Undo, Start, SetPragma,
         ReleaseFront, ReleaseDone, RevertFront, RevertDone, Close
  <2>2. script.pc = "off"
      BY <1>1, <1>2 DEF UiNext, EditCell, ExecuteDirty, OpenDialog,
         DialogWrite, AcceptDialog, RejectDialog, Undo, Start, SetPragma,
         ReleaseFront, ReleaseDone, RevertFront, RevertDone, Close, UiFree,
         ScriptOff, Releasing, Reverting
  <2> QED
      BY <2>1, <2>2 DEF ReadInv
<1>3. CASE Execute
  <2>1. PICK n \in 1..MaxStatements :
            script' = Script("next", getDirty, FALSE, FALSE, n)
      BY <1>3 DEF Execute
  <2>2. savepointList' = savepointList
      BY <1>3 DEF Execute
  <2> QED
      BY <2>1, <2>2 DEF ReadInv, Script, getDirty
<1>4. CASE Prepare
  <2>1. script.pc = "next" /\ GoTo("ready", TRUE, script.modified)
      BY <1>4 DEF Prepare
  <2>2. /\ script'.pc = "ready" /\ script'.savepoint_created
        /\ script'.was_dirty = script.was_dirty
        /\ script'.modified = script.modified
      BY <2>1 DEF GoTo, Script
  <2>3. ASSUME ~script.was_dirty, ~script.modified,
               conn'.content = conn'.disk
        PROVE  Two(savepointList')
    <3> DEFINE d == SetSavepoint(SetUndoSavepoint(db), RESTOREPOINT)
    <3>1. ~script.savepoint_created
        BY <2>1, <2>3 DEF ReadInv
    <3>2. Become(d)
        BY <1>4, <3>1 DEF Prepare
    <3>3. d.conn.content = conn.content /\ d.conn.disk = conn.disk
        BY Now, SetUndoSavepointSound, SetSavepointSound
    <3>4. conn.content = conn.disk
      <4> HIDE DEF d
      <4> QED
          BY <2>3, <3>2, <3>3 DEF Become
    <3>5. db.list = << >>
        BY <2>1, <2>3, <3>1, <3>4, Now DEF ReadInv
    <3> QED
        BY <3>2, <3>5, SetTwo DEF Become
  <2> QED
      BY <2>2, <2>3 DEF ReadInv
<1>5. CASE PragmaAborted
    BY <1>5 DEF PragmaAborted, Off, Script, ReadInv
<1>6. CASE PragmaConfirmed \/ PragmaClean
  <2>1. /\ script.pc = "next" /\ savepointList' = savepointList
        /\ conn' = conn /\ script'.pc \in {"pragma", "commit"}
        /\ script'.was_dirty = script.was_dirty
        /\ script'.modified = script.modified
        /\ script'.savepoint_created = script.savepoint_created
        /\ getDirty \/ script'.pc = "pragma"
      BY <1>6 DEF PragmaConfirmed, PragmaClean, GoTo, Script
  <2> QED
      BY <2>1 DEF ReadInv, getDirty
<1>7. ASSUME NEW refused \in BOOLEAN,
             CommitFront(refused) \/ CommitDone(refused)
      PROVE  ReadInv'
  <2>1. /\ script.pc = "commit"
        /\ script'.was_dirty = script.was_dirty
        /\ script'.modified = script.modified
        /\ \/ script' = script
           \/ script'.pc = "pragma" /\ ~script'.savepoint_created
      BY <1>7 DEF CommitFront, CommitDone, GoTo, Script
  <2>2. ASSUME ~script.was_dirty, ~script.modified,
               conn'.content = conn'.disk
        PROVE  savepointList' = << >>
    <3>1. ~script.savepoint_created
          /\ (conn.content = conn.disk => savepointList = << >>)
        BY <2>1, <2>2 DEF ReadInv
    <3>2. CASE CommitFront(refused)
      <4> DEFINE d == ReleaseSavepoint(db, Head(savepointList), refused)
      <4>1. Become(d) /\ savepointList # << >>
          BY <3>2 DEF CommitFront, getDirty
      <4>2. d.conn.content = d.conn.disk /\ savepointList' = d.list
        <5> HIDE DEF d
        <5> QED
            BY <2>2, <4>1 DEF Become
      <4>3. Sound(db) /\ db.conn.content # db.conn.disk
          BY <3>1, <4>1, Now
      <4> QED
          BY <4>2, <4>3, CommitEmpties
    <3>3. CASE CommitDone(refused)
        BY <3>3 DEF CommitDone, getDirty
    <3> QED
        BY <1>7, <3>2, <3>3
  <2> QED
      BY <2>1, <2>2 DEF ReadInv
<1>8. CASE RunPragma \/ Read \/ Fail \/ StartNextStatement
  <2>1. /\ script.pc # "off" /\ savepointList' = savepointList
        /\ conn' = conn
        /\ script'.was_dirty = script.was_dirty
        /\ script.modified => script'.modified
        /\ script'.savepoint_created = script.savepoint_created
        /\ script'.pc \in {"paused", "failed", "cleanup"}
    <3>1. ASSUME NEW pc, NEW modified, GoTo(pc, script.savepoint_created,
                                            modified)
          PROVE  /\ script'.was_dirty = script.was_dirty
                 /\ script'.modified = modified
                 /\ script'.savepoint_created = script.savepoint_created
                 /\ script'.pc = pc
        BY <3>1 DEF GoTo, Script
    <3>2. CASE Read \/ Fail \/ StartNextStatement
        BY <3>1, <3>2 DEF Read, Fail, StartNextStatement
    <3>3. CASE RunPragma
      <4>1. /\ script.pc # "off" /\ savepointList' = savepointList
            /\ conn' = conn
            /\ \E pc \in {"paused", "failed"} : \E modified :
                   /\ GoTo(pc, script.savepoint_created, modified)
                   /\ script.modified => modified
          BY <3>3 DEF RunPragma
      <4> QED
          BY <3>1, <4>1
    <3> QED
        BY <1>8, <3>2, <3>3
  <2> QED
      BY <2>1 DEF ReadInv
<1>9. CASE ScriptWrite
    BY <1>9 DEF ScriptWrite, GoTo, Script, ReadInv
<1>11. CASE UnclassedWrite
  <2>1. /\ script.pc = "ready" /\ WriteTo(db)
        /\ Sound(db) /\ db.list = savepointList /\ db.conn = conn
        /\ db.list # << >>
      BY <1>11, Now DEF UnclassedWrite, IInv, ScriptKnows
  <2>2. /\ conn'.content = conn.content \cup {written + 1}
        /\ conn'.disk = conn.disk
        /\ savepointList' = savepointList
      BY <2>1, WriteSeen
  <2>3. conn.disk \subseteq conn.content
      BY <2>1 DEF Sound
  <2>4. conn'.content = conn'.disk => conn.content = conn.disk
      BY <2>2, <2>3
  <2>5. /\ script'.pc = "paused" /\ script'.was_dirty = script.was_dirty
        /\ script'.modified = script.modified
        /\ script'.savepoint_created = script.savepoint_created
      BY <1>11 DEF UnclassedWrite, GoTo, Script
  <2> QED
      BY <2>1, <2>2, <2>4, <2>5 DEF ReadInv
<1>10. ASSUME NEW refused \in BOOLEAN, Cleanup(refused)
       PROVE  ReadInv'
  <2>1. CASE script' = Off
      BY <2>1 DEF Off, Script, ReadInv
  <2>2. CASE script' # Off
    <3>1. /\ script'.pc = "next" /\ script.pc \in {"cleanup", "failed"}
          /\ script'.was_dirty = script.was_dirty
          /\ script'.modified = script.modified
          /\ script'.savepoint_created
                 = (script.savepoint_created /\ ~Unneeded)
        BY <1>10, <2>2 DEF Cleanup, Script
    <3>2. ~script.was_dirty /\ ~script.modified =>
              ~script'.savepoint_created
        BY <3>1 DEF Unneeded
    <3>3. ASSUME ~script.was_dirty, ~script.modified,
                 conn'.content = conn'.disk
          PROVE  savepointList' = << >>
        BY <1>10, <3>3, CleanupReleases
    <3> QED
        BY <3>1, <3>2, <3>3 DEF ReadInv
  <2> QED
      BY <2>1, <2>2
<1> QED
    BY <1>2, <1>3, <1>4, <1>5, <1>6, <1>7, <1>8, <1>9, <1>10,
       <1>11
    DEF Next, ScriptNext

\* A script without a statement known to write, on a database without changes,
\* leaves it so: at its end the savepoints it has set are given back, however
\* many statements it has and also when one fails, unless a side effect could
\* not be saved.
THEOREM ReadingIsClean ==
    Spec => ReadingLeavesClean
<1>1. Init => ReadInv
    BY DEF Init, ReadInv, Off, Script
<1>2. (~ended => IInv) /\ (~ended => ReadInv) /\ [Next]_vars
          => (~ended => ReadInv)'
  <2> SUFFICES ASSUME ~ended => IInv, ~ended => ReadInv, [Next]_vars, ~ended'
               PROVE  ReadInv'
      OBVIOUS
  <2>1. ~ended /\ ~ EndTransaction
      BY NotEnded
  <2>2. CASE UNCHANGED vars
      BY <2>1, <2>2 DEF vars, ReadInv
  <2>3. CASE Next
      BY <2>1, <2>3, ReadKeeps
  <2> QED
      BY <2>2, <2>3
<1>3. (~ended => IInv) /\ (~ended => ReadInv) /\ [Next]_vars
          => [~ended /\ script.pc # "off" /\ script'.pc = "off"
                  /\ ~script.was_dirty /\ ~script.modified
                  /\ conn'.content = conn'.disk
              => savepointList' = << >>]_vars
  <2> SUFFICES ASSUME IInv, ReadInv, Next,
                      script.pc # "off", script'.pc = "off",
                      ~script.was_dirty, ~script.modified,
                      conn'.content = conn'.disk
               PROVE  savepointList' = << >>
      BY DEF vars
  <2>1. CASE EndTransaction
      BY <2>1 DEF EndTransaction, GoTo, Script
  <2>2. CASE ~ EndTransaction
    <3>1. PragmaAborted \/ \E refused \in BOOLEAN : Cleanup(refused)
        BY <2>2, OnlyEnds
    <3>2. ~ PragmaAborted
        BY DEF PragmaAborted, getDirty, ReadInv
    <3> QED
        BY <3>1, <3>2, CleanupReleases
  <2> QED
      BY <2>1, <2>2
<1> QED
    BY <1>1, <1>2, <1>3, Inductive, PTL DEF Spec, ReadingLeavesClean

---------------------------------------------------------------------------
(* The types, which hold also when the list is no longer the stack.        *)

TypedDb(d) == d.list \in Seq(Names) /\ d.conn \in ConnectionType

\* What is before an entry of a sequence, or nothing
LEMMA CutTyped ==
    ASSUME NEW S, NEW seq \in Seq(S), NEW k \in 0..Len(seq)
    PROVE  SubSeq(seq, 1, k - 1) \in Seq(S)
<1>1. CASE k = 0
  <2>1. k - 1 \in Int /\ \A i \in 1..(k - 1) : seq[i] \in S
      BY <1>1
  <2> QED
      BY <2>1, SubSeqProperties
<1>2. CASE k # 0
  <2>1. k \in 1..Len(seq)
      BY <1>2
  <2> QED
      BY <2>1, Prefix
<1> QED
    BY <1>1, <1>2

\* The entries that are left on the list are names.
LEMMA ForgetTyped ==
    ASSUME NEW list \in Seq(Names), NEW name
    PROVE  Forget(list, name) \in Seq(Names)
<1> DEFINE J == {i \in 1..Len(list) : list[i] = name}
           k == IF J # {} THEN Max(J) ELSE 0
<1>1. Forget(list, name) = SubSeq(list, 1, k - 1)
    BY DEF Forget, SelectLastInSeq
<1>2. k \in 0..Len(list)
  <2>1. J \in SUBSET (1..Len(list)) /\ Len(list) \in Nat
      OBVIOUS
  <2> HIDE DEF J
  <2> QED
      BY <2>1, LastOf
<1> HIDE DEF k
<1> QED
    BY <1>1, <1>2, CutTyped

\* Where the last savepoint of a name is on the stack
LEMMA InnermostTyped ==
    ASSUME NEW c \in ConnectionType, NEW name
    PROVE  Innermost(c, name) \in 0..Len(c.stack)
<1> DEFINE I == {i \in 1..Len(c.stack) : c.stack[i].name = name}
<1>1. Innermost(c, name) = IF I # {} THEN Max(I) ELSE 0
    BY DEF Innermost, SelectLastInSeq
<1>2. I \in SUBSET (1..Len(c.stack)) /\ Len(c.stack) \in Nat
    BY DEF ConnectionType
<1> HIDE DEF I
<1> QED
    BY <1>1, <1>2, LastOf

\* A list with one name more, and a stack with one savepoint more
LEMMA PushTyped ==
    ASSUME NEW d, TypedDb(d), NEW name \in Names
    PROVE  TypedDb(Db(Append(d.list, name), Savepoint(d.conn, name)))
<1> DEFINE entry == [name |-> name, content |-> d.conn.content]
           stack == Append(d.conn.stack, entry)
           list == Append(d.list, name)
<1>1. /\ d.list \in Seq(Names)
      /\ d.conn.stack \in Seq([name : Names, content : SUBSET Writes])
      /\ d.conn.content \in SUBSET Writes /\ d.conn.disk \in SUBSET Writes
      /\ entry \in [name : Names, content : SUBSET Writes]
    BY DEF TypedDb, ConnectionType
<1>2. /\ list \in Seq(Names)
      /\ stack \in Seq([name : Names, content : SUBSET Writes])
  <2> HIDE DEF entry
  <2> QED
      BY <1>1, AppendProperties
<1>3. Db(Append(d.list, name), Savepoint(d.conn, name))
        = [list |-> list, conn |-> [stack |-> stack,
                                    content |-> d.conn.content,
                                    disk |-> d.conn.disk]]
    BY DEF Db, Savepoint, Connection
<1> HIDE DEF entry, list, stack
<1> QED
    BY <1>1, <1>2, <1>3 DEF TypedDb, ConnectionType

\* The four operations of the layer and a write, on any list and connection
LEMMA LayerTyped ==
    ASSUME NEW d, TypedDb(d)
    PROVE  /\ \A name \in Names : TypedDb(SetSavepoint(d, name))
           /\ TypedDb(SetUndoSavepoint(d))
           /\ \A name, refused : TypedDb(ReleaseSavepoint(d, name, refused))
           /\ \A name : TypedDb(RevertToSavepoint(d, name))
           /\ \A w \in Writes : TypedDb(Db(d.list, Write(d.conn, w)))
<1>1. /\ d.list \in Seq(Names) /\ d.conn \in ConnectionType
      /\ d.conn.stack \in Seq([name : Names, content : SUBSET Writes])
      /\ d.conn.content \in SUBSET Writes /\ d.conn.disk \in SUBSET Writes
    BY DEF TypedDb, ConnectionType
<1>2. \A name \in Names : TypedDb(SetSavepoint(d, name))
    BY PushTyped DEF SetSavepoint
<1>3. TypedDb(SetUndoSavepoint(d))
    BY PushTyped DEF SetUndoSavepoint, Names
<1>4. ASSUME NEW name, NEW content \in SUBSET Writes,
             NEW disk \in SUBSET Writes
      PROVE  TypedDb(Db(Forget(d.list, name),
                        Connection(SubSeq(d.conn.stack, 1,
                                          Innermost(d.conn, name) - 1),
                                   content, disk)))
  <2> DEFINE list == Forget(d.list, name)
             stack == SubSeq(d.conn.stack, 1, Innermost(d.conn, name) - 1)
  <2>1. list \in Seq(Names)
      BY <1>1, ForgetTyped
  <2>2. stack \in Seq([name : Names, content : SUBSET Writes])
      BY <1>1, InnermostTyped, CutTyped
  <2> HIDE DEF list, stack
  <2>3. TypedDb(Db(list, Connection(stack, content, disk)))
      BY <1>4, <2>1, <2>2 DEF TypedDb, Db, Connection, ConnectionType
  <2> QED
      BY <2>3 DEF list, stack
<1>5. ASSUME NEW name, NEW refused
      PROVE  TypedDb(ReleaseSavepoint(d, name, refused))
  <2> DEFINE disk == IF Innermost(d.conn, name) = 1 THEN d.conn.content
                     ELSE d.conn.disk
  <2>1. disk \in SUBSET Writes
      BY <1>1
  <2>2. \/ ReleaseSavepoint(d, name, refused) = d
        \/ ReleaseSavepoint(d, name, refused)
             = Db(Forget(d.list, name),
                  Connection(SubSeq(d.conn.stack, 1,
                                    Innermost(d.conn, name) - 1),
                             d.conn.content, disk))
      BY DEF ReleaseSavepoint, Release
  <2> HIDE DEF disk
  <2> QED
      BY <1>1, <1>4, <2>1, <2>2
<1>6. ASSUME NEW name
      PROVE  TypedDb(RevertToSavepoint(d, name))
  <2> DEFINE k == Innermost(d.conn, name)
  <2>1. k \in 0..Len(d.conn.stack) /\ Len(d.conn.stack) \in Nat
      BY <1>1, InnermostTyped
  <2>2. CASE name \notin Range(d.list)
      BY <2>2 DEF RevertToSavepoint
  <2>3. CASE name \in Range(d.list) /\ k = 0
    <3>1. RevertToSavepoint(d, name) = Db(Forget(d.list, name), d.conn)
        BY <2>3 DEF RevertToSavepoint, RollbackAndRelease
    <3>2. Forget(d.list, name) \in Seq(Names)
        BY <1>1, ForgetTyped
    <3> QED
        BY <1>1, <3>1, <3>2 DEF TypedDb, Db
  <2>4. CASE name \in Range(d.list) /\ k # 0
    <3>1. d.conn.stack[k].content \in SUBSET Writes
      <4>1. k \in 1..Len(d.conn.stack)
          BY <2>1, <2>4
      <4> HIDE DEF k
      <4>2. d.conn.stack[k] \in [name : Names, content : SUBSET Writes]
          BY <1>1, <4>1, ElementOfSeq
      <4> QED
          BY <4>2
    <3>2. RevertToSavepoint(d, name)
            = Db(Forget(d.list, name),
                 Connection(SubSeq(d.conn.stack, 1, k - 1),
                            d.conn.stack[k].content, d.conn.disk))
        BY <2>4 DEF RevertToSavepoint, RollbackAndRelease
    <3> QED
        BY <1>1, <1>4, <3>1, <3>2
  <2> QED
      BY <2>2, <2>3, <2>4
<1>7. ASSUME NEW w \in Writes
      PROVE  TypedDb(Db(d.list, Write(d.conn, w)))
    BY <1>1, <1>7 DEF TypedDb, Db, Write, Connection, ConnectionType
<1> QED
    BY <1>2, <1>3, <1>5, <1>6, <1>7

TypeInv ==
    /\ TypedDb(db)
    /\ history \in HistoryType
    /\ written \in 0..MaxWrites
    /\ ui \in UiStates
    /\ dialog \in Dialogs \cup {NoDialog}
    /\ opened \in SUBSET Writes
    /\ script \in ScriptType
    /\ script.pc # "off" => script.left # 0

\* A step of the layer, or a write, leaves a list and a connection.
LEMMA BecomeTyped ==
    ASSUME TypeInv, NEW d, TypedDb(d),
           \/ Become(d) /\ UNCHANGED written
           \/ CanWrite /\ WriteTo(d)
    PROVE  TypedDb(db)' /\ written' \in 0..MaxWrites
<1>1. MaxWrites \in Nat /\ written \in 0..MaxWrites
    BY SavepointsAssumption DEF TypeInv
<1>2. CASE Become(d) /\ UNCHANGED written
    BY <1>1, <1>2 DEF Become, TypedDb, db, Db
<1>3. CASE CanWrite /\ WriteTo(d)
  <2> DEFINE e == Db(d.list, Write(d.conn, written + 1))
  <2>1. written + 1 \in Writes /\ written' \in 0..MaxWrites
      BY <1>1, <1>3 DEF CanWrite, WriteTo, Writes
  <2>2. TypedDb(e)
      BY <2>1, LayerTyped
  <2>3. savepointList' = e.list /\ conn' = e.conn
      BY <1>3 DEF WriteTo, Become
  <2> HIDE DEF e
  <2> QED
      BY <2>1, <2>2, <2>3 DEF TypedDb, db, Db
<1> QED
    BY <1>2, <1>3

\* A list that is kept or emptied, and a connection that is kept, committed or
\* rolled back.
LEMMA ConnTyped ==
    ASSUME TypeInv, savepointList' \in {savepointList, << >>},
           conn' \in {conn, Commit(conn), Rollback(conn)}
    PROVE  TypedDb(db)'
<1>1. /\ savepointList \in Seq(Names) /\ << >> \in Seq(Names)
      /\ conn \in ConnectionType
      /\ << >> \in Seq([name : Names, content : SUBSET Writes])
    BY EmptySeq DEF TypeInv, TypedDb, db, Db
<1>2. conn.content \in SUBSET Writes /\ conn.disk \in SUBSET Writes
    BY <1>1 DEF ConnectionType
<1>3. Commit(conn) \in ConnectionType /\ Rollback(conn) \in ConnectionType
    BY <1>1, <1>2 DEF Commit, Rollback, Connection, ConnectionType
<1> QED
    BY <1>1, <1>3 DEF TypedDb, db, Db

\* The user interface keeps the types.
LEMMA UiTyped ==
    ASSUME TypeInv, UiNext
    PROVE  TypeInv'
<1>1. /\ TypedDb(db) /\ history \in HistoryType /\ ui \in UiStates
      /\ dialog \in Dialogs \cup {NoDialog} /\ opened \in SUBSET Writes
      /\ written \in 0..MaxWrites
      /\ RESTOREPOINT \in Names /\ UNDOPOINT \in Names /\ Dialogs \subseteq Names
      /\ conn.content \in SUBSET Writes
      /\ << >> \in Seq(Names)
    BY EmptySeq DEF TypeInv, TypedDb, db, Db, ConnectionType, Names
<1>2. /\ script' = script
      /\ history' = history \/ (/\ saved' \in {saved, conn.content}
                                /\ unclassed' = unclassed /\ ended' = ended)
      /\ ui' \in UiStates
      /\ dialog' \in Dialogs \cup {NoDialog}
      /\ opened' \in SUBSET Writes
  <2>1. CASE EditCell \/ ExecuteDirty \/ DialogWrite \/ Undo \/ RevertFront
      BY <1>1, <2>1 DEF EditCell, ExecuteDirty, DialogWrite, Undo, RevertFront
  <2>2. CASE OpenDialog \/ AcceptDialog \/ RejectDialog \/ RevertDone \/ Close
      BY <1>1, <2>2 DEF OpenDialog, AcceptDialog, RejectDialog, CloseDialog,
         RevertDone, Reverting, After, Close, UiStates
  <2>3. ASSUME NEW what \in {"save", "revert", "close_save",
                             "close_discard", "close"}, Start(what)
        PROVE  <1>2!:
      BY <1>1, <2>3 DEF Start, UiStates
  <2>4. ASSUME NEW refused \in BOOLEAN,
               SetPragma(refused) \/ ReleaseFront(refused)
                   \/ ReleaseDone(refused)
        PROVE  <1>2!:
      BY <1>1, <2>4 DEF SetPragma, ReleaseFront, ReleaseDone, Releasing,
         After, UiStates
  <2> QED
      BY <2>1, <2>2, <2>3, <2>4 DEF UiNext
<1>3. TypedDb(db)' /\ written' \in 0..MaxWrites
  <2>1. CASE EditCell
    <3> DEFINE undo == SetUndoSavepoint(db)
               both == SetSavepoint(undo, RESTOREPOINT)
    <3>1. TypedDb(undo)
        BY <1>1, LayerTyped
    <3> HIDE DEF undo
    <3>2. TypedDb(both)
        BY <1>1, <3>1, LayerTyped
    <3> HIDE DEF both
    <3>3. \/ Become(undo) /\ UNCHANGED written
          \/ Become(both) /\ UNCHANGED written
          \/ CanWrite /\ WriteTo(both)
        BY <2>1 DEF EditCell, undo, both
    <3> QED
        BY <3>1, <3>2, <3>3, BecomeTyped
  <2>2. CASE ExecuteDirty \/ DialogWrite
    <3> DEFINE d == SetSavepoint(db, RESTOREPOINT)
    <3>1. TypedDb(d)
        BY <1>1, LayerTyped
    <3> HIDE DEF d
    <3>2. \/ Become(d) /\ UNCHANGED written
          \/ CanWrite /\ WriteTo(d)
      <4>1. CASE ExecuteDirty
          BY <4>1 DEF ExecuteDirty, d
      <4>2. CASE DialogWrite
          BY <4>2 DEF DialogWrite, d
      <4> QED
          BY <2>2, <4>1, <4>2
    <3> QED
        BY <3>1, <3>2, BecomeTyped
  <2>3. CASE OpenDialog
    <3>1. PICK name \in Dialogs :
              Become(SetSavepoint(db, name)) /\ UNCHANGED written
        BY <2>3 DEF OpenDialog
    <3>2. TypedDb(SetSavepoint(db, name))
        BY <1>1, LayerTyped
    <3> QED
        BY <3>1, <3>2, BecomeTyped
  <2>4. CASE RejectDialog \/ Undo \/ RevertFront
    <3>1. PICK name :
              Become(RevertToSavepoint(db, name)) /\ UNCHANGED written
        BY <2>4 DEF RejectDialog, CloseDialog, Undo, RevertFront
    <3>2. TypedDb(RevertToSavepoint(db, name))
        BY <1>1, LayerTyped
    <3> QED
        BY <3>1, <3>2, BecomeTyped
  <2>5. ASSUME NEW refused \in BOOLEAN,
               SetPragma(refused) \/ ReleaseFront(refused)
        PROVE  TypedDb(db)' /\ written' \in 0..MaxWrites
    <3>1. PICK name : /\ Become(ReleaseSavepoint(db, name, refused))
                      /\ UNCHANGED written
        BY <2>5 DEF SetPragma, ReleaseFront
    <3>2. TypedDb(ReleaseSavepoint(db, name, refused))
        BY <1>1, LayerTyped
    <3> QED
        BY <3>1, <3>2, BecomeTyped
  <2>6. ASSUME NEW refused \in BOOLEAN, ReleaseDone(refused)
        PROVE  TypedDb(db)' /\ written' \in 0..MaxWrites
      BY <1>1, <2>6, ConnTyped DEF ReleaseDone
  <2>7. CASE Close \/ AcceptDialog \/ RevertDone
      BY <1>1, <2>7, ConnTyped DEF Close, AcceptDialog, CloseDialog, RevertDone
  <2>8. ASSUME NEW what, Start(what)
        PROVE  TypedDb(db)' /\ written' \in 0..MaxWrites
      BY <1>1, <2>8, ConnTyped DEF Start
  <2> QED
      BY <2>1, <2>2, <2>3, <2>4, <2>5, <2>6, <2>7, <2>8 DEF UiNext
<1>4. history' \in HistoryType
    BY <1>1, <1>2 DEF history, HistoryType
<1> QED
    BY <1>2, <1>3, <1>4 DEF TypeInv

\* A script keeps the types.
LEMMA ScriptTyped ==
    ASSUME TypeInv, ScriptNext
    PROVE  TypeInv'
<1>1. /\ TypedDb(db) /\ history \in HistoryType /\ ui \in UiStates
      /\ dialog \in Dialogs \cup {NoDialog} /\ opened \in SUBSET Writes
      /\ written \in 0..MaxWrites /\ script \in ScriptType
      /\ script.pc # "off" => script.left # 0
      /\ RESTOREPOINT \in Names
      /\ conn.content \in SUBSET Writes
      /\ MaxWrites \in Nat /\ MaxStatements \in Nat
    BY SavepointsAssumption
       DEF TypeInv, TypedDb, db, Db, ConnectionType, Names
<1>2. /\ script.pc \in ScriptStates /\ script.was_dirty \in BOOLEAN
      /\ script.savepoint_created \in BOOLEAN /\ script.modified \in BOOLEAN
      /\ script.left \in 0..MaxStatements
    BY <1>1 DEF ScriptType
<1> DEFINE Good == /\ script' \in ScriptType
                   /\ script'.pc # "off" => script'.left # 0
<1>3. ASSUME NEW pc \in ScriptStates \ {"off"}, NEW created \in BOOLEAN,
             NEW modified \in BOOLEAN, GoTo(pc, created, modified),
             script.pc # "off"
      PROVE  Good
    BY <1>1, <1>3, GoToType
<1>4. UNCHANGED <<ui, dialog, opened>>
  <2>1. ASSUME NEW refused \in BOOLEAN,
               CommitFront(refused) \/ CommitDone(refused) \/ Cleanup(refused)
        PROVE  UNCHANGED <<ui, dialog, opened>>
      BY <2>1 DEF CommitFront, CommitDone, Cleanup
  <2>2. CASE \/ Execute \/ Prepare \/ PragmaClean \/ PragmaAborted
             \/ PragmaConfirmed \/ RunPragma
      BY <2>2 DEF Execute, Prepare, PragmaClean, PragmaAborted,
         PragmaConfirmed, RunPragma
  <2>3. CASE \/ Read \/ UnclassedWrite \/ ScriptWrite \/ Fail
             \/ EndTransaction \/ StartNextStatement
      BY <2>3 DEF Read, UnclassedWrite, ScriptWrite, Fail, EndTransaction,
         StartNextStatement
  <2> QED
      BY <2>1, <2>2, <2>3 DEF ScriptNext
<1>5. ASSUME Good, TypedDb(db)', written' \in 0..MaxWrites,
             history' \in HistoryType
      PROVE  TypeInv'
    BY <1>1, <1>4, <1>5 DEF TypeInv
<1>6. CASE Execute
  <2>1. Good
      BY <1>1, <1>6 DEF Execute, Script, ScriptType, ScriptStates, getDirty
  <2> QED
      BY <1>1, <1>5, <1>6, <2>1, ConnTyped DEF Execute
<1>7. CASE Prepare
  <2> DEFINE d == SetSavepoint(SetUndoSavepoint(db), RESTOREPOINT)
  <2>1. Good
      BY <1>2, <1>3, <1>7 DEF Prepare, ScriptStates
  <2>2. TypedDb(SetUndoSavepoint(db))
      BY <1>1, LayerTyped
  <2>3. TypedDb(d)
      BY <1>1, <2>2, LayerTyped
  <2> HIDE DEF d
  <2>4. UNCHANGED <<savepointList, conn>> \/ Become(d)
      BY <1>7 DEF Prepare, d
  <2>5. written' = written /\ history' = history
      BY <1>7 DEF Prepare
  <2>6. TypedDb(db)'
      BY <2>3, <2>4, <2>5, BecomeTyped, ConnTyped
  <2> HIDE DEF Good
  <2> QED
      BY <1>1, <1>5, <2>1, <2>5, <2>6
<1>8. CASE \/ PragmaClean \/ PragmaConfirmed \/ RunPragma \/ Read \/ Fail
           \/ StartNextStatement
  <2>1. /\ script.pc # "off" /\ UNCHANGED <<savepointList, conn, written>>
        /\ \E pc \in ScriptStates \ {"off"}, modified \in BOOLEAN :
               GoTo(pc, script.savepoint_created, modified)
      BY <1>2, <1>8 DEF PragmaClean, PragmaConfirmed, RunPragma, Read, Fail,
         StartNextStatement, ScriptStates
  <2>2. \/ history' = history
        \/ /\ saved' = conn.content /\ unclassed' = unclassed
           /\ ended' = ended
      BY <1>8 DEF PragmaClean, PragmaConfirmed, RunPragma, Read, Fail,
         StartNextStatement
  <2>3. history' \in HistoryType
      BY <1>1, <2>2 DEF history, HistoryType
  <2>4. Good
      BY <1>2, <1>3, <2>1
  <2> HIDE DEF Good
  <2> QED
      BY <1>1, <1>5, <2>1, <2>3, <2>4, ConnTyped
<1>9. CASE PragmaAborted
  <2>1. Good
      BY <1>1, <1>9 DEF PragmaAborted, Off, Script, ScriptType, ScriptStates
  <2> QED
      BY <1>1, <1>5, <1>9, <2>1, ConnTyped DEF PragmaAborted
<1>10. ASSUME NEW refused \in BOOLEAN, CommitFront(refused)
       PROVE  TypeInv'
  <2>1. PICK name : Become(ReleaseSavepoint(db, name, refused))
      BY <1>10 DEF CommitFront
  <2>2. TypedDb(ReleaseSavepoint(db, name, refused))
      BY <1>1, LayerTyped
  <2>3. written' = written /\ history' = history
      BY <1>10 DEF CommitFront
  <2>4. TypedDb(db)'
      BY <2>1, <2>2, <2>3, BecomeTyped
  <2>5. Good
      BY <1>1, <1>2, <1>3, <1>10 DEF CommitFront, ScriptStates
  <2> HIDE DEF Good
  <2> QED
      BY <1>1, <1>5, <2>3, <2>4, <2>5
<1>11. ASSUME NEW refused \in BOOLEAN, CommitDone(refused)
       PROVE  TypeInv'
  <2>1. Good
      BY <1>2, <1>3, <1>11 DEF CommitDone, ScriptStates
  <2> HIDE DEF Good
  <2> QED
      BY <1>1, <1>5, <1>11, <2>1, ConnTyped DEF CommitDone
<1>12. CASE ScriptWrite \/ UnclassedWrite
  <2>1. /\ script.pc = "ready" /\ CanWrite /\ WriteTo(db)
        /\ \E modified \in BOOLEAN :
               GoTo("paused", script.savepoint_created, modified)
      BY <1>2, <1>12 DEF ScriptWrite, UnclassedWrite
  <2>2. TypedDb(db)' /\ written' \in 0..MaxWrites
      BY <1>1, <2>1, BecomeTyped
  <2>3. written + 1 \in Writes
      BY <1>1, <2>1 DEF CanWrite, Writes
  <2>4. history' \in HistoryType
      BY <1>1, <1>12, <2>3
         DEF ScriptWrite, UnclassedWrite, history, HistoryType
  <2>5. Good
      BY <1>2, <1>3, <2>1 DEF ScriptStates
  <2> HIDE DEF Good
  <2> QED
      BY <1>5, <2>2, <2>4, <2>5
<1>13. CASE EndTransaction
  <2>1. /\ script.pc = "ready" /\ UNCHANGED <<savepointList, written>>
        /\ conn' \in {Commit(conn), Rollback(conn)}
        /\ \E pc \in {"paused", "failed"}, modified \in BOOLEAN :
               GoTo(pc, script.savepoint_created, modified)
        /\ saved' = saved /\ unclassed' = unclassed /\ ended' = TRUE
      BY <1>2, <1>13 DEF EndTransaction
  <2>2. history' \in HistoryType
      BY <1>1, <2>1 DEF history, HistoryType
  <2>3. Good
      BY <1>2, <1>3, <2>1 DEF ScriptStates
  <2> HIDE DEF Good
  <2> QED
      BY <1>1, <1>5, <2>1, <2>2, <2>3, ConnTyped
<1>14. ASSUME NEW refused \in BOOLEAN, Cleanup(refused)
       PROVE  TypeInv'
  <2> DEFINE once == ReleaseSavepoint(db, RESTOREPOINT, refused)
             twice == ReleaseSavepoint(once, UNDOPOINT, refused)
  <2>1. TypedDb(once)
      BY <1>1, LayerTyped
  <2> HIDE DEF once
  <2>2. TypedDb(twice)
      BY <2>1, LayerTyped
  <2> HIDE DEF twice
  <2>3. /\ Become(twice) \/ Become(db)
        /\ written' = written /\ history' = history
      BY <1>14 DEF Cleanup, once, twice
  <2>4. TypedDb(db)'
      BY <1>1, <2>2, <2>3, BecomeTyped
  <2>5. Good
    <3>1. CASE script' = Off
        BY <1>1, <3>1 DEF Off, Script, ScriptType, ScriptStates
    <3>2. CASE script' # Off
      <4>1. /\ script.pc \in {"cleanup", "failed"} /\ script.left # 1
            /\ script' = Script("next", script.was_dirty,
                                script.savepoint_created /\ ~Unneeded,
                                script.modified, script.left - 1)
          BY <1>14, <3>2 DEF Cleanup
      <4>2. /\ script.left - 1 \in 0..MaxStatements /\ script.left - 1 # 0
            /\ (script.savepoint_created /\ ~Unneeded) \in BOOLEAN
          BY <1>1, <1>2, <4>1
      <4> QED
          BY <1>2, <4>1, <4>2 DEF Script, ScriptType, ScriptStates
    <3> QED
        BY <3>1, <3>2
  <2> HIDE DEF Good
  <2> QED
      BY <1>1, <1>5, <2>3, <2>4, <2>5
<1> QED
    BY <1>6, <1>7, <1>8, <1>9, <1>10, <1>11, <1>12, <1>13, <1>14
    DEF ScriptNext

\* Every variable has its type, also after a statement of a script has ended
\* the transaction and the list names savepoints that SQLite has not.
THEOREM Typed ==
    Spec => []TypeOK
<1>1. Init => TypeInv
  <2> SUFFICES ASSUME Init PROVE TypeInv
      OBVIOUS
  <2>1. IInv
      BY Begins
  <2>2. script.pc = "off"
      BY DEF Init, Off, Script
  <2>3. TypedDb(db)
      BY <2>1, Now DEF Sound, TypedDb
  <2> QED
      BY <2>1, <2>2, <2>3 DEF IInv, TypeInv
<1>2. TypeInv /\ [Next]_vars => TypeInv'
  <2>1. ASSUME TypeInv, UNCHANGED vars
        PROVE  TypeInv'
      BY <2>1 DEF vars, history, TypeInv, TypedDb, db, Db
  <2> QED
      BY <2>1, UiTyped, ScriptTyped DEF Next
<1>3. TypeInv => TypeOK
    BY DEF TypeInv, TypeOK, TypedDb, db, Db, ConnectionType, ScriptType,
       history, HistoryType
<1> QED
    BY <1>1, <1>2, <1>3, PTL DEF Spec
=============================================================================
