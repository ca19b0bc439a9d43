------------------------- MODULE AlterTableProofs -------------------------
(***************************************************************************)
(* Whatever the names, the changes and the number of attempts: an          *)
(* alterTable that fails leaves the connection as it was, one that is done *)
(* has done everything, and cancelling the dialog takes everything back to *)
(* when it was opened.                                                     *)
(***************************************************************************)
EXTENDS AlterTable, FiniteSetsExt, WellFoundedInduction, SequenceTheorems,
        TLAPS

\* Max picks the greatest element of a set of naturals with an upper bound.
LEMMA GreatestNatural ==
    ASSUME NEW T \in SUBSET Nat, NEW n \in T,
           NEW bound \in Nat, \A k \in T : k <= bound
    PROVE  Max(T) \in T /\ \A k \in T : k <= Max(T)
<1> DEFINE Upper == {b \in Nat : \A k \in T : k <= b}
<1>1. PICK m \in Upper : \A b \in Upper : ~ (<<b, m>> \in OpToRel(<, Nat))
  <2>1. bound \in Upper /\ Upper \in SUBSET Nat
      OBVIOUS
  <2> HIDE DEF Upper
  <2> QED
      BY <2>1, NatLessThanWellFounded, WFMin
<1>2. m \in Upper /\ \A b \in Upper : ~ (b < m)
    BY <1>1 DEF OpToRel
<1>3. m \in T
  <2>1. CASE m = 0
      BY <1>2, <2>1
  <2>2. CASE m # 0
    <3>1. m - 1 \in Nat /\ m - 1 < m
        BY <1>2, <2>2
    <3>2. PICK k \in T : ~ (k <= m - 1)
        BY <1>2, <3>1
    <3>3. k = m
        BY <1>2, <3>1, <3>2
    <3> QED
        BY <3>2, <3>3
  <2> QED
      BY <2>1, <2>2
<1>4. \E x \in T : \A y \in T : x >= y
    BY <1>2, <1>3
<1> QED
    BY <1>4 DEF Max

IsConnection(c) ==
    /\ \E S : c.stack \in Seq(S)
    /\ c = Connection(c.stack, c.content, c.disk)

\* Connection c has the savepoint `name` set on b, and above it only others.
Above(c, b, name) ==
    /\ IsConnection(c)
    /\ c.disk = b.disk
    /\ Len(c.stack) > Len(b.stack)
    /\ \A i \in 1..Len(b.stack) : c.stack[i] = b.stack[i]
    /\ c.stack[Len(b.stack) + 1] = [name |-> name, content |-> b.content]
    /\ \A i \in (Len(b.stack) + 2)..Len(c.stack) : c.stack[i].name # name

Began == Savepoint(opened, EDIT)

Working == {"rename", "add", "column", "update", "create", "copy", "drop",
            "name", "finish"}

\* The inductive invariant.
IInv ==
    /\ IsConnection(opened)
    /\ pc \in Working \cup {"closed", "open", "true", "false", "accepted",
                            "rejected"}
    /\ pc = "closed" => conn = opened
    /\ pc = "open" => conn = Began
    /\ pc = "false" => conn = Began /\ before.conn = Began
    /\ pc \in Working => before.conn = Began /\ Above(conn, Began, RENAME)
    /\ RejectRestores

---------------------------------------------------------------------------
(* The stack of savepoints. *)

\* Setting a savepoint adds one entry.
LEMMA Pushed ==
    ASSUME NEW c, IsConnection(c), NEW name
    PROVE  LET e == Savepoint(c, name)
           IN  /\ IsConnection(e)
               /\ e.disk = c.disk /\ e.content = c.content
               /\ Len(c.stack) \in Nat /\ Len(e.stack) = Len(c.stack) + 1
               /\ \A i \in 1..Len(c.stack) : e.stack[i] = c.stack[i]
               /\ e.stack[Len(c.stack) + 1]
                    = [name |-> name, content |-> c.content]
<1> DEFINE s == c.stack
           entry == [name |-> name, content |-> c.content]
<1>1. PICK S : s \in Seq(S)
    BY DEF IsConnection
<1>2. s \in Seq(S \cup {entry}) /\ entry \in S \cup {entry}
  <2> HIDE DEF s, entry
  <2> QED
      BY <1>1, SeqMonotonic
<1>3. /\ Append(s, entry) \in Seq(S \cup {entry})
      /\ Len(s) \in Nat
      /\ Len(Append(s, entry)) = Len(s) + 1
      /\ \A i \in 1..Len(s) : Append(s, entry)[i] = s[i]
      /\ Append(s, entry)[Len(s) + 1] = entry
  <2> HIDE DEF s, entry
  <2> QED
      BY <1>2, AppendProperties, LenProperties
<1>4. Savepoint(c, name) = Connection(Append(s, entry), c.content, c.disk)
    BY DEF Savepoint
<1> QED
    BY <1>3, <1>4 DEF Connection, IsConnection

\* A savepoint is the innermost one of its name when it is set.
LEMMA SavepointAbove ==
    ASSUME NEW b, IsConnection(b), NEW name
    PROVE  Above(Savepoint(b, name), b, name)
<1> DEFINE e == Savepoint(b, name)
<1>1. /\ IsConnection(e)
      /\ e.disk = b.disk
      /\ Len(b.stack) \in Nat /\ Len(e.stack) = Len(b.stack) + 1
      /\ \A i \in 1..Len(b.stack) : e.stack[i] = b.stack[i]
      /\ e.stack[Len(b.stack) + 1] = [name |-> name, content |-> b.content]
    BY Pushed
<1> HIDE DEF e
<1>2. Above(e, b, name)
    BY <1>1 DEF Above
<1> QED
    BY <1>2 DEF e

\* It stays so when another one is set.
LEMMA OtherAbove ==
    ASSUME NEW b, IsConnection(b), NEW c, NEW name, Above(c, b, name),
           NEW other, other # name
    PROVE  Above(Savepoint(c, other), b, name)
<1> DEFINE e == Savepoint(c, other)
<1>1. IsConnection(c)
    BY DEF Above
<1>2. /\ IsConnection(e)
      /\ e.disk = c.disk
      /\ Len(c.stack) \in Nat /\ Len(e.stack) = Len(c.stack) + 1
      /\ \A i \in 1..Len(c.stack) : e.stack[i] = c.stack[i]
      /\ e.stack[Len(c.stack) + 1] = [name |-> other, content |-> c.content]
    BY <1>1, Pushed
<1>3. Len(b.stack) \in Nat
    BY Pushed
<1> HIDE DEF e
<1>4. \A i \in (Len(b.stack) + 2)..Len(e.stack) : e.stack[i].name # name
  <2>1. \A i \in (Len(b.stack) + 2)..Len(e.stack) :
           \/ i \in (Len(b.stack) + 2)..Len(c.stack)
           \/ i = Len(c.stack) + 1
      BY <1>2, <1>3
  <2>2. \A i \in (Len(b.stack) + 2)..Len(c.stack) :
           i \in 1..Len(c.stack) /\ c.stack[i].name # name
      BY <1>2, <1>3 DEF Above
  <2> QED
      BY <1>2, <2>1, <2>2
<1>5. e.stack[Len(b.stack) + 1] = [name |-> name, content |-> b.content]
    BY <1>2, <1>3 DEF Above
<1>6. \A i \in 1..Len(b.stack) : e.stack[i] = b.stack[i]
    BY <1>2, <1>3 DEF Above
<1>7. Above(e, b, name)
    BY <1>2, <1>3, <1>4, <1>5, <1>6 DEF Above
<1> QED
    BY <1>7 DEF e

\* It is the one that its name means, and below it is the stack it was set on.
LEMMA FoundAbove ==
    ASSUME NEW b, IsConnection(b), NEW c, NEW name, Above(c, b, name)
    PROVE  /\ Len(b.stack) \in Nat
           /\ Innermost(c, name) = Len(b.stack) + 1
           /\ SubSeq(c.stack, 1, Len(b.stack)) = b.stack
<1> DEFINE s == c.stack
           n == Len(b.stack)
           I == {i \in 1..Len(s) : s[i].name = name}
<1>1. PICK S : s \in Seq(S)
    BY DEF Above, IsConnection
<1>2. PICK T : b.stack \in Seq(T)
    BY DEF IsConnection
<1>3. Len(s) \in Nat /\ n \in Nat /\ Len(s) > n
    BY <1>1, <1>2, LenProperties DEF Above
<1>4. /\ \A i \in 1..n : s[i] = b.stack[i]
      /\ s[n + 1] = [name |-> name, content |-> b.content]
      /\ \A i \in (n + 2)..Len(s) : s[i].name # name
    BY DEF Above
<1>5. n + 1 \in I /\ I \in SUBSET Nat /\ \A i \in I : i <= n + 1
  <2> HIDE DEF s, n
  <2>1. n + 1 \in 1..Len(s) /\ s[n + 1].name = name
      BY <1>3, <1>4
  <2>2. \A i \in 1..Len(s) : i > n + 1 => i \in (n + 2)..Len(s)
      BY <1>3
  <2> QED
      BY <1>3, <1>4, <2>1, <2>2
<1>6. Max(I) = n + 1
  <2> HIDE DEF I, n
  <2>1. n + 1 \in Nat
      BY <1>3
  <2>2. Max(I) \in I /\ \A i \in I : i <= Max(I)
      BY <1>5, <2>1, GreatestNatural
  <2>3. Max(I) \in Nat /\ Max(I) <= n + 1 /\ n + 1 <= Max(I)
      BY <1>5, <2>2
  <2> QED
      BY <1>3, <2>3
<1>7. Innermost(c, name) = n + 1
  <2>1. Innermost(c, name) = IF I # {} THEN Max(I) ELSE 0
      BY DEF Innermost, SelectLastInSeq
  <2> HIDE DEF I, n
  <2> QED
      BY <1>5, <1>6, <2>1
<1>8. SubSeq(s, 1, n) = b.stack
  <2> DEFINE t == b.stack
             U == SubSeq(s, 1, n)
  <2> HIDE DEF s, t
  <2>1. t \in Seq(T) /\ n = Len(t)
      BY <1>2 DEF t
  <2>2. \A i \in 1..n : s[i] = t[i] /\ t[i] \in T
      BY <1>4, <2>1, ElementOfSeq DEF t
  <2> HIDE DEF n
  <2>3. \A i \in 1..n : s[i] \in T
      BY <2>2
  <2>4. /\ U \in Seq(T)
        /\ Len(U) = IF 1 <= n THEN n - 1 + 1 ELSE 0
        /\ \A i \in 1..n - 1 + 1 : U[i] = s[1 + i - 1]
      BY <1>3, <2>3, SubSeqProperties
  <2> HIDE DEF U
  <2>5. Len(U) = n /\ \A i \in 1..n : U[i] = s[i]
      BY <1>3, <2>4
  <2>6. U = t
      BY <2>1, <2>2, <2>4, <2>5, SeqEqual
  <2> QED
      BY <2>6 DEF U, t
<1> QED
    BY <1>3, <1>7, <1>8

\* Rolling back to savepoint k cuts the stack below it and brings back its
\* content.
LEMMA RollbackTo ==
    ASSUME NEW c, NEW name, NEW k \in Nat, k # 0, Innermost(c, name) = k
    PROVE  RollbackAndRelease(c, name)
             = Connection(SubSeq(c.stack, 1, k - 1), c.stack[k].content,
                          c.disk)
BY DEF RollbackAndRelease

\* Releasing a savepoint that is not the oldest cuts the stack and keeps the
\* content.
LEMMA ReleaseOf ==
    ASSUME NEW c, NEW name, NEW k \in Nat, k > 1, Innermost(c, name) = k
    PROVE  Release(c, name)
             = Connection(SubSeq(c.stack, 1, k - 1), c.content, c.disk)
BY DEF Release

\* Reverting to it brings back all of the connection.
LEMMA RevertsTo ==
    ASSUME NEW b, IsConnection(b), NEW c, NEW name, Above(c, b, name)
    PROVE  RollbackAndRelease(c, name) = b
<1> DEFINE n == Len(b.stack)
<1>1. n \in Nat /\ Innermost(c, name) = n + 1 /\ SubSeq(c.stack, 1, n) = b.stack
    BY FoundAbove
<1>2. c.stack[n + 1].content = b.content /\ c.disk = b.disk
    BY DEF Above
<1>3. b = Connection(b.stack, b.content, b.disk)
    BY DEF IsConnection
<1> HIDE DEF n
<1>4. ASSUME NEW k, k = n + 1
      PROVE  RollbackAndRelease(c, name)
               = Connection(SubSeq(c.stack, 1, n), c.stack[k].content, c.disk)
  <2>1. k \in Nat /\ k # 0 /\ k - 1 = n
      BY <1>1, <1>4
  <2>2. RollbackAndRelease(c, name)
          = Connection(SubSeq(c.stack, 1, k - 1), c.stack[k].content, c.disk)
      BY <1>1, <1>4, <2>1, RollbackTo
  <2> QED
      BY <2>1, <2>2
<1> QED
    BY <1>1, <1>2, <1>3, <1>4

\* Releasing it, where it is not the outermost one, keeps the content.
LEMMA ReleasesTo ==
    ASSUME NEW b, IsConnection(b), NEW c, NEW name, Above(c, b, name),
           Len(b.stack) > 0
    PROVE  Release(c, name) = Connection(b.stack, c.content, b.disk)
<1> DEFINE n == Len(b.stack)
<1>1. n \in Nat /\ Innermost(c, name) = n + 1 /\ SubSeq(c.stack, 1, n) = b.stack
    BY FoundAbove
<1>2. c.disk = b.disk
    BY DEF Above
<1>3. n > 0
    OBVIOUS
<1> HIDE DEF n
<1>4. ASSUME NEW k, k = n + 1
      PROVE  Release(c, name)
               = Connection(SubSeq(c.stack, 1, n), c.content, c.disk)
  <2>1. k \in Nat /\ k > 1 /\ k - 1 = n
      BY <1>1, <1>3, <1>4
  <2>2. Release(c, name)
          = Connection(SubSeq(c.stack, 1, k - 1), c.content, c.disk)
      BY <1>1, <1>4, <2>1, ReleaseOf
  <2> QED
      BY <2>1, <2>2
<1> QED
    BY <1>1, <1>2, <1>4

---------------------------------------------------------------------------
(* The actions. *)

\* The two savepoints of the program have different names.
LEMMA NamesDiffer == RENAME # RESTOREPOINT
BY DEF RENAME, RESTOREPOINT

\* The dialog begins on a connection.
LEMMA BeganIsConnection ==
    ASSUME IsConnection(opened)
    PROVE  IsConnection(Began)
BY Pushed DEF Began

\* A change of the content leaves the savepoints as they are.
LEMMA ContentAbove ==
    ASSUME NEW b, NEW c, NEW name, Above(c, b, name), NEW content
    PROVE  Above([c EXCEPT !.content = content], b, name)
<1>1. [c EXCEPT !.content = content]
        = Connection(c.stack, content, c.disk)
    BY DEF Above, IsConnection, Connection
<1>2. ASSUME NEW e, e = Connection(c.stack, content, c.disk)
      PROVE  Above(e, b, name)
  <2>1. e.stack = c.stack /\ e.content = content /\ e.disk = c.disk
      BY <1>2 DEF Connection
  <2> QED
      BY <1>2, <2>1 DEF Above, IsConnection
<1> QED
    BY <1>1, <1>2

\* So does the savepoint that a statement of the program sets before it.
LEMMA DirtiedAbove ==
    ASSUME IsConnection(opened), Above(conn, Began, RENAME)
    PROVE  Above(Dirtied, Began, RENAME)
<1>1. Above(Savepoint(conn, RESTOREPOINT), Began, RENAME)
    BY BeganIsConnection, OtherAbove, NamesDiffer
<1> QED
    BY <1>1 DEF Dirtied

\* The invariant holds before anything was done.
LEMMA InitIInv == Init => IInv
<1> SUFFICES ASSUME Init PROVE IInv
    OBVIOUS
<1>1. PICK stack \in {<< >>, << [name |-> RESTOREPOINT,
                                 content |-> Initial] >>} :
        conn = Connection(stack, Initial, Initial)
    BY DEF Init
<1>2. \E S : stack \in Seq(S)
  <2>1. CASE stack = << >>
    <3>1. stack \in Seq({})
        BY <2>1
    <3> QED
        BY <3>1
  <2>2. CASE stack # << >>
    <3> DEFINE entry == [name |-> RESTOREPOINT, content |-> Initial]
    <3>1. stack = << entry >>
        BY <2>2, <1>1
    <3> HIDE DEF entry
    <3>2. stack \in Seq({entry})
        BY <3>1
    <3> QED
        BY <3>2
  <2> QED
      BY <2>1, <2>2
<1>3. IsConnection(conn)
    BY <1>1, <1>2 DEF IsConnection, Connection
<1> QED
    BY <1>3 DEF Init, IInv, RejectRestores, Working

\* A statement of alterTable, done or taken back
LEMMA StatementStep ==
    ASSUME IInv, pc \in Working, opened' = opened, before' = before,
           NEW content, NEW next \in Working,
           Succeed(content, next) \/ Fail
    PROVE  IInv'
<1>1. /\ IsConnection(opened)
      /\ before.conn = Began /\ Above(conn, Began, RENAME)
    BY DEF IInv
<1>2. Above(Dirtied, Began, RENAME)
    BY <1>1, DirtiedAbove
<1>3. IsConnection(opened)' /\ Began' = Began
    BY <1>1 DEF Began, IsConnection
<1>4. CASE Succeed(content, next)
  <2>1. Above(conn', Began, RENAME) /\ pc' \in Working
      BY <1>2, <1>4, ContentAbove DEF Succeed
  <2> QED
      BY <1>1, <1>3, <2>1 DEF IInv, RejectRestores, Working
<1>5. CASE Fail
  <2>1. conn' = Began /\ pc' = "false"
      BY <1>1, <1>2, <1>5, BeganIsConnection, RevertsTo DEF Fail
  <2> QED
      BY <1>1, <1>3, <2>1 DEF IInv, RejectRestores, Working
<1> QED
    BY <1>4, <1>5

\* A part that is skipped, or a step that ends alterTable
LEMMA OtherStep ==
    ASSUME IInv, pc \in Working, opened' = opened, before' = before,
           \/ pc' \in Working /\ conn' = conn
           \/ pc' = "true"
    PROVE  IInv'
<1>1. /\ IsConnection(opened)
      /\ before.conn = Began /\ Above(conn, Began, RENAME)
    BY DEF IInv
<1>2. IsConnection(opened)' /\ Began' = Began
    BY <1>1 DEF Began, IsConnection
<1> QED
    BY <1>1, <1>2 DEF IInv, RejectRestores, Working

\* Every step of the dialog and of alterTable keeps the invariant.
LEMMA StepPreserves == IInv /\ [Next]_vars => IInv'
<1> SUFFICES ASSUME IInv, [Next]_vars PROVE IInv'
    OBVIOUS
<1> USE DEF call
<1>1. CASE OpenDialog
    BY <1>1 DEF OpenDialog, IInv, IsConnection, Began, RejectRestores,
       Working
<1>2. ASSUME NEW w \in Wants, Accept(w) PROVE IInv'
  <2>1. /\ IsConnection(opened) /\ conn = Began /\ pc = "open"
      BY <1>2 DEF Accept, IInv, Working
  <2>2. /\ opened' = opened /\ before'.conn = conn
        /\ IsConnection(opened)' /\ Began' = Began
      BY <1>2, <2>1 DEF Accept, Call, Began, IsConnection
  <2>3. CASE BeginAlter(w)
    <3>1. Above(conn', Began, RENAME) /\ pc' = "rename"
        BY <2>1, <2>3, BeganIsConnection, SavepointAbove DEF BeginAlter
    <3> QED
        BY <2>1, <2>2, <3>1 DEF IInv, RejectRestores, Working
  <2>4. CASE Refuse(w) \/ NothingToDo(w)
    <3>1. conn' = conn /\ pc' \in {"true", "false"}
        BY <2>4 DEF Refuse, NothingToDo
    <3> QED
        BY <2>1, <2>2, <3>1 DEF IInv, RejectRestores, Working
  <2> QED
      BY <1>2, <2>3, <2>4 DEF Accept
<1>3. CASE Returned
    BY <1>3 DEF Returned, IInv, IsConnection, Began, RejectRestores, Working
<1>4. CASE RejectDialog
  <2>1. IsConnection(opened) /\ conn = Savepoint(opened, EDIT)
      BY <1>4 DEF RejectDialog, IInv, Began, Working
  <2>2. conn' = opened /\ schema' = Known(conn'.content)
      BY <1>4, <2>1, SavepointAbove, RevertsTo DEF RejectDialog
  <2>3. opened' = opened /\ before' = before /\ pc' = "rejected"
      BY <1>4 DEF RejectDialog
  <2>4. RejectRestores'
      BY <2>2, <2>3 DEF RejectRestores, Known
  <2> QED
      BY <2>1, <2>3, <2>4 DEF IInv, IsConnection, Working
<1> USE DEF Statement, Skip
<1>5. CASE RenameTable
  <2>1. /\ pc \in Working /\ opened' = opened /\ before' = before
        /\ \/ Succeed(Renamed(conn.content, "old", "new"), "add") \/ Fail
           \/ pc' = "add" /\ conn' = conn
      BY <1>5 DEF RenameTable, Working
  <2> QED
      BY <2>1, StatementStep, OtherStep DEF Working
<1>6. CASE AddColumn
  <2>1. /\ pc \in Working /\ opened' = opened /\ before' = before
        /\ \/ Succeed(WithChange("add"), "column") \/ Fail
           \/ pc' = "column" /\ conn' = conn
      BY <1>6 DEF AddColumn, Working
  <2> QED
      BY <2>1, StatementStep, OtherStep DEF Working
<1>7. CASE RenameColumn
  <2>1. /\ pc \in Working /\ opened' = opened /\ before' = before
        /\ \/ Succeed(WithChange("column"), "update") \/ Fail
           \/ pc' = "update" /\ conn' = conn
      BY <1>7 DEF RenameColumn, Working
  <2> QED
      BY <2>1, StatementStep, OtherStep DEF Working
<1>8. CASE UpdateSchema
  <2>1. /\ pc \in Working /\ opened' = opened /\ before' = before
        /\ pc' = "true" \/ (pc' = "create" /\ conn' = conn)
      BY <1>8 DEF UpdateSchema, Released, Working
  <2> QED
      BY <2>1, OtherStep DEF Working
<1>9. CASE CreateTable
  <2>1. /\ pc \in Working /\ opened' = opened /\ before' = before
        /\ \/ Succeed(With(conn.content, "temp", Table(want.layout, FALSE)),
                      "copy")
           \/ Fail
      BY <1>9 DEF CreateTable, Working
  <2> QED
      BY <2>1, StatementStep DEF Working
<1>10. CASE CopyData
  <2>1. /\ pc \in Working /\ opened' = opened /\ before' = before
        /\ \/ Succeed([conn.content EXCEPT
                  !["temp"].rows = conn.content[Here].rows], "drop")
           \/ Fail
      BY <1>10 DEF CopyData, Working
  <2> QED
      BY <2>1, StatementStep DEF Working
<1>11. CASE DropTable
  <2>1. /\ pc \in Working /\ opened' = opened /\ before' = before
        /\ Succeed(Without(conn.content, Here), "name") \/ Fail
      BY <1>11 DEF DropTable, Working
  <2> QED
      BY <2>1, StatementStep DEF Working
<1>12. CASE NameTable
  <2>1. /\ pc \in Working /\ opened' = opened /\ before' = before
        /\ \/ Succeed(Renamed(conn.content, "temp", want.name), "finish")
           \/ Fail
      BY <1>12 DEF NameTable, Working
  <2> QED
      BY <2>1, StatementStep DEF Working
<1>13. CASE Finish
  <2>1. /\ pc \in Working /\ opened' = opened /\ before' = before
        /\ pc' = "true"
      BY <1>13 DEF Finish, Released, Working
  <2> QED
      BY <2>1, OtherStep
<1>14. CASE UNCHANGED vars
    BY <1>14 DEF vars, IInv, IsConnection, Above, Began, RejectRestores
<1> QED
    BY <1>1, <1>2, <1>3, <1>4, <1>5, <1>6, <1>7, <1>8, <1>9, <1>10, <1>11,
       <1>12, <1>13, <1>14 DEF Next

---------------------------------------------------------------------------
(* What a table looks like at each statement. *)

TableType == [layout : SUBSET Changes, rows : BOOLEAN]

ContentTyped(content) ==
    /\ DOMAIN content \in {{n} : n \in {"old", "new", "moved", "temp"}}
           \cup {{n, "temp"} : n \in {"old", "new"}}
    /\ \A n \in DOMAIN content : content[n] \in TableType

\* The dialog opens on the table as the file has it, with RESTOREPOINT set or
\* with no savepoint.
Opened ==
    /\ opened.content = Initial
    /\ \/ opened.stack = << >>
       \/ /\ Len(opened.stack) = 1
          /\ opened.stack[1].name = RESTOREPOINT

Wanted ==
    /\ want \in [name : Names \cup {"old"}, layout : SUBSET Changes]
    /\ pc \in Working => want \in Wants

\* What the statements so far have made of the table.
Content ==
    LET partly == want.layout \cap {"add", "column"}
    IN  /\ pc = "rename" => conn.content = Initial
        /\ pc = "add" => conn.content = Only(Here, Table({}, TRUE))
        /\ pc = "column" =>
               conn.content = Only(Here, Table(want.layout \cap {"add"}, TRUE))
        /\ pc \in {"update", "create"} =>
               conn.content = Only(Here, Table(partly, TRUE))
        /\ pc = "copy" =>
               conn.content = With(Only(Here, Table(partly, TRUE)), "temp",
                                   Table(want.layout, FALSE))
        /\ pc = "drop" =>
               conn.content = With(Only(Here, Table(partly, TRUE)), "temp",
                                   Table(want.layout, TRUE))
        /\ pc = "name" =>
               conn.content = Only("temp", Table(want.layout, TRUE))
        /\ pc = "finish" =>
               conn.content = Only(want.name, Table(want.layout, TRUE))

\* Foreign keys are deferred only from the drop on.
Deferral ==
    /\ deferred \in BOOLEAN
    /\ pc \in Working => before.deferred \in BOOLEAN
    /\ pc \in {"rename", "add", "column", "update", "create", "copy", "drop"} =>
           (deferred <=> before.deferred)

\* A third savepoint is there with a RESTOREPOINT only, so no fourth is set.
Deep(c) == Len(c.stack) = 3 => Innermost(c, RESTOREPOINT) # 0

Depth ==
    /\ Len(conn.stack) <= 3
    /\ pc \in Working => Deep(conn)

SchemaTyped ==
    /\ DOMAIN schema \subseteq {"old", "new", "moved"}
    /\ \A n \in DOMAIN schema : schema[n] \in SUBSET Changes

Shape == Opened /\ Wanted /\ Content /\ Deferral /\ Depth

---------------------------------------------------------------------------
(* The content of the database. *)

\* The new table gets the rows of the old one.
LEMMA CopiedRows ==
    ASSUME NEW h, h # "temp", NEW t, NEW W, NEW none,
           NEW x, x = With(Only(h, t), "temp", Table(W, none))
    PROVE  [x EXCEPT !["temp"].rows = x[h].rows]
             = With(Only(h, t), "temp", Table(W, t.rows))
<1> DEFINE y == With(Only(h, t), "temp", Table(W, t.rows))
<1>1. x = [n \in {h, "temp"} |-> IF n = "temp" THEN Table(W, none) ELSE t]
    BY DEF With, Only
<1>2. y = [n \in {h, "temp"} |-> IF n = "temp" THEN Table(W, t.rows) ELSE t]
    BY DEF With, Only
<1>3. [Table(W, none) EXCEPT !.rows = t.rows] = Table(W, t.rows)
    BY DEF Table
<1>4. x[h].rows = t.rows /\ x["temp"] = Table(W, none)
    BY <1>1
<1>5. [x EXCEPT !["temp"].rows = x[h].rows]
        = [x EXCEPT !["temp"] = [x["temp"] EXCEPT !.rows = x[h].rows]]
    OBVIOUS
<1>6. [x EXCEPT !["temp"].rows = x[h].rows]
        = [x EXCEPT !["temp"] = Table(W, t.rows)]
    BY <1>3, <1>4, <1>5, Zenon
<1>7. [x EXCEPT !["temp"] = Table(W, t.rows)] = y
  <2> HIDE DEF y
  <2> QED
      BY <1>1, <1>2
<1> QED
    BY <1>6, <1>7

\* Without the old table only the new one is there.
LEMMA WithoutOne ==
    ASSUME NEW h, h # "temp", NEW t, NEW u,
           NEW x, x = With(Only(h, t), "temp", u)
    PROVE  Without(x, h) = Only("temp", u)
BY DEF With, Only, Without, Restrict

\* One table alone is a content ...
LEMMA OnlyTyped ==
    ASSUME NEW n \in {"old", "new", "moved", "temp"}, NEW t \in TableType
    PROVE  ContentTyped(Only(n, t))
BY DEF ContentTyped, Only

\* ... and so is one table beside the new one.
LEMMA WithTyped ==
    ASSUME NEW n \in {"old", "new"}, NEW t \in TableType, NEW u \in TableType
    PROVE  ContentTyped(With(Only(n, t), "temp", u))
<1> DEFINE x == With(Only(n, t), "temp", u)
<1>1. x = [k \in {n, "temp"} |-> IF k = "temp" THEN u ELSE t]
    BY DEF With, Only
<1>2. DOMAIN x = {n, "temp"} /\ \A k \in DOMAIN x : x[k] \in TableType
    BY <1>1
<1> HIDE DEF x
<1>3. ContentTyped(x)
    BY <1>2 DEF ContentTyped
<1> QED
    BY <1>3 DEF x

\* The table that is altered has its old name or its new one.
LEMMA HereNames == Here \in {"old", "new"}
BY DEF Here

\* Every set of changes is a layout.
LEMMA LayoutTyped ==
    ASSUME NEW L \in SUBSET Changes, NEW r \in BOOLEAN
    PROVE  Table(L, r) \in TableType
BY DEF Table, TableType

\* The database begins with a content.
LEMMA InitialTyped == ContentTyped(Initial)
<1>1. Table({}, TRUE) \in TableType
    BY LayoutTyped
<1> QED
    BY <1>1, OnlyTyped DEF Initial

\* At every statement the content is of its type.
LEMMA WorkingTyped ==
    ASSUME Wanted, Content, pc \in Working
    PROVE  ContentTyped(conn.content)
<1> DEFINE L == want.layout
           partly == L \cap {"add", "column"}
<1>1. /\ L \in SUBSET Changes /\ partly \in SUBSET Changes
      /\ L \cap {"add"} \in SUBSET Changes /\ {} \in SUBSET Changes
      /\ want.name \in {"old", "new", "moved"}
    BY NamesAssumption DEF Wanted, Wants
<1>2. /\ Table(L, TRUE) \in TableType /\ Table(L, FALSE) \in TableType
      /\ Table(partly, TRUE) \in TableType
      /\ Table(L \cap {"add"}, TRUE) \in TableType
      /\ Table({}, TRUE) \in TableType
    BY <1>1, LayoutTyped
<1>3. Here \in {"old", "new"}
    BY HereNames
<1>4. CASE pc = "rename"
    BY <1>4, InitialTyped DEF Content
<1>5. CASE pc \in {"add", "column", "update", "create"}
    BY <1>2, <1>3, <1>5, OnlyTyped DEF Content
<1>6. CASE pc \in {"copy", "drop"}
    BY <1>2, <1>3, <1>6, WithTyped DEF Content
<1>7. CASE pc \in {"name", "finish"}
    BY <1>1, <1>2, <1>7, OnlyTyped DEF Content
<1> QED
    BY <1>4, <1>5, <1>6, <1>7 DEF Working

---------------------------------------------------------------------------
(* The steps, and what they make of the table. *)

\* A name on the stack is found.
LEMMA NameFound ==
    ASSUME NEW c, Len(c.stack) \in Nat, NEW i \in 1..Len(c.stack), NEW name,
           c.stack[i].name = name
    PROVE  Innermost(c, name) # 0
<1> DEFINE n == Len(c.stack)
           I == {j \in 1..n : c.stack[j].name = name}
<1>1. Innermost(c, name) = IF I # {} THEN Max(I) ELSE 0
    BY DEF Innermost, SelectLastInSeq
<1>2. i \in I /\ I \in SUBSET (1..n) /\ n \in Nat
    OBVIOUS
<1> HIDE DEF I, n
<1>3. I \in SUBSET Nat /\ \A j \in I : j <= n
    BY <1>2
<1>4. Max(I) \in I
    BY <1>2, <1>3, GreatestNatural
<1>5. Max(I) \in 1..n
    BY <1>2, <1>4, Zenon
<1>6. Max(I) # 0
    BY <1>2, <1>5
<1> QED
    BY <1>1, <1>2, <1>6

\* A savepoint is set on top of the others and remembers the content.
LEMMA PushedOn ==
    ASSUME NEW c, IsConnection(c), NEW name, NEW e, e = Savepoint(c, name)
    PROVE  /\ IsConnection(e)
           /\ e.disk = c.disk /\ e.content = c.content
           /\ Len(c.stack) \in Nat /\ Len(e.stack) = Len(c.stack) + 1
           /\ \A i \in 1..Len(c.stack) : e.stack[i] = c.stack[i]
           /\ e.stack[Len(c.stack) + 1]
                = [name |-> name, content |-> c.content]
<1> DEFINE d == Savepoint(c, name)
<1>1. /\ IsConnection(d)
      /\ d.disk = c.disk /\ d.content = c.content
      /\ Len(c.stack) \in Nat /\ Len(d.stack) = Len(c.stack) + 1
      /\ \A i \in 1..Len(c.stack) : d.stack[i] = c.stack[i]
      /\ d.stack[Len(c.stack) + 1] = [name |-> name, content |-> c.content]
    BY Pushed
<1>2. d = e
    OBVIOUS
<1> HIDE DEF d
<1> QED
    BY <1>1, <1>2

\* Depth is a matter of the stack alone.
LEMMA SameStack ==
    ASSUME NEW c, NEW e, c.stack = e.stack, Deep(e)
    PROVE  Deep(c)
BY DEF Deep, Innermost

\* The connection when the dialog is open, and when alterTable begins.
LEMMA BeganShape ==
    ASSUME IsConnection(opened), Opened
    PROVE  /\ Len(Began.stack) \in 1..2 /\ Len(Began.stack) <= 3
           /\ Len(opened.stack) <= 3
           /\ Began.content = Initial
           /\ Len(Savepoint(Began, RENAME).stack) <= 3
           /\ Savepoint(Began, RENAME).content = Initial
           /\ Deep(Savepoint(Began, RENAME))
<1> DEFINE d == Began
           e == Savepoint(d, RENAME)
           n == Len(opened.stack)
<1>0. d = Savepoint(opened, EDIT)
    BY DEF Began
<1> HIDE DEF d
<1>1. /\ IsConnection(d)
      /\ d.disk = opened.disk /\ d.content = opened.content
      /\ Len(opened.stack) \in Nat /\ Len(d.stack) = Len(opened.stack) + 1
      /\ \A i \in 1..Len(opened.stack) : d.stack[i] = opened.stack[i]
      /\ d.stack[Len(opened.stack) + 1]
           = [name |-> EDIT, content |-> opened.content]
    BY <1>0, PushedOn
<1>2. /\ IsConnection(e)
      /\ e.disk = d.disk /\ e.content = d.content
      /\ Len(d.stack) \in Nat /\ Len(e.stack) = Len(d.stack) + 1
      /\ \A i \in 1..Len(d.stack) : e.stack[i] = d.stack[i]
      /\ e.stack[Len(d.stack) + 1] = [name |-> RENAME, content |-> d.content]
    BY <1>1, Pushed
<1> HIDE DEF e
<1>3. n \in 0..1
    BY EmptySeq DEF Opened
<1>4. /\ Len(d.stack) \in 1..2 /\ Len(d.stack) <= 3 /\ n <= 3
      /\ Len(e.stack) <= 3
      /\ Len(e.stack) = 3 => n = 1
  <2> DEFINE p == Len(d.stack)
             q == Len(e.stack)
  <2>1. n \in Nat /\ p = n + 1 /\ q = p + 1
      BY <1>1, <1>2
  <2> HIDE DEF n, p, q
  <2>2. p \in 1..2 /\ p <= 3 /\ n <= 3 /\ q <= 3 /\ (q = 3 => n = 1)
      BY <1>3, <2>1
  <2> QED
      BY <2>2 DEF p, q
<1>5. ASSUME Len(e.stack) = 3 PROVE Innermost(e, RESTOREPOINT) # 0
  <2>1. n = 1
      BY <1>5, <1>4
  <2>2. opened.stack[1].name = RESTOREPOINT
      BY <2>1, EmptySeq DEF Opened
  <2>3. e.stack[1] = opened.stack[1]
      BY <1>1, <1>2, <2>1
  <2>4. 1 \in 1..Len(e.stack) /\ Len(e.stack) \in Nat
      BY <1>5
  <2> QED
      BY <2>2, <2>3, <2>4, NameFound
<1>6. Deep(e)
    BY <1>5 DEF Deep
<1>7. d.content = Initial /\ e.content = Initial
    BY <1>1, <1>2 DEF Opened
<1> QED
    BY <1>6, <1>4, <1>7 DEF d, e

\* A statement that succeeds makes the content, on a stack no deeper than it
\* may be.
LEMMA SucceedStep ==
    ASSUME IInv, Shape, pc \in Working, NEW content, NEW next,
           Succeed(content, next)
    PROVE  /\ conn'.content = content /\ pc' = next
           /\ Len(conn'.stack) <= 3 /\ Deep(conn')
<1>1. IsConnection(conn)
    BY DEF IInv, Above
<1>2. Len(conn.stack) \in Nat /\ Len(conn.stack) <= 3 /\ Deep(conn)
    BY <1>1, Pushed DEF Shape, Depth
<1>3. /\ IsConnection(Dirtied) /\ Len(Dirtied.stack) <= 3
      /\ Deep(Dirtied)
  <2>1. CASE Innermost(conn, RESTOREPOINT) = 0
    <3> DEFINE e == Savepoint(conn, RESTOREPOINT)
               n == Len(conn.stack)
    <3>1. Dirtied = e
        BY <2>1 DEF Dirtied
    <3>2. IsConnection(e) /\ Len(e.stack) = n + 1
        BY <1>1, PushedOn
    <3>3. n # 3 /\ n \in Nat /\ n <= 3
        BY <1>2, <2>1 DEF Deep
    <3>4. Innermost(e, RESTOREPOINT) = n + 1
        BY <1>1, SavepointAbove, FoundAbove
    <3> HIDE DEF e, n
    <3>5. Innermost(e, RESTOREPOINT) # 0 /\ Len(e.stack) <= 3
        BY <3>2, <3>3, <3>4
    <3> QED
        BY <3>1, <3>2, <3>5 DEF Deep
  <2>2. CASE Innermost(conn, RESTOREPOINT) # 0
      BY <1>1, <1>2, <2>2 DEF Dirtied
  <2> QED
      BY <2>1, <2>2
<1>4. conn' = [Dirtied EXCEPT !.content = content] /\ pc' = next
    BY DEF Succeed
<1>5. conn' = Connection(Dirtied.stack, content, Dirtied.disk)
    BY <1>3, <1>4 DEF IsConnection, Connection
<1>6. conn'.stack = Dirtied.stack /\ conn'.content = content
    BY <1>5 DEF Connection
<1>7. Deep(conn')
    BY <1>3, <1>6, SameStack
<1> QED
    BY <1>3, <1>4, <1>6, <1>7

\* A statement that fails leads back to where the dialog began.
LEMMA FailStep ==
    ASSUME IInv, Shape, pc \in Working, Fail
    PROVE  conn' = Began /\ pc' = "false"
<1>1. /\ IsConnection(opened) /\ Above(conn, Began, RENAME)
    BY DEF IInv
<1> QED
    BY <1>1, DirtiedAbove, BeganIsConnection, RevertsTo DEF Fail

\* The release at the end keeps the content and the savepoints from before.
LEMMA ReleasedStep ==
    ASSUME IInv, Shape, pc \in Working, Released
    PROVE  /\ conn'.stack = Began.stack /\ conn'.content = conn.content
           /\ pc' = "true"
<1>1. /\ IsConnection(opened) /\ Above(conn, Began, RENAME)
    BY DEF IInv
<1>2. Len(Began.stack) \in 1..2
    BY <1>1, BeganShape DEF Shape
<1>3. conn' = Connection(Began.stack, conn.content, Began.disk)
    BY <1>1, <1>2, BeganIsConnection, ReleasesTo DEF Released
<1> QED
    BY <1>3 DEF Connection, Released

\* The statement that is run, or skipped, makes the content of the next one.
LEMMA RenameContent ==
    ASSUME Content, pc = "rename"
    PROVE  /\ want.name = "new" => Renamed(conn.content, "old", "new")
                                     = Only(Here, Table({}, TRUE))
           /\ want.name # "new" => conn.content = Only(Here, Table({}, TRUE))
<1>1. conn.content = Only("old", Table({}, TRUE))
    BY DEF Content, Initial
<1>2. Renamed(conn.content, "old", "new") = Only("new", Table({}, TRUE))
    BY <1>1 DEF Renamed, Without, With, Only, Restrict
<1> QED
    BY <1>1, <1>2 DEF Here

\* What a table is like after the column was added, or when none is to be ...
LEMMA AddContent ==
    ASSUME Content, pc = "add"
    PROVE  LET next == Only(Here, Table(want.layout \cap {"add"}, TRUE))
           IN  /\ "add" \in want.layout => WithChange("add") = next
               /\ "add" \notin want.layout => conn.content = next
<1>1. conn.content = Only(Here, Table({}, TRUE))
    BY DEF Content
<1>2. WithChange("add") = Only(Here, Table({} \cup {"add"}, TRUE))
  <2>1. ASSUME NEW x, NEW h, x = conn.content, h = Here
        PROVE  [x EXCEPT ![h].layout = @ \cup {"add"}]
                 = Only(h, Table({} \cup {"add"}, TRUE))
    <3> DEFINE full == TRUE
    <3>1. x = Only(h, Table({}, full))
        BY <1>1, <2>1
    <3> HIDE DEF full
    <3>2. [x EXCEPT ![h].layout = @ \cup {"add"}]
            = Only(h, Table({} \cup {"add"}, full))
        BY <3>1 DEF Only, Table
    <3> QED
        BY <3>2 DEF full
  <2> QED
      BY <2>1 DEF WithChange
<1>3. CASE "add" \in want.layout
  <2>1. want.layout \cap {"add"} = {} \cup {"add"}
      BY <1>3
  <2> QED
      BY <1>2, <1>3, <2>1, Zenon
<1>4. CASE "add" \notin want.layout
  <2>1. want.layout \cap {"add"} = {}
      BY <1>4
  <2> QED
      BY <1>1, <1>4, <2>1, Zenon
<1> QED
    BY <1>3, <1>4

\* ... after the column was renamed ...
LEMMA ColumnContent ==
    ASSUME Content, pc = "column"
    PROVE  LET next == Only(Here, Table(want.layout \cap {"add", "column"},
                                        TRUE))
           IN  /\ "column" \in want.layout => WithChange("column") = next
               /\ "column" \notin want.layout => conn.content = next
<1> DEFINE L == want.layout \cap {"add"}
<1>1. conn.content = Only(Here, Table(L, TRUE))
    BY DEF Content
<1>2. WithChange("column") = Only(Here, Table(L \cup {"column"}, TRUE))
  <2> HIDE DEF L
  <2>1. ASSUME NEW x, NEW h, x = conn.content, h = Here
        PROVE  [x EXCEPT ![h].layout = @ \cup {"column"}]
                 = Only(h, Table(L \cup {"column"}, TRUE))
    <3> DEFINE full == TRUE
    <3>1. x = Only(h, Table(L, full))
        BY <1>1, <2>1
    <3> HIDE DEF full
    <3>2. [x EXCEPT ![h].layout = @ \cup {"column"}]
            = Only(h, Table(L \cup {"column"}, full))
        BY <3>1 DEF Only, Table
    <3> QED
        BY <3>2 DEF full
  <2> QED
      BY <2>1 DEF WithChange
<1>3. CASE "column" \in want.layout
  <2>1. want.layout \cap {"add", "column"} = L \cup {"column"}
      BY <1>3
  <2> HIDE DEF L
  <2> QED
      BY <1>2, <1>3, <2>1, Zenon
<1>4. CASE "column" \notin want.layout
  <2>1. want.layout \cap {"add", "column"} = L
      BY <1>4
  <2> HIDE DEF L
  <2> QED
      BY <1>1, <1>4, <2>1, Zenon
<1> QED
    BY <1>3, <1>4

\* ... after the rows were copied to the new table ...
LEMMA CopyContent ==
    ASSUME Content, pc = "copy"
    PROVE  [conn.content EXCEPT !["temp"].rows = conn.content[Here].rows]
             = With(Only(Here,
                         Table(want.layout \cap {"add", "column"}, TRUE)),
                    "temp", Table(want.layout, TRUE))
<1> DEFINE t == Table(want.layout \cap {"add", "column"}, TRUE)
<1>1. conn.content
        = With(Only(Here, t), "temp", Table(want.layout, FALSE))
    BY DEF Content
<1>2. t.rows = TRUE
    BY DEF Table
<1> HIDE DEF t
<1>3. [conn.content EXCEPT !["temp"].rows = conn.content[Here].rows]
        = With(Only(Here, t), "temp", Table(want.layout, TRUE))
  <2>1. Here # "temp"
      BY HereNames
  <2>2. ASSUME NEW x, NEW h, x = conn.content, h = Here
        PROVE  [x EXCEPT !["temp"].rows = x[h].rows]
                 = With(Only(h, t), "temp", Table(want.layout, t.rows))
    <3> DEFINE none == FALSE
    <3>1. x = With(Only(h, t), "temp", Table(want.layout, none))
        BY <1>1, <2>2
    <3> HIDE DEF none
    <3> QED
        BY <2>1, <2>2, <3>1, CopiedRows
  <2>3. Table(want.layout, t.rows) = Table(want.layout, TRUE)
      BY <1>2 DEF Table
  <2> QED
      BY <2>2, <2>3
<1> QED
    BY <1>3 DEF t

\* ... after the old table was dropped ...
LEMMA DropContent ==
    ASSUME Content, pc = "drop"
    PROVE  Without(conn.content, Here) = Only("temp", Table(want.layout, TRUE))
<1>1. conn.content
        = With(Only(Here, Table(want.layout \cap {"add", "column"}, TRUE)),
               "temp", Table(want.layout, TRUE))
    BY DEF Content
<1>2. Here # "temp"
    BY HereNames
<1> QED
    BY <1>1, <1>2, WithoutOne, Zenon

\* ... and after the new one was given the name asked for.
LEMMA NameContent ==
    ASSUME Content, pc = "name"
    PROVE  Renamed(conn.content, "temp", want.name)
             = Only(want.name, Table(want.layout, TRUE))
<1>1. conn.content = Only("temp", Table(want.layout, TRUE))
    BY DEF Content
<1> QED
    BY <1>1 DEF Renamed, Without, With, Only, Restrict

---------------------------------------------------------------------------
(* Every step keeps the shape of the table. *)

\* There is no attempt before the first one.
LEMMA InitShape == Init => Shape
<1> SUFFICES ASSUME Init PROVE Shape
    OBVIOUS
<1>1. PICK stack \in {<< >>, << [name |-> RESTOREPOINT,
                                 content |-> Initial] >>} :
        conn = Connection(stack, Initial, Initial)
    BY DEF Init
<1>2. conn.stack = stack /\ conn.content = Initial /\ opened = conn
    BY <1>1 DEF Init, Connection
<1>3. Opened
    BY <1>2 DEF Opened
<1>4. Depth
  <2>1. IsConnection(conn) /\ conn = opened
      BY <1>2, InitIInv DEF IInv
  <2> QED
      BY <1>3, <2>1, BeganShape DEF Init, Depth, Working
<1>5. Wanted
    BY DEF Init, Wanted, Working
<1>6. Content
    BY DEF Init, Content
<1>7. Deferral
    BY DEF Init, Deferral, Working
<1> QED
    BY <1>3, <1>4, <1>5, <1>6, <1>7 DEF Shape

\* Outside alterTable only the connection and the types matter.
LEMMA ShapeOutside ==
    ASSUME Shape, opened' = opened, want' = want, pc' \notin Working,
           deferred' \in BOOLEAN, Len(conn'.stack) <= 3
    PROVE  Shape'
<1>1. Content'
    BY DEF Content, Working
<1>2. Deferral'
    BY DEF Deferral, Working
<1>3. Opened' /\ Wanted' /\ Depth'
    BY DEF Shape, Opened, Wanted, Depth
<1> QED
    BY <1>1, <1>2, <1>3 DEF Shape

\* A statement that makes `goal` or fails, or is skipped as it is made already.
LEMMA ShapeStatement ==
    ASSUME IInv, Shape, pc \in Working,
           opened' = opened, want' = want, before' = before,
           deferred' \in BOOLEAN,
           \/ pc' \in {"name", "finish", "false"}
           \/ (deferred' <=> deferred) /\ pc \notin {"name", "finish"},
           NEW goal, NEW next \in Working,
           \/ Succeed(goal, next)
           \/ Fail
           \/ pc' = next /\ conn' = conn /\ conn.content = goal,
           pc' = next /\ conn'.content = goal => Content'
    PROVE  Shape'
<1>1. CASE Fail
  <2>1. conn' = Began /\ pc' = "false"
      BY <1>1, FailStep
  <2>2. Len(Began.stack) <= 3
      BY BeganShape DEF IInv, Shape
  <2>3. Len(conn'.stack) <= 3 /\ pc' \notin Working
      BY <2>1, <2>2 DEF Working
  <2> QED
      BY <2>3, ShapeOutside
<1>2. CASE ~Fail
  <2>1. /\ pc' = next /\ conn'.content = goal
        /\ Len(conn'.stack) <= 3 /\ Deep(conn')
    <3>1. CASE Succeed(goal, next)
        BY <3>1, SucceedStep
    <3>2. CASE pc' = next /\ conn' = conn /\ conn.content = goal
        BY <3>2 DEF Shape, Depth, Deep
    <3> QED
        BY <1>2, <3>1, <3>2
  <2>2. Depth'
      BY <2>1 DEF Depth, Deep
  <2>3. pc' # "false"
      BY <2>1 DEF Working
  <2>4. Deferral'
    <3>1. CASE pc' \in {"name", "finish"}
      <4>1. pc' \notin {"rename", "add", "column", "update", "create",
                        "copy", "drop"}
          BY <3>1
      <4> QED
          BY <4>1 DEF Shape, Deferral
    <3>2. CASE pc' \notin {"name", "finish"}
      <4>1. (deferred' <=> deferred) /\ pc \notin {"name", "finish"}
          BY <2>3, <3>2
      <4>2. deferred <=> before.deferred
          BY <4>1 DEF Shape, Deferral, Working
      <4> QED
          BY <4>1, <4>2 DEF Shape, Deferral
    <3> QED
        BY <3>1, <3>2
  <2>5. Opened' /\ Wanted'
      BY DEF Shape, Opened, Wanted
  <2> QED
      BY <2>1, <2>2, <2>4, <2>5 DEF Shape
<1> QED
    BY <1>1, <1>2

\* An attempt that is done leaves nothing of itself on the stack.
LEMMA ShapeReleased ==
    ASSUME IInv, Shape, pc \in Working, Released,
           opened' = opened, want' = want, deferred' \in BOOLEAN
    PROVE  Shape'
<1>1. conn'.stack = Began.stack /\ pc' = "true"
    BY ReleasedStep
<1>2. Len(Began.stack) <= 3
    BY BeganShape DEF IInv, Shape
<1>3. Len(conn'.stack) <= 3 /\ pc' \notin Working
    BY <1>1, <1>2 DEF Working
<1> QED
    BY <1>3, ShapeOutside

\* Every statement leaves the tables as the next one expects them.
LEMMA ShapeKept == IInv /\ Shape /\ [Next]_vars => Shape'
<1> SUFFICES ASSUME IInv, Shape, [Next]_vars PROVE Shape'
    OBVIOUS
<1> USE DEF call
<1>0. Content /\ deferred \in BOOLEAN
    BY DEF Shape, Deferral
<1>1. CASE OpenDialog
  <2>1. conn = opened /\ opened' = conn /\ conn' = Savepoint(opened, EDIT)
        /\ pc' = "open" /\ want' = want /\ deferred' = deferred
      BY <1>1 DEF OpenDialog, IInv, Working
  <2>2. Len(Began.stack) <= 3
      BY BeganShape DEF IInv, Shape
  <2>3. Len(conn'.stack) <= 3
      BY <2>1, <2>2 DEF Began
  <2> QED
      BY <1>0, <2>1, <2>3, ShapeOutside DEF Working
<1>2. ASSUME NEW w \in Wants, Accept(w) PROVE Shape'
  <2>1. /\ IsConnection(opened) /\ conn = Began /\ pc = "open"
      BY <1>2 DEF Accept, IInv, Working
  <2>2. /\ opened' = opened /\ want' = w /\ deferred' = deferred
        /\ before'.deferred = deferred
      BY <1>2 DEF Accept, Call
  <2>3. /\ Len(Began.stack) <= 3
        /\ Len(Savepoint(Began, RENAME).stack) <= 3
        /\ Savepoint(Began, RENAME).content = Initial
        /\ Deep(Savepoint(Began, RENAME))
      BY <2>1, BeganShape DEF Shape
  <2>4. Opened' /\ Wanted'
    <3>1. w \in [name : Names \cup {"old"}, layout : SUBSET Changes]
        BY DEF Wants
    <3> QED
        BY <2>2, <3>1 DEF Shape, Opened, Wanted
  <2>5. Deferral'
      BY <1>0, <2>2 DEF Deferral
  <2>6. CASE BeginAlter(w)
    <3>1. conn' = Savepoint(Began, RENAME) /\ pc' = "rename"
        BY <2>1, <2>6 DEF BeginAlter
    <3>2. Content'
        BY <2>3, <3>1 DEF Content
    <3>3. Depth'
        BY <2>3, <3>1 DEF Depth, Deep
    <3> QED
        BY <2>4, <2>5, <3>2, <3>3 DEF Shape
  <2>7. CASE Refuse(w) \/ NothingToDo(w)
    <3>1. conn' = Began /\ pc' \in {"true", "false"}
        BY <2>1, <2>7 DEF Refuse, NothingToDo
    <3>2. Content'
        BY <3>1 DEF Content
    <3>3. Len(conn'.stack) <= 3
        BY <2>3, <3>1
    <3>4. Depth'
        BY <3>1, <3>3 DEF Depth, Working
    <3> QED
        BY <2>4, <2>5, <3>2, <3>4 DEF Shape
  <2> QED
      BY <1>2, <2>6, <2>7 DEF Accept
<1>3. CASE Returned
    BY <1>0, <1>3, ShapeOutside DEF Returned, Working, Shape, Depth
<1>4. CASE RejectDialog
  <2>1. IsConnection(opened) /\ conn = Savepoint(opened, EDIT)
      BY <1>4 DEF RejectDialog, IInv, Began, Working
  <2>2. conn' = opened
      BY <1>4, <2>1, SavepointAbove, RevertsTo DEF RejectDialog
  <2>3. Len(opened.stack) <= 3
      BY <2>1, BeganShape DEF Shape
  <2> QED
      BY <1>0, <1>4, <2>2, <2>3, ShapeOutside DEF RejectDialog, Working
<1>5. CASE RenameTable
  <2> DEFINE goal == Only(Here, Table({}, TRUE))
  <2>1. /\ pc = "rename" /\ opened' = opened /\ want' = want
        /\ before' = before /\ deferred' = deferred
      BY <1>5 DEF RenameTable, Statement, Skip
  <2>2. \/ Succeed(goal, "add") \/ Fail
        \/ pc' = "add" /\ conn' = conn /\ conn.content = goal
      BY <1>0, <1>5, <2>1, RenameContent DEF RenameTable, Statement, Skip
  <2>3. pc' = "add" /\ conn'.content = goal => Content'
      BY <2>1 DEF Content, Here
  <2> HIDE DEF goal
  <2> QED
      BY <1>0, <2>1, <2>2, <2>3, ShapeStatement DEF Working
<1>6. CASE AddColumn
  <2> DEFINE goal == Only(Here, Table(want.layout \cap {"add"}, TRUE))
  <2>1. /\ pc = "add" /\ opened' = opened /\ want' = want
        /\ before' = before /\ deferred' = deferred
      BY <1>6 DEF AddColumn, Statement, Skip
  <2>2. \/ Succeed(goal, "column") \/ Fail
        \/ pc' = "column" /\ conn' = conn /\ conn.content = goal
      BY <1>0, <1>6, <2>1, AddContent DEF AddColumn, Statement, Skip
  <2>3. pc' = "column" /\ conn'.content = goal => Content'
      BY <2>1 DEF Content, Here
  <2> HIDE DEF goal
  <2> QED
      BY <1>0, <2>1, <2>2, <2>3, ShapeStatement DEF Working
<1>7. CASE RenameColumn
  <2> DEFINE goal == Only(Here,
                          Table(want.layout \cap {"add", "column"}, TRUE))
  <2>1. /\ pc = "column" /\ opened' = opened /\ want' = want
        /\ before' = before /\ deferred' = deferred
      BY <1>7 DEF RenameColumn, Statement, Skip
  <2>2. \/ Succeed(goal, "update") \/ Fail
        \/ pc' = "update" /\ conn' = conn /\ conn.content = goal
      BY <1>0, <1>7, <2>1, ColumnContent DEF RenameColumn, Statement, Skip
  <2>3. pc' = "update" /\ conn'.content = goal => Content'
      BY <2>1 DEF Content, Here
  <2> HIDE DEF goal
  <2> QED
      BY <1>0, <2>1, <2>2, <2>3, ShapeStatement DEF Working
<1>8. CASE UpdateSchema
  <2> DEFINE goal == Only(Here,
                          Table(want.layout \cap {"add", "column"}, TRUE))
  <2>1. /\ pc = "update" /\ opened' = opened /\ want' = want
        /\ before' = before /\ deferred' = deferred
      BY <1>8 DEF UpdateSchema
  <2>2. Released \/ (pc' = "create" /\ conn' = conn)
      BY <1>8 DEF UpdateSchema, Skip
  <2>3. CASE Released
      BY <1>0, <2>1, <2>3, ShapeReleased DEF Working
  <2>4. CASE pc' = "create" /\ conn' = conn
    <3>1. conn.content = goal
        BY <1>0, <2>1 DEF Content
    <3>2. pc' = "create" /\ conn'.content = goal => Content'
        BY <2>1 DEF Content, Here
    <3> HIDE DEF goal
    <3> QED
        BY <1>0, <2>1, <2>4, <3>1, <3>2, ShapeStatement DEF Working
  <2> QED
      BY <2>2, <2>3, <2>4
<1>9. CASE CreateTable
  <2> DEFINE goal == With(conn.content, "temp", Table(want.layout, FALSE))
  <2>1. /\ pc = "create" /\ opened' = opened /\ want' = want
        /\ before' = before /\ deferred' = deferred
        /\ Succeed(goal, "copy") \/ Fail
      BY <1>9 DEF CreateTable, Statement
  <2>2. conn.content
          = Only(Here, Table(want.layout \cap {"add", "column"}, TRUE))
      BY <1>0, <2>1 DEF Content
  <2>3. pc' = "copy" /\ conn'.content = goal => Content'
      BY <2>1, <2>2 DEF Content, Here
  <2> HIDE DEF goal
  <2> QED
      BY <1>0, <2>1, <2>3, ShapeStatement DEF Working
<1>10. CASE CopyData
  <2> DEFINE goal ==
          With(Only(Here, Table(want.layout \cap {"add", "column"}, TRUE)),
               "temp", Table(want.layout, TRUE))
  <2>1. /\ pc = "copy" /\ opened' = opened /\ want' = want
        /\ before' = before /\ deferred' = deferred
      BY <1>10 DEF CopyData, Statement
  <2>2. [conn.content EXCEPT !["temp"].rows = conn.content[Here].rows] = goal
      BY <1>0, <2>1, CopyContent
  <2>3. Succeed(goal, "drop") \/ Fail
      BY <1>10, <2>2, Zenon DEF CopyData, Statement
  <2>4. pc' = "drop" /\ conn'.content = goal => Content'
      BY <2>1 DEF Content, Here
  <2> HIDE DEF goal
  <2> QED
      BY <1>0, <2>1, <2>3, <2>4, ShapeStatement DEF Working
<1>11. CASE DropTable
  <2> DEFINE goal == Only("temp", Table(want.layout, TRUE))
  <2>1. /\ pc = "drop" /\ opened' = opened /\ want' = want
        /\ before' = before /\ deferred' = TRUE
      BY <1>11 DEF DropTable, Statement
  <2>2. Succeed(goal, "name") \/ Fail
      BY <1>0, <1>11, <2>1, DropContent DEF DropTable, Statement
  <2>3. pc' \in {"name", "false"}
      BY <2>2 DEF Succeed, Fail
  <2>4. pc' = "name" /\ conn'.content = goal => Content'
      BY <2>1 DEF Content
  <2> HIDE DEF goal
  <2> QED
      BY <2>1, <2>2, <2>3, <2>4, ShapeStatement DEF Working
<1>12. CASE NameTable
  <2> DEFINE goal == Only(want.name, Table(want.layout, TRUE))
  <2>1. /\ pc = "name" /\ opened' = opened /\ want' = want
        /\ before' = before /\ deferred' = deferred
      BY <1>12 DEF NameTable, Statement
  <2>2. Succeed(goal, "finish") \/ Fail
      BY <1>0, <1>12, <2>1, NameContent DEF NameTable, Statement
  <2>3. pc' \in {"finish", "false"}
      BY <2>2 DEF Succeed, Fail
  <2>4. pc' = "finish" /\ conn'.content = goal => Content'
      BY <2>1 DEF Content
  <2> HIDE DEF goal
  <2> QED
      BY <1>0, <2>1, <2>2, <2>3, <2>4, ShapeStatement DEF Working
<1>13. CASE Finish
  <2>1. /\ pc \in Working /\ Released /\ opened' = opened /\ want' = want
        /\ deferred' = before.deferred
      BY <1>13 DEF Finish, Working
  <2>2. deferred' \in BOOLEAN
      BY <2>1 DEF Shape, Deferral
  <2> QED
      BY <2>1, <2>2, ShapeReleased
<1>14. CASE UNCHANGED vars
  <2>1. Opened' /\ Wanted' /\ Deferral' /\ Depth'
      BY <1>14 DEF vars, Shape, Opened, Wanted, Deferral, Depth, Deep
  <2>2. Content'
      BY <1>14 DEF vars, Shape, Content, Here
  <2> QED
      BY <2>1, <2>2 DEF Shape
<1> QED
    BY <1>1, <1>2, <1>3, <1>4, <1>5, <1>6, <1>7, <1>8, <1>9, <1>10, <1>11,
       <1>12, <1>13, <1>14 DEF Next

---------------------------------------------------------------------------
(* What is left when alterTable is done. *)

Settled ==
    /\ pc \in {"true", "accepted"} => ContentTyped(conn.content)
    /\ SchemaTyped
    /\ SuccessIsWhole

\* The schema of a single table is well typed.
LEMMA KnownTyped ==
    ASSUME NEW n \in {"old", "new", "moved"}, NEW L \in SUBSET Changes, NEW r,
           schema' = Known(Only(n, Table(L, r)))
    PROVE  SchemaTyped'
<1>1. schema' = [k \in {n} |-> L]
    BY DEF Known, Only, Table
<1> QED
    BY <1>1 DEF SchemaTyped

\* No attempt has ended before the first one.
LEMMA InitSettled == Init => Settled
<1> SUFFICES ASSUME Init PROVE Settled
    OBVIOUS
<1>1. conn.content = Only("old", Table({}, TRUE))
  <2>1. PICK stack : conn = Connection(stack, Initial, Initial)
      BY DEF Init
  <2> QED
      BY <2>1 DEF Connection, Initial
<1>2. schema = [k \in {"old"} |-> {}]
    BY <1>1 DEF Init, Known, Only, Table
<1>3. SchemaTyped
    BY <1>2 DEF SchemaTyped
<1> QED
    BY <1>3 DEF Init, Settled, SuccessIsWhole

\* Nothing to do, with a schema that is that of the database, means that the
\* table is as wanted.
LEMMA NothingIsWhole ==
    ASSUME IInv, Shape, NEW w \in Wants, Accept(w), NothingToDo(w)
    PROVE  SuccessIsWhole'
<1> SUFFICES ASSUME ~Misled' PROVE
        /\ conn'.content = Only(want'.name, Table(want'.layout, TRUE))
        /\ conn'.stack = before'.conn.stack
        /\ schema' = Known(conn'.content)
        /\ deferred' = before'.deferred
    BY DEF SuccessIsWhole
<1>1. conn = Began /\ conn' = conn /\ IsConnection(opened)
    BY DEF Accept, NothingToDo, IInv, Working
<1>2. /\ want' = w /\ schema' = schema /\ deferred' = deferred
      /\ before'.conn = conn /\ before'.schema = schema
      /\ before'.deferred = deferred
    BY DEF Accept, Call
<1>3. Finds(w, schema) /\ NoChange(w, schema)
    BY DEF NothingToDo
<1>4. conn.content = Only("old", Table({}, TRUE))
    BY <1>1, BeganShape DEF Shape, Initial
<1>5. w.name # "moved" /\ schema = Known(conn.content)
    BY <1>2, <1>3 DEF Misled, Finds, NoChange, Known
<1>6. schema["old"] = {}
  <2>1. schema = [k \in {"old"} |-> {}]
      BY <1>4, <1>5 DEF Known, Only, Table
  <2> QED
      BY <2>1
<1>7. w.layout = {} /\ w.name = "old"
    BY <1>3, <1>5, <1>6, NamesAssumption DEF NoChange, Wants
<1> QED
    BY <1>1, <1>2, <1>4, <1>5, <1>7

\* An attempt that was done has done everything, and the schema known stays
\* well typed.
LEMMA SettledKept == IInv /\ Shape /\ Settled /\ [Next]_vars => Settled'
<1> SUFFICES ASSUME IInv, Shape, Settled, [Next]_vars PROVE Settled'
    OBVIOUS
<1> USE DEF call
<1>0. /\ Content /\ Wanted /\ Deferral /\ SchemaTyped
      /\ Here \in {"old", "new"}
    BY HereNames DEF Shape, Settled
\* A step inside alterTable, or one that fails.
<1>1. ASSUME schema' = schema, pc' \notin {"true", "accepted"}
      PROVE  Settled'
    BY <1>0, <1>1 DEF Settled, SchemaTyped, SuccessIsWhole
<1>2. ASSUME NEW goal, NEW next \in Working, schema' = schema,
             \/ Succeed(goal, next) \/ Fail
             \/ pc' = next
      PROVE  Settled'
    BY <1>1, <1>2 DEF Succeed, Fail, Working
<1>3. CASE OpenDialog
    BY <1>1, <1>3 DEF OpenDialog
<1>4. ASSUME NEW w \in Wants, Accept(w) PROVE Settled'
  <2>1. schema' = schema /\ conn = Began /\ IsConnection(opened)
      BY <1>4 DEF Accept, IInv, Working
  <2>2. CASE NothingToDo(w)
    <3>1. conn'.content = Initial
        BY <2>1, <2>2, BeganShape DEF NothingToDo, Shape
    <3>2. ContentTyped(conn'.content)
        BY <3>1, InitialTyped
    <3>3. SuccessIsWhole'
        BY <1>4, <2>2, NothingIsWhole
    <3> QED
        BY <1>0, <2>1, <3>2, <3>3 DEF Settled, SchemaTyped, ContentTyped
  <2>3. CASE Refuse(w) \/ BeginAlter(w)
      BY <1>1, <2>1, <2>3 DEF Refuse, BeginAlter
  <2> QED
      BY <1>4, <2>2, <2>3 DEF Accept
<1>5. CASE Returned
    BY <1>0, <1>5 DEF Returned, Settled, SchemaTyped, SuccessIsWhole,
       ContentTyped
<1>6. CASE RejectDialog
  <2>1. IsConnection(opened) /\ conn = Savepoint(opened, EDIT)
      BY <1>6 DEF RejectDialog, IInv, Began, Working
  <2>2. conn' = opened
      BY <1>6, <2>1, SavepointAbove, RevertsTo DEF RejectDialog
  <2>3. schema' = Known(Only("old", Table({}, TRUE))) /\ pc' = "rejected"
      BY <1>6, <2>2 DEF RejectDialog, Shape, Opened, Initial
  <2>4. SchemaTyped'
      BY <2>3, KnownTyped
  <2> QED
      BY <2>3, <2>4 DEF Settled, SuccessIsWhole
<1>7. CASE RenameTable \/ AddColumn \/ RenameColumn
    BY <1>2, <1>7 DEF RenameTable, AddColumn, RenameColumn, Statement, Skip,
       Working
<1>8. CASE CreateTable \/ CopyData \/ DropTable \/ NameTable
    BY <1>2, <1>8 DEF CreateTable, CopyData, DropTable, NameTable, Statement,
       Working
<1>9. CASE UpdateSchema
  <2> DEFINE L == want.layout \cap {"add", "column"}
  <2>1. /\ pc = "update" /\ want' = want /\ before' = before
        /\ deferred' = deferred
      BY <1>9 DEF UpdateSchema
  <2>2. conn.content = Only(Here, Table(L, TRUE))
      BY <1>0, <2>1 DEF Content
  <2>3. schema' = Known(Only(Here, Table(L, TRUE)))
      BY <1>9, <2>2 DEF UpdateSchema
  <2>4. SchemaTyped'
    <3>1. L \in SUBSET Changes
        BY <1>0 DEF Wanted
    <3> HIDE DEF L
    <3> QED
        BY <1>0, <2>3, <3>1, KnownTyped
  <2>5. CASE pc' = "create"
      BY <2>4, <2>5 DEF Settled, SuccessIsWhole
  <2>6. CASE pc' # "create"
    <3>1. Released /\ want.name # "moved" /\ schema'[Here] = want.layout
        BY <1>9, <2>6 DEF UpdateSchema, Skip
    <3>2. /\ conn'.stack = Began.stack /\ conn'.content = conn.content
        BY <2>1, <3>1, ReleasedStep DEF Working
    <3>3. L = want.layout
      <4>1. schema' = [k \in {Here} |-> L]
          BY <2>3 DEF Known, Only, Table
      <4>2. schema'[Here] = L
        <5> HIDE DEF L
        <5> QED
            BY <4>1
      <4> QED
          BY <3>1, <4>2
    <3>4. Here = want.name
        BY <1>0, <2>1, <3>1, NamesAssumption DEF Wanted, Wants, Working, Here
    <3>5. conn'.content = Only(want.name, Table(want.layout, TRUE))
        BY <2>2, <3>2, <3>3, <3>4, Zenon
    <3>6. conn'.stack = before.conn.stack
        BY <2>1, <3>2 DEF IInv, Working
    <3>7. schema' = Known(conn'.content)
        BY <1>9, <3>2 DEF UpdateSchema, Known
    <3>8. deferred' = before.deferred
        BY <1>0, <2>1 DEF Deferral, Working
    <3>9. ContentTyped(conn'.content)
      <4>1. ContentTyped(conn.content)
          BY <1>0, <2>1, WorkingTyped DEF Working
      <4> QED
          BY <3>2, <4>1
    <3>10. SuccessIsWhole'
        BY <2>1, <3>5, <3>6, <3>7, <3>8 DEF SuccessIsWhole, Known
    <3> QED
        BY <2>4, <3>9, <3>10 DEF Settled, ContentTyped
  <2> QED
      BY <2>5, <2>6
<1>10. CASE Finish
  <2>1. /\ pc = "finish" /\ Released /\ want' = want /\ before' = before
        /\ deferred' = before.deferred /\ schema' = Known(conn.content)
      BY <1>10 DEF Finish
  <2>2. conn.content = Only(want.name, Table(want.layout, TRUE))
      BY <1>0, <2>1 DEF Content
  <2>3. /\ conn'.stack = Began.stack /\ conn'.content = conn.content
      BY <2>1, ReleasedStep DEF Working
  <2>4. SchemaTyped'
    <3>1. /\ want.name \in {"old", "new", "moved"}
          /\ want.layout \in SUBSET Changes
        BY <1>0, <2>1, NamesAssumption DEF Wanted, Wants, Working
    <3> QED
        BY <2>1, <2>2, <3>1, KnownTyped
  <2>5. conn'.stack = before.conn.stack
      BY <2>1, <2>3 DEF IInv, Working
  <2>6. ContentTyped(conn'.content)
    <3>1. ContentTyped(conn.content)
        BY <1>0, <2>1, WorkingTyped DEF Working
    <3> QED
        BY <2>3, <3>1
  <2>7. SuccessIsWhole'
      BY <2>1, <2>2, <2>3, <2>5 DEF SuccessIsWhole, Known
  <2> QED
      BY <2>4, <2>6, <2>7 DEF Settled, ContentTyped
<1>11. CASE UNCHANGED vars
  <2>1. SchemaTyped' /\ (pc' \in {"true", "accepted"} =>
                           ContentTyped(conn'.content))
      BY <1>0, <1>11 DEF vars, Settled, SchemaTyped
  <2>2. SuccessIsWhole'
      BY <1>11 DEF vars, Settled, SuccessIsWhole, Misled, Known, Finds,
         NoChange
  <2> QED
      BY <2>1, <2>2 DEF Settled, ContentTyped
<1> QED
    BY <1>3, <1>4, <1>5, <1>6, <1>7, <1>8, <1>9, <1>10, <1>11 DEF Next

\* The three invariants hold together.
LEMMA Invariants == Spec => [](IInv /\ Shape /\ Settled)
<1>1. Init => IInv /\ Shape /\ Settled
    BY InitIInv, InitShape, InitSettled
<1>2. IInv /\ Shape /\ Settled /\ [Next]_vars => (IInv /\ Shape /\ Settled)'
    BY StepPreserves, ShapeKept, SettledKept
<1> QED
    BY <1>1, <1>2, PTL DEF Spec

---------------------------------------------------------------------------
(* The theorems. *)

\* There is one table at any time, and its copy while the rows are moved, and
\* never more savepoints than those of the file, the dialog and alterTable.
THEOREM Typed == Spec => []TypeOK
<1>1. ASSUME IInv, Shape, Settled PROVE TypeOK
  <2>1. ContentTyped(conn.content)
    <3>1. CASE pc \in Working
        BY <1>1, <3>1, WorkingTyped DEF Shape
    <3>2. CASE pc \in {"true", "accepted"}
        BY <1>1, <3>2 DEF Settled
    <3>3. CASE pc \in {"closed", "open", "false", "rejected"}
      <4>1. conn = opened \/ conn = Began
          BY <1>1, <3>3 DEF IInv, RejectRestores
      <4>2. conn.content = Initial
          BY <1>1, <4>1, BeganShape DEF IInv, Shape, Opened
      <4> QED
          BY <4>2, InitialTyped
    <3> QED
        BY <1>1, <3>1, <3>2, <3>3 DEF IInv
  <2> QED
      BY <1>1, <2>1 DEF Shape, Settled, Wanted, Deferral, Depth, SchemaTyped,
         ContentTyped, TableType, TypeOK
<1> QED
    BY <1>1, Invariants, PTL

\* An alterTable that returns true, unless the schema it compared with was not
\* that of the database or only the place was to be changed, has done all that
\* was wanted, and left no savepoint and no deferred foreign keys behind.
THEOREM DoneIsWhole == Spec => []SuccessIsWhole
<1>1. Settled => SuccessIsWhole
    BY DEF Settled
<1> QED
    BY <1>1, Invariants, PTL

\* An alterTable that returns false has left the connection as it was called
\* with, whichever of its statements failed and whatever came before.
THEOREM FailedIsUndone == Spec => []FailureRestores
<1>1. IInv => FailureRestores
    BY DEF IInv, FailureRestores
<1> QED
    BY <1>1, InitIInv, StepPreserves, PTL DEF Spec

\* Cancelling the dialog takes the connection back to when it was opened, and
\* the schema the program knows is that of the database, after any number of
\* attempts that failed.
THEOREM CancelledIsUndone == Spec => []RejectRestores
<1>1. IInv => RejectRestores
    BY DEF IInv
<1> QED
    BY <1>1, InitIInv, StepPreserves, PTL DEF Spec
===========================================================================
