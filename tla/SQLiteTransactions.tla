------------------------ MODULE SQLiteTransactions ------------------------
(***************************************************************************)
(* What the database layer relies on in SQLite: one connection with its    *)
(* stack of savepoints.  A connection `c` has the savepoints that are open *)
(* (each with its name and the content at the time it was set), what the   *)
(* connection sees (`content`) and what the file holds (`disk`).  Content  *)
(* is the set of the writes applied.  Names need not be unique: ROLLBACK   *)
(* TO and RELEASE mean the most recent savepoint of the name.              *)
(***************************************************************************)
EXTENDS Integers, Sequences, SequencesExt

Connection(stack, content, disk) ==
    [stack |-> stack, content |-> content, disk |-> disk]

\* The most recent savepoint of that name, 0 if there is none.
Innermost(c, name) == SelectLastInSeq(c.stack, LAMBDA s : s.name = name)

\* SAVEPOINT name
Savepoint(c, name) ==
    Connection(Append(c.stack, [name |-> name, content |-> c.content]),
               c.content, c.disk)

\* Releasing the outermost savepoint is a COMMIT, and a COMMIT of changes may
\* be refused: another process has the file locked, or a deferred foreign key
\* is violated.
ReleaseFails(c, name, refused) ==
    LET k == Innermost(c, name)
    IN  k = 0 \/ (k = 1 /\ refused /\ c.content # c.disk)

\* RELEASE name, where it does not fail
Release(c, name) ==
    LET k == Innermost(c, name)
    IN  Connection(SubSeq(c.stack, 1, k - 1), c.content,
                   IF k = 1 THEN c.content ELSE c.disk)

\* ROLLBACK TO name; RELEASE name.  Both fail if there is no such savepoint.
RollbackAndRelease(c, name) ==
    LET k == Innermost(c, name)
    IN  IF k = 0 THEN c
        ELSE Connection(SubSeq(c.stack, 1, k - 1), c.stack[k].content, c.disk)

\* COMMIT, where it is not refused
Commit(c) == Connection(<< >>, c.content, c.content)

\* ROLLBACK, closing the connection, or an error that undoes the transaction
Rollback(c) == Connection(<< >>, c.disk, c.disk)

\* A statement that applies write w; outside a transaction it is committed.
Write(c, w) ==
    Connection(c.stack, c.content \cup {w},
               IF c.stack = << >> THEN c.content \cup {w} ELSE c.disk)
===========================================================================
