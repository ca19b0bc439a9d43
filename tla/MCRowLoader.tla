--------------------------- MODULE MCRowLoader ---------------------------
(* RowLoader on short queries. *)
EXTENDS RowLoader

\* A query with a full first chunk, followed by a shorter one.
TwoQueries == <<5, 3>>

\* The same with a query in between that may be one that cannot be prepared.
ThreeQueries == <<5, 2, 3>>

\* One query of more than two chunks.
LongQuery == <<7>>
===========================================================================
