---------------------------- MODULE MCRowCache ----------------------------
(* RowCache on a few positions. *)
EXTENDS RowCache

\* Bound: at most MaxSize rows loaded and none moved above MaxPos.
CONSTANT MaxSize

Small == /\ \A p \in Loaded : p <= MaxPos
         /\ NumSet(segments) <= MaxSize
===========================================================================
