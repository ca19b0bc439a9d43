--------------------------- MODULE SparseVector ---------------------------
(***************************************************************************)
(* What the row cache promises, as the comment on top of RowCache.h puts   *)
(* it: a vector some of whose positions hold a value.  `vec` is a function *)
(* from the positions that are loaded to their values.  Nothing here says  *)
(* how the loaded positions are stored.                                    *)
(***************************************************************************)
EXTENDS Naturals

CONSTANTS Values,    \* the rows that can be stored
          MaxPos     \* bound: the positions the operations are called with

VARIABLE vec

Positions == 0..MaxPos

Init == vec = [p \in {} |-> 0]

\* Give position p the value v; every other position keeps its own.
Set(p, v) ==
    vec' = [q \in DOMAIN vec \cup {p} |-> IF q = p THEN v ELSE vec[q]]

\* Put v at p; the positions from p on move one up.
Insert(p, v) ==
    vec' = [q \in {x \in DOMAIN vec : x < p} \cup {p}
                    \cup {x + 1 : x \in {y \in DOMAIN vec : y >= p}} |->
               CASE q < p -> vec[q]
                 [] q = p -> v
                 [] q > p -> vec[q - 1]]

\* Take position p out, loaded or not; the positions above it move one down.
Erase(p) ==
    vec' = [q \in {x \in DOMAIN vec : x < p}
                    \cup {x - 1 : x \in {y \in DOMAIN vec : y > p}} |->
               IF q < p THEN vec[q] ELSE vec[q + 1]]

Clear == vec' = [p \in {} |-> 0]

Next ==
    \/ \E p \in Positions, v \in Values : Set(p, v) \/ Insert(p, v)
    \/ \E p \in Positions : Erase(p)
    \/ Clear

Spec == Init /\ [][Next]_vec
===========================================================================
