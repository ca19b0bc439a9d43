----------------------------- MODULE RowCache -----------------------------
(***************************************************************************)
(* The segmented row cache of src/src/RowCache.h: the rows a table model   *)
(* has loaded, held as segments of contiguous rows in order of position.   *)
(* `segments` is the member of that name; a segment is its first position  *)
(* and its entries.                                                        *)
(***************************************************************************)
EXTENDS Integers, FiniteSets, Sequences, SequencesExt

CONSTANTS Values,    \* the rows that can be stored
          MaxPos     \* bound: the positions the operations are called with

ASSUME MaxPosAssumption == MaxPos \in Nat

VARIABLE segments

Positions == 0..MaxPos

Segment == [pos_begin : Nat, entries : Seq(Values)]

---------------------------------------------------------------------------
(* Look-ups. *)

PosEnd(s) == s.pos_begin + Len(s.entries)

\* The first segment that starts after pos, one past the last if none does:
\* std::upper_bound on a sequence sorted by pos_begin.
GetSegmentBeyond(segs, pos) ==
    CHOOSE k \in 1..(Len(segs) + 1) :
        /\ \A j \in 1..Len(segs) : j < k => segs[j].pos_begin <= pos
        /\ k <= Len(segs) => pos < segs[k].pos_begin

\* The index of the segment that holds pos, 0 if no segment does.
GetSegmentContaining(segs, pos) ==
    LET prev == GetSegmentBeyond(segs, pos) - 1
    IN  IF prev > 0 /\ pos < PosEnd(segs[prev]) THEN prev ELSE 0

Count(segs, pos) == GetSegmentContaining(segs, pos) # 0

At(segs, pos) ==
    LET s == segs[GetSegmentContaining(segs, pos)]
    IN  s.entries[pos - s.pos_begin + 1]

NumSet(segs) == FoldLeft(LAMBDA n, s : n + Len(s.entries), 0, segs)

\* Mutant: looks at row e, which the range leaves out, for its upper end.
SmallestNonAvailableRange_Closed(segs, b, e) ==
    LET up[x \in Nat] ==
            IF x < e /\ Count(segs, x)
            THEN up[PosEnd(segs[GetSegmentContaining(segs, x)])]
            ELSE x
        last == IF Count(segs, e)
                THEN segs[GetSegmentContaining(segs, e)].pos_begin ELSE e
    IN  <<up[b], IF last < up[b] THEN up[b] ELSE last>>

\* The range [b, e) without the loaded rows at either end.
SmallestNonAvailableRange(segs, b, e) ==
    LET up[x \in Nat] ==
            IF x < e /\ Count(segs, x)
            THEN up[PosEnd(segs[GetSegmentContaining(segs, x)])]
            ELSE x
        first == up[b]
        down[y \in Nat] ==
            IF y > first /\ Count(segs, y - 1)
            THEN down[segs[GetSegmentContaining(segs, y - 1)].pos_begin]
            ELSE y
        last == down[e]
    IN  <<first, IF last < first THEN first ELSE last>>

---------------------------------------------------------------------------
(* Operations. *)

NewSegment(pos, v) == [pos_begin |-> pos, entries |-> <<v>>]

WithEntries(segs, i, es) ==
    ReplaceAt(segs, i, [pos_begin |-> segs[i].pos_begin, entries |-> es])

\* Mutant: no segment is moved.
Shift_None(segs, k, n) == segs

\* Mutant: the first of the segments to move stays.
Shift_Late(segs, k, n) ==
    [i \in 1..Len(segs) |->
        IF i <= k THEN segs[i]
        ELSE [pos_begin |-> segs[i].pos_begin + n,
              entries |-> segs[i].entries]]

\* The segments from index k on, moved n positions.
Shift(segs, k, n) ==
    [i \in 1..Len(segs) |->
        IF i < k THEN segs[i]
        ELSE [pos_begin |-> segs[i].pos_begin + n,
              entries |-> segs[i].entries]]

Init == segments = << >>

Set(pos, v) ==
    LET k == GetSegmentBeyond(segments, pos)
        es == segments[k - 1].entries
        d == pos - segments[k - 1].pos_begin
    IN  \/ /\ k > 1 /\ d < Len(es)
           /\ segments' = WithEntries(segments, k - 1, ReplaceAt(es, d + 1, v))
        \/ /\ k > 1 /\ d = Len(es)
           /\ segments' = WithEntries(segments, k - 1, Append(es, v))
        \/ /\ k > 1 => d > Len(es)
           /\ segments' = InsertAt(segments, k, NewSegment(pos, v))

Insert(pos, v) ==
    LET k == GetSegmentBeyond(segments, pos)
        es == segments[k - 1].entries
        d == pos - segments[k - 1].pos_begin
    IN  \/ /\ k > 1 /\ d <= Len(es)
           /\ segments' = Shift(WithEntries(segments, k - 1,
                                            InsertAt(es, d + 1, v)), k, 1)
        \/ /\ k > 1 => d > Len(es)
           /\ segments' = Shift(InsertAt(segments, k, NewSegment(pos, v)),
                                k + 1, 1)

Erase(pos) ==
    LET k == GetSegmentBeyond(segments, pos)
        es == segments[k - 1].entries
        d == pos - segments[k - 1].pos_begin
    IN  \/ /\ k > 1 /\ d < Len(es) /\ Len(es) > 1
           /\ segments' = Shift(WithEntries(segments, k - 1,
                                            RemoveAt(es, d + 1)), k, -1)
        \/ /\ k > 1 /\ d < Len(es) /\ Len(es) = 1
           /\ segments' = Shift(RemoveAt(segments, k - 1), k - 1, -1)
        \/ /\ k > 1 => d >= Len(es)
           /\ segments' = Shift(segments, k, -1)

Clear == segments' = << >>

Next ==
    \/ \E pos \in Positions, v \in Values : Set(pos, v) \/ Insert(pos, v)
    \/ \E pos \in Positions : Erase(pos)
    \/ Clear

Spec == Init /\ [][Next]_segments

---------------------------------------------------------------------------
(* Properties. *)

\* Every segment has a first position and its rows.
TypeOK == segments \in Seq(Segment)

\* The comment on `segments`: they do not overlap and stand in order of
\* position; and none is empty, which is what lets getSegmentContaining look
\* at one segment only.  Insert and erase move every later segment, so one
\* wrong bound there makes two segments overlap several calls later.
Disjoint(segs) ==
    /\ \A i \in 1..Len(segs) : Len(segs[i].entries) > 0
    /\ \A i, j \in 1..Len(segs) :
           i < j => PosEnd(segs[i]) <= segs[j].pos_begin

WellFormed == Disjoint(segments)

\* The positions some segment covers.
Loaded == UNION {segments[i].pos_begin..(PosEnd(segments[i]) - 1) :
                    i \in 1..Len(segments)}

\* A position that no segment reaches.
Beyond == MaxPos + (IF segments = << >> THEN 0 ELSE PosEnd(Last(segments)))

\* numSet() counts every loaded row once and count() finds exactly those
\* rows: SqliteTableModel::isCacheComplete compares numSet() with the number
\* of rows of the query.
NumSetExact ==
    /\ NumSet(segments) = Cardinality(Loaded)
    /\ Loaded = {p \in 0..Beyond : Count(segments, p)}

\* smallestNonAvailableRange returns the smallest range that still holds
\* every row of [b, e) that is not loaded: what triggerCacheLoad then asks
\* the database for leaves no row out and starts and ends with a missing row.
RangeExact ==
    \A b \in 0..MaxPos, e \in 0..(MaxPos + 1) : b <= e =>
        LET r == SmallestNonAvailableRange(segments, b, e)
            missing == {p \in b..e : p < e /\ p \notin Loaded}
        IN  IF missing = {}
            THEN r[1] = r[2]
            ELSE /\ r[1] \in missing /\ r[2] - 1 \in missing
                 /\ \A p \in missing : r[1] <= p /\ p < r[2]

\* What the model and the loader are told of the cache is true of it, after
\* any mix of calls.
AnswersExact == NumSetExact /\ RangeExact

\* The cache is the sparse vector it says it resembles.
View == [p \in Loaded |-> At(segments, p)]

Abstract == INSTANCE SparseVector WITH vec <- View

ImplementsSparseVector == Abstract!Spec
===========================================================================
