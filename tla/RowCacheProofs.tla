-------------------------- MODULE RowCacheProofs --------------------------
(***************************************************************************)
(* The row cache keeps its segments non-empty, disjoint and in order,      *)
(* whatever the rows and positions, implements the sparse vector that      *)
(* RowCache.h says it resembles, and answers exactly what is loaded.       *)
(***************************************************************************)
EXTENDS RowCache, FiniteSetsExt, TLAPS, SequenceTheorems, FiniteSetTheorems,
        WellFoundedInduction

\* A set of naturals that is not empty has a least element.
LEMMA LeastNatural ==
    ASSUME NEW T \in SUBSET Nat, NEW n \in T
    PROVE  \E m \in T : \A k \in T : ~ (k < m)
<1>1. IsWellFoundedOn(OpToRel(<, Nat), Nat)
    BY NatLessThanWellFounded
<1>2. PICK m \in T : \A k \in T : ~ (<<k, m>> \in OpToRel(<, Nat))
    BY <1>1, WFMin
<1>3. \A k \in T : k < m => <<k, m>> \in OpToRel(<, Nat)
    BY DEF OpToRel
<1> QED
    BY <1>2, <1>3

\* Max picks the greatest element of a set of naturals with an upper bound.
LEMMA GreatestNatural ==
    ASSUME NEW T \in SUBSET Nat, NEW n \in T,
           NEW bound \in Nat, \A k \in T : k <= bound
    PROVE  Max(T) \in T /\ \A k \in T : k <= Max(T)
<1> DEFINE Upper == {b \in Nat : \A k \in T : k <= b}
<1>1. PICK m \in Upper : \A b \in Upper : ~ (b < m)
  <2>1. bound \in Upper /\ Upper \in SUBSET Nat
      OBVIOUS
  <2> HIDE DEF Upper
  <2> QED
      BY <2>1, LeastNatural
<1>2. m \in T
  <2>1. CASE m = 0
      BY <1>1, <2>1
  <2>2. CASE m # 0
    <3>1. m - 1 \in Nat /\ m - 1 < m
        BY <1>1, <2>2
    <3>2. PICK k \in T : ~ (k <= m - 1)
        BY <1>1, <3>1
    <3>3. k = m
        BY <1>1, <3>1, <3>2
    <3> QED
        BY <3>2, <3>3
  <2> QED
      BY <2>1, <2>2
<1>3. \E x \in T : \A y \in T : x >= y
    BY <1>1, <1>2
<1> QED
    BY <1>3 DEF Max

\* A segment of a well-typed cache has a position and a sequence of rows.
LEMMA SegmentFields ==
    ASSUME NEW segs \in Seq(Segment)
    PROVE  /\ Len(segs) \in Nat
           /\ \A i \in 1..Len(segs) :
                  /\ segs[i].pos_begin \in Nat
                  /\ segs[i].entries \in Seq(Values)
                  /\ Len(segs[i].entries) \in Nat
                  /\ PosEnd(segs[i]) = segs[i].pos_begin + Len(segs[i].entries)
<1>1. \A i \in 1..Len(segs) : segs[i] \in Segment
    BY ElementOfSeq
<1>2. \A i \in 1..Len(segs) :
          segs[i].pos_begin \in Nat /\ segs[i].entries \in Seq(Values)
    BY <1>1 DEF Segment
<1> QED
    BY <1>2 DEF PosEnd

\* getSegmentBeyond finds the boundary between the segments that start at or
\* before pos and those that start after it.
LEMMA BeyondProperties ==
    ASSUME NEW segs \in Seq(Segment), NEW pos \in Nat
    PROVE  LET k == GetSegmentBeyond(segs, pos)
           IN  /\ k \in 1..(Len(segs) + 1)
               /\ \A j \in 1..Len(segs) : j < k => segs[j].pos_begin <= pos
               /\ k <= Len(segs) => pos < segs[k].pos_begin
<1> DEFINE T == {m \in Nat : /\ m >= 1
                             /\ m <= Len(segs) => pos < segs[m].pos_begin}
<1>1. Len(segs) \in Nat /\ Len(segs) + 1 \in T
    OBVIOUS
<1>2. PICK m \in T : \A j \in T : ~ (j < m)
    BY <1>1, LeastNatural
<1>3. m \in 1..(Len(segs) + 1)
    BY <1>1, <1>2
<1>4. \A j \in 1..Len(segs) : j < m => segs[j].pos_begin <= pos
  <2> SUFFICES ASSUME NEW j \in 1..Len(segs), j < m
               PROVE  segs[j].pos_begin <= pos
      OBVIOUS
  <2>1. j \notin T
      BY <1>2
  <2>2. segs[j].pos_begin \in Nat
      BY SegmentFields
  <2> QED
      BY <2>1, <2>2
<1> QED
    BY <1>2, <1>3, <1>4 DEF GetSegmentBeyond

(***************************************************************************)
(* What inserting, removing and replacing do to a sequence, element by     *)
(* element.                                                                *)
(***************************************************************************)
IsInsertion(t, s, i, e) ==
    /\ Len(t) = Len(s) + 1
    /\ \A j \in 1..(Len(s) + 1) :
           t[j] = IF j < i THEN s[j] ELSE IF j = i THEN e ELSE s[j - 1]

\* InsertAt puts the element at its index and moves the later ones up.
LEMMA InsertAtElements ==
    ASSUME NEW S, NEW s \in Seq(S), NEW i \in 1..(Len(s) + 1), NEW e \in S
    PROVE  /\ InsertAt(s, i, e) \in Seq(S)
           /\ IsInsertion(InsertAt(s, i, e), s, i, e)
<1> DEFINE front == SubSeq(s, 1, i - 1)
           back == SubSeq(s, i, Len(s))
<1>1. /\ front \in Seq(S) /\ Len(front) = i - 1
      /\ \A j \in 1..(i - 1) : front[j] = s[j]
    OBVIOUS
<1>2. /\ back \in Seq(S) /\ Len(back) = Len(s) - i + 1
      /\ \A j \in 1..(Len(s) - i + 1) : back[j] = s[i + j - 1]
  <2>1. \A j \in i..Len(s) : s[j] \in S
      OBVIOUS
  <2> QED
      BY <2>1, SubSeqProperties
<1>3. InsertAt(s, i, e) = front \o <<e>> \o back
    BY DEF InsertAt
<1> HIDE DEF front, back
<1>4. /\ front \o <<e>> \in Seq(S) /\ Len(front \o <<e>>) = i
      /\ \A j \in 1..i : (front \o <<e>>)[j] = IF j < i THEN s[j] ELSE e
    BY <1>1
<1> QED
    BY <1>2, <1>3, <1>4, ConcatProperties DEF IsInsertion

\* RemoveAt takes one element out and moves the later ones down.
LEMMA RemoveAtElements ==
    ASSUME NEW S, NEW s \in Seq(S), NEW i \in 1..Len(s)
    PROVE  /\ RemoveAt(s, i) \in Seq(S)
           /\ Len(RemoveAt(s, i)) = Len(s) - 1
           /\ \A j \in 1..(Len(s) - 1) :
                  RemoveAt(s, i)[j] = IF j < i THEN s[j] ELSE s[j + 1]
<1> DEFINE front == SubSeq(s, 1, i - 1)
           back == SubSeq(s, i + 1, Len(s))
<1>1. /\ front \in Seq(S) /\ Len(front) = i - 1
      /\ \A j \in 1..(i - 1) : front[j] = s[j]
    OBVIOUS
<1>2. /\ back \in Seq(S) /\ Len(back) = Len(s) - i
      /\ \A j \in 1..(Len(s) - i) : back[j] = s[i + j]
  <2>1. \A j \in (i + 1)..Len(s) : s[j] \in S
      OBVIOUS
  <2> QED
      BY <2>1, SubSeqProperties
<1>3. RemoveAt(s, i) = front \o back
    BY DEF RemoveAt
<1> HIDE DEF front, back
<1> QED
    BY <1>1, <1>2, <1>3, ConcatProperties

\* Giving one segment other entries leaves the rest of the sequence alone.
LEMMA WithEntriesElements ==
    ASSUME NEW segs \in Seq(Segment), NEW i \in 1..Len(segs),
           NEW es \in Seq(Values)
    PROVE  LET t == WithEntries(segs, i, es)
           IN  /\ t \in Seq(Segment) /\ Len(t) = Len(segs)
               /\ \A j \in 1..Len(segs) :
                      /\ t[j].pos_begin = segs[j].pos_begin
                      /\ t[j].entries = IF j = i THEN es ELSE segs[j].entries
<1> DEFINE new == [pos_begin |-> segs[i].pos_begin, entries |-> es]
<1>1. new \in Segment /\ new.pos_begin = segs[i].pos_begin /\ new.entries = es
    BY ElementOfSeq DEF Segment
<1>2. WithEntries(segs, i, es) = [segs EXCEPT ![i] = new]
    BY DEF WithEntries, ReplaceAt
<1> HIDE DEF new
<1> QED
    BY <1>1, <1>2, ExceptSeq

\* The segments can be moved by n when none of them leaves the naturals.
LEMMA ShiftElements ==
    ASSUME NEW segs \in Seq(Segment), NEW k \in Nat, NEW n \in Int,
           \A j \in 1..Len(segs) : j >= k => segs[j].pos_begin + n >= 0
    PROVE  LET t == Shift(segs, k, n)
           IN  /\ t \in Seq(Segment) /\ Len(t) = Len(segs)
               /\ \A j \in 1..Len(segs) :
                      /\ t[j].entries = segs[j].entries
                      /\ t[j].pos_begin = IF j < k THEN segs[j].pos_begin
                                          ELSE segs[j].pos_begin + n
<1> DEFINE moved(j) == [pos_begin |-> segs[j].pos_begin + n,
                        entries |-> segs[j].entries]
           e(j) == IF j < k THEN segs[j] ELSE moved(j)
<1>1. \A j \in 1..Len(segs) : segs[j] \in Segment
    BY ElementOfSeq
<1>2. \A j \in 1..Len(segs) :
          /\ segs[j].pos_begin \in Nat /\ segs[j].entries \in Seq(Values)
    BY <1>1 DEF Segment
<1>3. \A j \in 1..Len(segs) : j >= k => moved(j) \in Segment
    BY <1>2 DEF Segment
<1>4. \A j \in 1..Len(segs) :
          /\ moved(j).pos_begin = segs[j].pos_begin + n
          /\ moved(j).entries = segs[j].entries
    OBVIOUS
<1>5. Shift(segs, k, n) = [j \in 1..Len(segs) |-> e(j)]
    BY DEF Shift
<1>6. \A j \in 1..Len(segs) : e(j) \in Segment
  <2> HIDE DEF moved
  <2> QED BY <1>1, <1>3
<1>7. /\ Shift(segs, k, n) \in Seq(Segment)
      /\ Len(Shift(segs, k, n)) = Len(segs)
      /\ \A j \in 1..Len(segs) : Shift(segs, k, n)[j] = e(j)
  <2> HIDE DEF e
  <2> QED BY <1>5, <1>6
<1> HIDE DEF moved
<1> QED
    BY <1>4, <1>7

---------------------------------------------------------------------------
(***************************************************************************)
(* The disjointness of the segments as a statement about numbers: n        *)
(* segments, the i-th of which starts at b[i] and holds l[i] rows.         *)
(***************************************************************************)
Spaced(n, b, l) ==
    /\ \A i \in 1..n : b[i] \in Nat /\ l[i] \in Nat /\ l[i] > 0
    /\ \A i, j \in 1..n : i < j => b[i] + l[i] <= b[j]

Begins(segs) == [i \in 1..Len(segs) |-> segs[i].pos_begin]
Lengths(segs) == [i \in 1..Len(segs) |-> Len(segs[i].entries)]

\* Segments that do not overlap, seen as their positions and lengths.
LEMMA DisjointIsSpaced ==
    ASSUME NEW segs \in Seq(Segment)
    PROVE  /\ Begins(segs) \in [1..Len(segs) -> Nat]
           /\ Lengths(segs) \in [1..Len(segs) -> Nat]
           /\ Disjoint(segs) <=>
                  Spaced(Len(segs), Begins(segs), Lengths(segs))
<1>1. /\ Begins(segs) \in [1..Len(segs) -> Nat]
      /\ Lengths(segs) \in [1..Len(segs) -> Nat]
    BY SegmentFields DEF Begins, Lengths
<1>2. \A i \in 1..Len(segs) :
          PosEnd(segs[i]) = Begins(segs)[i] + Lengths(segs)[i]
    BY SegmentFields DEF Begins, Lengths
<1> QED
    BY <1>1, <1>2 DEF Disjoint, Spaced, Begins, Lengths

\* A segment changes its length and the later ones move by e.
Resized(n, b, l, k, e, b2, l2) ==
    /\ \A j \in 1..n : b2[j] \in Nat /\ l2[j] \in Nat
    /\ \A j \in 1..n : j < k => b2[j] = b[j]
    /\ \A j \in 1..n : j >= k => b2[j] = b[j] + e
    /\ \A j \in 1..n : j # k - 1 => l2[j] = l[j]
    /\ k > 1 => l2[k - 1] > 0
    /\ \A j \in 1..n : k > 1 /\ j >= k => b[k - 1] + l2[k - 1] <= b[j] + e

\* A segment that changes its length and the later ones that move with it
\* stay apart.
LEMMA ResizeKeepsSpaced ==
    ASSUME NEW n \in Nat, NEW b, NEW l,
           Spaced(n, b, l),
           NEW k \in 1..(n + 1), NEW e \in Int,
           NEW b2, NEW l2,
           Resized(n, b, l, k, e, b2, l2)
    PROVE  Spaced(n, b2, l2)
<1>1. \A i, j \in 1..n : i < j => b[i] + l[i] <= b[j]
    BY DEF Spaced
<1>2. ASSUME NEW j \in 1..n
      PROVE  b2[j] \in Nat /\ l2[j] \in Nat /\ l2[j] > 0
  <2>1. b2[j] \in Nat /\ l2[j] \in Nat
      BY DEF Resized
  <2>2. CASE j # k - 1
    <3>1. l2[j] = l[j] /\ l[j] > 0
        BY <2>2 DEF Spaced, Resized
    <3> QED
        BY <2>1, <3>1
  <2>3. CASE j = k - 1
      BY <2>1, <2>3 DEF Resized
  <2> QED
      BY <2>2, <2>3
<1>3. ASSUME NEW i \in 1..n, NEW j \in 1..n, i < j
      PROVE  b2[i] + l2[i] <= b2[j]
  <2>0. /\ b[i] \in Nat /\ l[i] \in Nat /\ b[j] \in Nat
        /\ b2[i] \in Nat /\ l2[i] \in Nat /\ b2[j] \in Nat
        /\ b[i] + l[i] <= b[j]
      BY <1>1, <1>2, <1>3 DEF Spaced
  <2>1. CASE j < k
    <3>1. b2[i] = b[i] /\ b2[j] = b[j] /\ l2[i] = l[i]
        BY <1>3, <2>1 DEF Resized
    <3> QED
        BY <2>0, <3>1
  <2>2. CASE i >= k
    <3>1. b2[i] = b[i] + e /\ b2[j] = b[j] + e /\ l2[i] = l[i]
        BY <1>3, <2>2 DEF Resized
    <3> QED
        BY <2>0, <3>1
  <2>3. CASE j >= k /\ i = k - 1
      BY <1>3, <2>3 DEF Resized
  <2>4. CASE j >= k /\ i < k - 1
    <3>1. b2[i] = b[i] /\ b2[j] = b[j] + e /\ l2[i] = l[i]
        BY <2>4 DEF Resized
    <3>2. /\ b[k - 1] + l2[k - 1] <= b[j] + e /\ l2[k - 1] > 0
          /\ b[k - 1] \in Nat /\ l2[k - 1] \in Nat
        BY <2>4 DEF Resized
    <3>3. b[i] + l[i] <= b[k - 1]
        BY <1>1, <2>4
    <3> QED
        BY <2>0, <3>1, <3>2, <3>3
  <2> QED
      BY <2>1, <2>2, <2>3, <2>4
<1> QED
    BY <1>2, <1>3 DEF Spaced

\* A segment of one row enters at index k and the later ones move by e.
Entered(n, b, l, k, pos, e, b2, l2) ==
    /\ \A j \in 1..(n + 1) : b2[j] \in Nat /\ l2[j] \in Nat
    /\ \A j \in 1..n : j < k => b2[j] = b[j] /\ l2[j] = l[j]
    /\ b2[k] = pos /\ l2[k] = 1
    /\ \A j \in 1..n : j >= k => b2[j + 1] = b[j] + e /\ l2[j + 1] = l[j]
    /\ \A j \in 1..n : j < k => b[j] + l[j] <= pos
    /\ \A j \in 1..n : j >= k => pos < b[j] + e

\* A segment that enters a gap, with the later ones moved, overlaps none.
LEMMA NewSegmentKeepsSpaced ==
    ASSUME NEW n \in Nat, NEW b, NEW l,
           Spaced(n, b, l),
           NEW k \in 1..(n + 1), NEW e \in Nat, NEW pos \in Nat,
           NEW b2, NEW l2,
           Entered(n, b, l, k, pos, e, b2, l2)
    PROVE  Spaced(n + 1, b2, l2)
<1>1. /\ \A i, j \in 1..n : i < j => b[i] + l[i] <= b[j]
      /\ \A j \in 1..n : b[j] \in Nat /\ l[j] \in Nat /\ l[j] > 0
    BY DEF Spaced
<1>2. \A j \in 1..(n + 1) : j < k =>
          j \in 1..n /\ b2[j] = b[j] /\ l2[j] = l[j] /\ b[j] + l[j] <= pos
    BY DEF Entered
<1>3. ASSUME NEW j \in 1..(n + 1), j > k
      PROVE  /\ j - 1 \in 1..n /\ pos < b[j - 1] + e
             /\ b2[j] = b[j - 1] + e /\ l2[j] = l[j - 1]
  <2>1. j - 1 \in 1..n /\ j - 1 >= k /\ (j - 1) + 1 = j
      BY <1>3
  <2>2. b2[(j - 1) + 1] = b[j - 1] + e /\ l2[(j - 1) + 1] = l[j - 1]
      BY <2>1 DEF Entered
  <2>3. pos < b[j - 1] + e
      BY <2>1 DEF Entered
  <2> QED
      BY <2>1, <2>2, <2>3
<1>4. b2[k] = pos /\ l2[k] = 1
    BY DEF Entered
<1>5. ASSUME NEW j \in 1..(n + 1)
      PROVE  b2[j] \in Nat /\ l2[j] \in Nat /\ l2[j] > 0
  <2>0. b2[j] \in Nat /\ l2[j] \in Nat
      BY DEF Entered
  <2>1. CASE j < k
      BY <1>1, <1>2, <2>0, <2>1
  <2>2. CASE j > k
      BY <1>1, <1>3, <2>0, <2>2
  <2> QED
      BY <1>4, <2>0, <2>1, <2>2
<1>6. ASSUME NEW i \in 1..(n + 1), NEW j \in 1..(n + 1), i < j
      PROVE  b2[i] + l2[i] <= b2[j]
  <2>0. b2[i] \in Nat /\ l2[i] \in Nat /\ b2[j] \in Nat
      BY DEF Entered
  <2>1. CASE j < k
      BY <1>1, <1>2, <1>6, <2>1
  <2>2. CASE j = k
      BY <1>2, <1>4, <1>6, <2>2
  <2>3. CASE i = k
    <3>1. pos < b2[j]
        BY <1>1, <1>3, <1>6, <2>0, <2>3
    <3> QED
        BY <1>4, <2>0, <2>3, <3>1
  <2>4. CASE j > k /\ i < k
    <3>1. /\ b2[i] = b[i] /\ l2[i] = l[i] /\ b[i] + l[i] <= pos
          /\ b[i] \in Nat /\ l[i] \in Nat
        BY <1>1, <1>2, <2>4
    <3>2. pos < b2[j] /\ b2[j] \in Nat
        BY <1>1, <1>3, <2>0, <2>4
    <3> QED
        BY <2>0, <3>1, <3>2
  <2>5. CASE i > k
    <3>1. /\ i - 1 \in 1..n /\ j - 1 \in 1..n /\ i - 1 < j - 1
          /\ b2[i] = b[i - 1] + e /\ l2[i] = l[i - 1]
          /\ b2[j] = b[j - 1] + e
        BY <1>3, <1>6, <2>5
    <3>2. /\ b[i - 1] + l[i - 1] <= b[j - 1]
          /\ b[i - 1] \in Nat /\ l[i - 1] \in Nat /\ b[j - 1] \in Nat
        BY <1>1, <3>1
    <3> QED
        BY <2>0, <3>1, <3>2
  <2> QED
      BY <1>6, <2>1, <2>2, <2>3, <2>4, <2>5
<1> QED
    BY <1>5, <1>6 DEF Spaced

\* Segment m, of one row, leaves and the later ones move down by one.
Removed(n, b, l, m, b2, l2) ==
    /\ \A j \in 1..(n - 1) : b2[j] \in Nat /\ l2[j] \in Nat
    /\ \A j \in 1..(n - 1) : j < m => b2[j] = b[j] /\ l2[j] = l[j]
    /\ \A j \in 1..(n - 1) :
           j >= m => b2[j] = b[j + 1] - 1 /\ l2[j] = l[j + 1]

\* Without one segment of length one the others, moved down, stay apart.
LEMMA RemovalKeepsSpaced ==
    ASSUME NEW n \in Nat, NEW b, NEW l,
           Spaced(n, b, l), NEW m \in 1..n,
           NEW b2, NEW l2,
           Removed(n, b, l, m, b2, l2)
    PROVE  Spaced(n - 1, b2, l2)
<1>1. \A i, j \in 1..n : i < j => b[i] + l[i] <= b[j]
    BY DEF Spaced
<1>2. \A j \in 1..n : b[j] \in Nat /\ l[j] \in Nat /\ l[j] > 0
    BY DEF Spaced
<1>3. ASSUME NEW j \in 1..(n - 1)
      PROVE  b2[j] \in Nat /\ l2[j] \in Nat /\ l2[j] > 0
  <2>0. b2[j] \in Nat /\ l2[j] \in Nat
      BY DEF Removed
  <2>1. CASE j < m
    <3>1. l2[j] = l[j]
        BY <2>1 DEF Removed
    <3> QED
        BY <1>2, <2>0, <3>1
  <2>2. CASE j >= m
    <3>1. j + 1 \in 1..n /\ l2[j] = l[j + 1]
        BY <2>2 DEF Removed
    <3> QED
        BY <1>2, <2>0, <3>1
  <2> QED
      BY <2>1, <2>2
<1>4. ASSUME NEW i \in 1..(n - 1), NEW j \in 1..(n - 1), i < j
      PROVE  b2[i] + l2[i] <= b2[j]
  <2>1. CASE j < m
    <3>1. b2[i] = b[i] /\ l2[i] = l[i] /\ b2[j] = b[j]
        BY <1>4, <2>1 DEF Removed
    <3> QED
        BY <1>1, <1>4, <3>1
  <2>2. CASE i >= m
    <3>1. i + 1 \in 1..n /\ j + 1 \in 1..n /\ i + 1 < j + 1
        BY <1>4
    <3>2. /\ b[i + 1] + l[i + 1] <= b[j + 1]
          /\ b[i + 1] \in Nat /\ l[i + 1] \in Nat /\ b[j + 1] \in Nat
        BY <1>1, <1>2, <3>1
    <3>3. /\ b2[i] = b[i + 1] - 1 /\ l2[i] = l[i + 1]
          /\ b2[j] = b[j + 1] - 1
        BY <1>4, <2>2 DEF Removed
    <3> QED
        BY <3>2, <3>3
  <2>3. CASE i < m /\ j >= m
    <3>1. i \in 1..n /\ j + 1 \in 1..n /\ m < j + 1
        BY <2>3
    <3>2. /\ b[i] + l[i] <= b[m] /\ b[m] + l[m] <= b[j + 1] /\ l[m] > 0
          /\ b[i] \in Nat /\ l[i] \in Nat /\ b[m] \in Nat /\ l[m] \in Nat
          /\ b[j + 1] \in Nat
        BY <1>1, <1>2, <2>3, <3>1
    <3>3. b2[i] = b[i] /\ l2[i] = l[i] /\ b2[j] = b[j + 1] - 1
        BY <2>3 DEF Removed
    <3> QED
        BY <3>2, <3>3
  <2> QED
      BY <2>1, <2>2, <2>3
<1> QED
    BY <1>3, <1>4 DEF Spaced

---------------------------------------------------------------------------
(***************************************************************************)
(* Every operation keeps the segments disjoint and in order.               *)
(***************************************************************************)

\* What lies on either side of the index getSegmentBeyond finds.
LEMMA Neighbours ==
    ASSUME NEW segs \in Seq(Segment), Disjoint(segs), NEW pos \in Nat
    PROVE  LET k == GetSegmentBeyond(segs, pos)
           IN  /\ k \in 1..(Len(segs) + 1)
               /\ \A j \in 1..Len(segs) : j < k => segs[j].pos_begin <= pos
               /\ \A j \in 1..Len(segs) : j >= k => pos < segs[j].pos_begin
               /\ \A j \in 1..Len(segs) : j < k - 1 => PosEnd(segs[j]) <= pos
<1> DEFINE k == GetSegmentBeyond(segs, pos)
<1>1. /\ k \in 1..(Len(segs) + 1)
      /\ \A j \in 1..Len(segs) : j < k => segs[j].pos_begin <= pos
      /\ k <= Len(segs) => pos < segs[k].pos_begin
    BY BeyondProperties
<1> HIDE DEF k
<1>2. ASSUME NEW j \in 1..Len(segs), j >= k
      PROVE  pos < segs[j].pos_begin
  <2>1. k \in 1..Len(segs) /\ pos < segs[k].pos_begin
      BY <1>1, <1>2, SegmentFields
  <2>2. CASE j = k
      BY <2>1, <2>2
  <2>3. CASE j > k
    <3>1. PosEnd(segs[k]) <= segs[j].pos_begin
        BY <2>1, <2>3 DEF Disjoint
    <3> QED
        BY <2>1, <3>1, SegmentFields
  <2> QED
      BY <1>2, <2>1, <2>2, <2>3
<1>3. ASSUME NEW j \in 1..Len(segs), j < k - 1
      PROVE  PosEnd(segs[j]) <= pos
  <2>1. k - 1 \in 1..Len(segs) /\ segs[k - 1].pos_begin <= pos
      BY <1>1, <1>3, SegmentFields
  <2>2. PosEnd(segs[j]) <= segs[k - 1].pos_begin
      BY <1>3, <2>1 DEF Disjoint
  <2> QED
      BY <2>1, <2>2, SegmentFields
<1> QED
    BY <1>1, <1>2, <1>3 DEF k

\* Resizing the segment before index k and moving the later ones.
LEMMA ResizeKeepsDisjoint ==
    ASSUME NEW segs \in Seq(Segment), NEW t \in Seq(Segment), Disjoint(segs),
           NEW k \in 1..(Len(segs) + 1), NEW e \in Int,
           Len(t) = Len(segs),
           \A j \in 1..Len(segs) :
               t[j].pos_begin = IF j < k THEN segs[j].pos_begin
                                ELSE segs[j].pos_begin + e,
           \A j \in 1..Len(segs) :
               j # k - 1 => Len(t[j].entries) = Len(segs[j].entries),
           k > 1 => Len(t[k - 1].entries) > 0,
           \A j \in 1..Len(segs) : k > 1 /\ j >= k =>
               segs[k - 1].pos_begin + Len(t[k - 1].entries)
                   <= segs[j].pos_begin + e
    PROVE  Disjoint(t)
<1> DEFINE b == Begins(segs)
           l == Lengths(segs)
           b2 == Begins(t)
           l2 == Lengths(t)
<1>1. Spaced(Len(segs), b, l)
    BY DisjointIsSpaced
<1>2. /\ \A j \in 1..Len(segs) : b[j] = segs[j].pos_begin
      /\ \A j \in 1..Len(segs) : l[j] = Len(segs[j].entries)
      /\ \A j \in 1..Len(segs) : b2[j] = t[j].pos_begin
      /\ \A j \in 1..Len(segs) : l2[j] = Len(t[j].entries)
    BY DEF Begins, Lengths
<1>3. \A j \in 1..Len(segs) : b2[j] \in Nat /\ l2[j] \in Nat
    BY DisjointIsSpaced
<1>4. Len(segs) \in Nat
    BY SegmentFields
<1> HIDE DEF b, l, b2, l2
<1>5. Resized(Len(segs), b, l, k, e, b2, l2)
  <2>1. \A j \in 1..Len(segs) : j < k => b2[j] = b[j]
      BY <1>2
  <2>2. \A j \in 1..Len(segs) : j >= k => b2[j] = b[j] + e
      BY <1>2
  <2>3. \A j \in 1..Len(segs) : j # k - 1 => l2[j] = l[j]
      BY <1>2
  <2>4. k > 1 => k - 1 \in 1..Len(segs)
      BY <1>4
  <2>5. k > 1 => l2[k - 1] > 0
      BY <1>2, <2>4
  <2>6. ASSUME NEW j \in 1..Len(segs), k > 1, j >= k
        PROVE  b[k - 1] + l2[k - 1] <= b[j] + e
    <3>1. segs[k - 1].pos_begin + Len(t[k - 1].entries)
              <= segs[j].pos_begin + e
        BY <2>6
    <3>2. /\ b[k - 1] = segs[k - 1].pos_begin /\ b[j] = segs[j].pos_begin
          /\ l2[k - 1] = Len(t[k - 1].entries)
        BY <1>2, <2>4, <2>6
    <3> QED
        BY <3>1, <3>2
  <2> QED
      BY <1>3, <2>1, <2>2, <2>3, <2>5, <2>6 DEF Resized
<1>6. Spaced(Len(t), b2, l2)
    BY <1>1, <1>4, <1>5, ResizeKeepsSpaced
<1> QED
    BY <1>6, DisjointIsSpaced DEF b2, l2

\* The segment before index k gets the entries es2, the later ones move by e.
LEMMA RefillKeepsDisjoint ==
    ASSUME NEW segs \in Seq(Segment), Disjoint(segs),
           NEW k \in 2..(Len(segs) + 1), NEW e \in Int,
           NEW es2 \in Seq(Values), Len(es2) > 0,
           \A j \in 1..Len(segs) : j >= k =>
               segs[k - 1].pos_begin + Len(es2) <= segs[j].pos_begin + e
    PROVE  LET t == WithEntries(segs, k - 1, es2)
           IN  /\ t \in Seq(Segment)
               /\ e = 0 => Disjoint(t)
               /\ Shift(t, k, e) \in Seq(Segment)
               /\ Disjoint(Shift(t, k, e))
<1> DEFINE t == WithEntries(segs, k - 1, es2)
           s == Shift(t, k, e)
<1>0. Len(segs) \in Nat /\ k - 1 \in 1..Len(segs) /\ Len(es2) \in Nat
    BY SegmentFields
<1>1. /\ t \in Seq(Segment) /\ Len(t) = Len(segs)
      /\ \A j \in 1..Len(segs) :
             /\ t[j].pos_begin = segs[j].pos_begin
             /\ t[j].entries = IF j = k - 1 THEN es2 ELSE segs[j].entries
    BY <1>0, WithEntriesElements
<1>2. \A j \in 1..Len(segs) : segs[j].pos_begin \in Nat
    BY SegmentFields
<1> HIDE DEF t
<1>3. ASSUME NEW j \in 1..Len(t), j >= k
      PROVE  t[j].pos_begin + e >= 0
  <2>1. j \in 1..Len(segs) /\ t[j].pos_begin = segs[j].pos_begin
      BY <1>1
  <2>2. segs[k - 1].pos_begin + Len(es2) <= segs[j].pos_begin + e
      BY <1>3, <2>1
  <2> QED
      BY <1>0, <1>2, <2>1, <2>2
<1>4. /\ s \in Seq(Segment) /\ Len(s) = Len(segs)
      /\ \A j \in 1..Len(segs) :
             /\ s[j].entries = t[j].entries
             /\ s[j].pos_begin = IF j < k THEN segs[j].pos_begin
                                 ELSE segs[j].pos_begin + e
    BY <1>1, <1>3, ShiftElements
<1> HIDE DEF s
<1>5. /\ Len(t[k - 1].entries) = Len(es2)
      /\ \A j \in 1..Len(segs) :
             j # k - 1 => Len(t[j].entries) = Len(segs[j].entries)
    BY <1>0, <1>1
<1>6. Disjoint(s)
  <2>1. /\ Len(s[k - 1].entries) = Len(es2)
        /\ \A j \in 1..Len(segs) :
               j # k - 1 => Len(s[j].entries) = Len(segs[j].entries)
      BY <1>0, <1>4, <1>5
  <2>2. /\ k \in 1..(Len(segs) + 1)
        /\ k > 1 => Len(s[k - 1].entries) > 0
        /\ \A j \in 1..Len(segs) : k > 1 /\ j >= k =>
               segs[k - 1].pos_begin + Len(s[k - 1].entries)
                   <= segs[j].pos_begin + e
      BY <1>0, <2>1
  <2> QED
      BY <1>4, <2>1, <2>2, ResizeKeepsDisjoint
<1>7. ASSUME e = 0
      PROVE  Disjoint(t)
  <2>1. \A j \in 1..Len(segs) : t[j].pos_begin = IF j < k
            THEN segs[j].pos_begin ELSE segs[j].pos_begin + e
      BY <1>1, <1>2, <1>7
  <2>2. /\ k \in 1..(Len(segs) + 1)
        /\ k > 1 => Len(t[k - 1].entries) > 0
        /\ \A j \in 1..Len(segs) : k > 1 /\ j >= k =>
               segs[k - 1].pos_begin + Len(t[k - 1].entries)
                   <= segs[j].pos_begin + e
      BY <1>0, <1>5
  <2> QED
      BY <1>1, <1>5, <2>1, <2>2, ResizeKeepsDisjoint
<1> QED
    BY <1>1, <1>4, <1>6, <1>7 DEF t, s

\* A segment for pos alone enters at the index getSegmentBeyond finds, and
\* the later ones move by e.
LEMMA EntryKeepsDisjoint ==
    ASSUME NEW segs \in Seq(Segment), Disjoint(segs),
           NEW k \in 1..(Len(segs) + 1), NEW e \in Nat,
           NEW pos \in Nat, NEW v \in Values,
           \A j \in 1..Len(segs) : j < k => PosEnd(segs[j]) <= pos,
           \A j \in 1..Len(segs) : j >= k => pos < segs[j].pos_begin
    PROVE  LET t == InsertAt(segs, k, NewSegment(pos, v))
           IN  /\ t \in Seq(Segment)
               /\ e = 0 => Disjoint(t)
               /\ Shift(t, k + 1, e) \in Seq(Segment)
               /\ Disjoint(Shift(t, k + 1, e))
<1> DEFINE t == InsertAt(segs, k, NewSegment(pos, v))
           s == Shift(t, k + 1, e)
           n == Len(segs)
           b == Begins(segs)
           l == Lengths(segs)
<1>0. /\ n \in Nat
      /\ \A j \in 1..n : segs[j].pos_begin \in Nat
      /\ \A j \in 1..n : Len(segs[j].entries) \in Nat
      /\ \A j \in 1..n : PosEnd(segs[j]) = b[j] + l[j]
      /\ \A j \in 1..n : b[j] = segs[j].pos_begin /\ l[j] = Len(segs[j].entries)
    BY SegmentFields DEF Begins, Lengths
<1>1. /\ NewSegment(pos, v) \in Segment
      /\ NewSegment(pos, v).pos_begin = pos
      /\ Len(NewSegment(pos, v).entries) = 1
    BY DEF NewSegment, Segment
<1>2. /\ t \in Seq(Segment) /\ Len(t) = n + 1
      /\ \A j \in 1..(n + 1) : t[j] = IF j < k THEN segs[j]
                                      ELSE IF j = k THEN NewSegment(pos, v)
                                      ELSE segs[j - 1]
  <2> DEFINE new == NewSegment(pos, v)
  <2>1. new \in Segment
      BY <1>1
  <2> HIDE DEF new, t, s, n, b, l
  <2>2. /\ InsertAt(segs, k, new) \in Seq(Segment)
        /\ IsInsertion(InsertAt(segs, k, new), segs, k, new)
      BY <2>1, InsertAtElements
  <2> QED
      BY <2>2 DEF IsInsertion, new, t, n
<1> HIDE DEF t, n, b, l
<1>3. k \in 1..(n + 1)
    BY DEF n
<1>4. Spaced(n, b, l)
    BY DisjointIsSpaced DEF n, b, l
<1>5. ASSUME NEW f \in Nat, NEW u \in Seq(Segment), Len(u) = n + 1,
             \A j \in 1..(n + 1) :
                 /\ u[j].entries = t[j].entries
                 /\ u[j].pos_begin = IF j < k + 1 THEN t[j].pos_begin
                                     ELSE t[j].pos_begin + f
      PROVE  Disjoint(u)
  <2> DEFINE b2 == Begins(u)
             l2 == Lengths(u)
  <2>1. \A j \in 1..(n + 1) : /\ b2[j] = u[j].pos_begin /\ b2[j] \in Nat
                              /\ l2[j] = Len(u[j].entries) /\ l2[j] \in Nat
      BY <1>5, SegmentFields DEF Begins, Lengths
  <2> HIDE DEF b2, l2
  <2>2. ASSUME NEW j \in 1..n, j < k
        PROVE  b2[j] = b[j] /\ l2[j] = l[j] /\ b[j] + l[j] <= pos
    <3>1. j \in 1..(n + 1) /\ t[j] = segs[j]
        BY <1>0, <1>2, <2>2
    <3>2. b2[j] = segs[j].pos_begin /\ l2[j] = Len(segs[j].entries)
        BY <1>3, <1>5, <2>1, <2>2, <3>1
    <3>3. PosEnd(segs[j]) <= pos
        BY <2>2 DEF n
    <3> QED
        BY <1>0, <3>2, <3>3
  <2>3. b2[k] = pos /\ l2[k] = 1
    <3>1. t[k] = NewSegment(pos, v)
        BY <1>2, <1>3
    <3>2. u[k].entries = t[k].entries /\ u[k].pos_begin = t[k].pos_begin
        BY <1>3, <1>5
    <3> QED
        BY <1>1, <1>3, <2>1, <3>1, <3>2
  <2>4. ASSUME NEW j \in 1..n, j >= k
        PROVE  b2[j + 1] = b[j] + f /\ l2[j + 1] = l[j] /\ pos < b[j] + f
    <3>1. j + 1 \in 1..(n + 1) /\ t[j + 1] = segs[j]
      <4>1. j + 1 \in 1..(n + 1) /\ ~(j + 1 < k) /\ j + 1 # k
            /\ (j + 1) - 1 = j
          BY <1>0, <1>3, <2>4
      <4>2. t[j + 1] = segs[(j + 1) - 1]
          BY <1>2, <4>1
      <4> QED
          BY <4>1, <4>2
    <3>2. ~(j + 1 < k + 1)
        BY <1>0, <1>3, <2>4
    <3>3. u[j + 1].entries = segs[j].entries
          /\ u[j + 1].pos_begin = segs[j].pos_begin + f
        BY <1>5, <3>1, <3>2
    <3>4. pos < segs[j].pos_begin
        BY <2>4 DEF n
    <3>5. pos < b[j] + f
        BY <1>0, <3>4
    <3> QED
        BY <1>0, <2>1, <3>1, <3>3, <3>5
  <2>5. Entered(n, b, l, k, pos, f, b2, l2)
      BY <2>1, <2>2, <2>3, <2>4 DEF Entered
  <2>6. Spaced(n + 1, b2, l2)
      BY <1>0, <1>3, <1>4, <2>5, NewSegmentKeepsSpaced
  <2> QED
      BY <1>5, <2>6, DisjointIsSpaced DEF b2, l2
<1>6. /\ s \in Seq(Segment) /\ Len(s) = Len(t)
      /\ \A j \in 1..Len(t) :
             /\ s[j].entries = t[j].entries
             /\ s[j].pos_begin = IF j < k + 1 THEN t[j].pos_begin
                                 ELSE t[j].pos_begin + e
  <2>1. \A j \in 1..Len(t) : t[j].pos_begin + e >= 0
      BY <1>2, SegmentFields
  <2> QED
      BY <1>2, <2>1, ShiftElements
<1>7. Disjoint(s)
  <2> HIDE DEF s
  <2> QED BY <1>2, <1>5, <1>6
<1>8. Disjoint(t)
  <2>1. \A j \in 1..(n + 1) : t[j].pos_begin =
            IF j < k + 1 THEN t[j].pos_begin ELSE t[j].pos_begin + 0
      BY <1>2, SegmentFields
  <2> QED
      BY <1>2, <1>5, <2>1
<1> QED
    BY <1>2, <1>6, <1>7, <1>8 DEF t

\* The segment at index m, of one row, leaves; the later ones move down.
LEMMA RemovalKeepsDisjoint ==
    ASSUME NEW segs \in Seq(Segment), Disjoint(segs), NEW m \in 1..Len(segs)
    PROVE  /\ Shift(RemoveAt(segs, m), m, -1) \in Seq(Segment)
           /\ Disjoint(Shift(RemoveAt(segs, m), m, -1))
<1> DEFINE t == RemoveAt(segs, m)
           s == Shift(t, m, -1)
           n == Len(segs)
           b == Begins(segs)
           l == Lengths(segs)
           b2 == Begins(s)
           l2 == Lengths(s)
<1>1. /\ n \in Nat /\ m \in 1..n /\ Spaced(n, b, l)
      /\ \A j \in 1..n : /\ b[j] = segs[j].pos_begin
                         /\ l[j] = Len(segs[j].entries)
    BY SegmentFields, DisjointIsSpaced DEF Begins, Lengths
<1>2. /\ t \in Seq(Segment) /\ Len(t) = n - 1
      /\ \A j \in 1..(n - 1) : t[j] = IF j < m THEN segs[j] ELSE segs[j + 1]
    BY RemoveAtElements
<1> HIDE DEF t, n, b, l
<1>3. ASSUME NEW j \in 1..(n - 1), j >= m
      PROVE  /\ t[j].pos_begin = b[j + 1]
             /\ b[j + 1] + (-1) \in Nat
             /\ Len(t[j].entries) = l[j + 1]
  <2>1. j + 1 \in 1..n /\ t[j] = segs[j + 1]
      BY <1>1, <1>2, <1>3
  <2>2. b[m] + l[m] <= b[j + 1] /\ b[m] \in Nat /\ b[j + 1] \in Nat
        /\ l[m] \in Nat /\ l[m] > 0
      BY <1>1, <1>3, <2>1 DEF Spaced
  <2> QED
      BY <1>1, <2>1, <2>2
<1>4. /\ s \in Seq(Segment) /\ Len(s) = n - 1
      /\ \A j \in 1..(n - 1) :
             /\ s[j].entries = t[j].entries
             /\ s[j].pos_begin = IF j < m THEN t[j].pos_begin
                                 ELSE t[j].pos_begin + (-1)
  <2>1. ASSUME NEW j \in 1..Len(t), j >= m
        PROVE  t[j].pos_begin + (-1) >= 0
    <3>1. j \in 1..(n - 1) /\ b[j + 1] + (-1) \in Nat
        BY <1>2, <1>3, <2>1
    <3> QED
        BY <1>3, <2>1, <3>1
  <2> QED
      BY <1>1, <1>2, <2>1, ShiftElements
<1>5. \A j \in 1..(n - 1) : /\ b2[j] = s[j].pos_begin /\ b2[j] \in Nat
                            /\ l2[j] = Len(s[j].entries) /\ l2[j] \in Nat
  <2> HIDE DEF s
  <2> QED BY <1>4, SegmentFields DEF Begins, Lengths
<1> HIDE DEF s, b2, l2
<1>6. ASSUME NEW j \in 1..(n - 1), j < m
      PROVE  b2[j] = b[j] /\ l2[j] = l[j]
  <2>1. t[j] = segs[j] /\ j \in 1..n
      BY <1>1, <1>2, <1>6
  <2> QED
      BY <1>1, <1>4, <1>5, <1>6, <2>1
<1>7. ASSUME NEW j \in 1..(n - 1), j >= m
      PROVE  b2[j] = b[j + 1] - 1 /\ l2[j] = l[j + 1]
  <2>1. s[j].pos_begin = t[j].pos_begin + (-1) /\ s[j].entries = t[j].entries
      BY <1>1, <1>4, <1>7
  <2>2. b[j + 1] \in Nat
      BY <1>1, <1>7 DEF Spaced
  <2> QED
      BY <1>3, <1>5, <1>7, <2>1, <2>2
<1>8. Removed(n, b, l, m, b2, l2)
    BY <1>5, <1>6, <1>7 DEF Removed
<1>9. Spaced(Len(s), b2, l2)
    BY <1>1, <1>4, <1>8, RemovalKeepsSpaced
<1> QED
    BY <1>4, <1>9, DisjointIsSpaced DEF b2, l2, s, t

\* The segments from index k on can move down into the gap below them.
LEMMA GapKeepsDisjoint ==
    ASSUME NEW segs \in Seq(Segment), Disjoint(segs),
           NEW k \in 1..(Len(segs) + 1), NEW pos \in Nat,
           k > 1 => PosEnd(segs[k - 1]) <= pos,
           \A j \in 1..Len(segs) : j >= k => pos < segs[j].pos_begin
    PROVE  Shift(segs, k, -1) \in Seq(Segment) /\ Disjoint(Shift(segs, k, -1))
<1>0. PICK e \in Int : e = -1
    OBVIOUS
<1> DEFINE s == Shift(segs, k, e)
<1>1. /\ Len(segs) \in Nat
      /\ \A j \in 1..Len(segs) : segs[j].pos_begin \in Nat
      /\ k > 1 => /\ k - 1 \in 1..Len(segs)
                  /\ Len(segs[k - 1].entries) \in Nat
                  /\ Len(segs[k - 1].entries) > 0
                  /\ segs[k - 1].pos_begin + Len(segs[k - 1].entries) <= pos
    BY SegmentFields DEF Disjoint
<1>2. \A j \in 1..Len(segs) : j >= k => segs[j].pos_begin + e >= 0
    BY <1>0, <1>1
<1>3. /\ s \in Seq(Segment) /\ Len(s) = Len(segs)
      /\ \A j \in 1..Len(segs) :
             /\ s[j].entries = segs[j].entries
             /\ s[j].pos_begin = IF j < k THEN segs[j].pos_begin
                                 ELSE segs[j].pos_begin + e
    BY <1>1, <1>2, ShiftElements
<1> HIDE DEF s
<1>4. /\ k > 1 => Len(s[k - 1].entries) > 0
      /\ \A j \in 1..Len(segs) :
             j # k - 1 => Len(s[j].entries) = Len(segs[j].entries)
    BY <1>1, <1>3
<1>5. ASSUME NEW j \in 1..Len(segs), k > 1, j >= k
      PROVE  segs[k - 1].pos_begin + Len(s[k - 1].entries)
                 <= segs[j].pos_begin + e
  <2>1. s[k - 1].entries = segs[k - 1].entries
      BY <1>1, <1>3, <1>5
  <2>2. pos < segs[j].pos_begin
      BY <1>5
  <2> QED
      BY <1>0, <1>1, <1>5, <2>1, <2>2
<1>6. \A j \in 1..Len(segs) : k > 1 /\ j >= k =>
          segs[k - 1].pos_begin + Len(s[k - 1].entries)
              <= segs[j].pos_begin + e
    BY <1>5
<1>7. Disjoint(s)
  <2>1. s \in Seq(Segment) /\ Len(s) = Len(segs)
      BY <1>3
  <2>2. \A j \in 1..Len(segs) :
            s[j].pos_begin = IF j < k THEN segs[j].pos_begin
                             ELSE segs[j].pos_begin + e
      BY <1>3
  <2> QED
      BY <1>4, <1>6, <2>1, <2>2, ResizeKeepsDisjoint, Zenon
<1> QED
    BY <1>0, <1>3, <1>7 DEF s

---------------------------------------------------------------------------
(* Where an operation on position pos finds itself: it inserts before index *)
(* k, or works on segment k - 1, at distance d from that segment's start.   *)
\* The facts every operation starts from, for its position and that index.
LEMMA Located ==
    ASSUME NEW segs \in Seq(Segment), Disjoint(segs), NEW pos \in Nat,
           NEW k, k = GetSegmentBeyond(segs, pos)
    PROVE  /\ Len(segs) \in Nat
           /\ k \in 1..(Len(segs) + 1)
           /\ \A j \in 1..Len(segs) : j >= k => pos < segs[j].pos_begin
           /\ \A j \in 1..Len(segs) : j < k - 1 => PosEnd(segs[j]) <= pos
           /\ k > 1 =>
                  /\ k - 1 \in 1..Len(segs) /\ k \in 2..(Len(segs) + 1)
                  /\ segs[k - 1].entries \in Seq(Values)
                  /\ Len(segs[k - 1].entries) \in Nat
                  /\ Len(segs[k - 1].entries) > 0
                  /\ segs[k - 1].pos_begin \in Nat
                  /\ pos - segs[k - 1].pos_begin \in Nat
                  /\ PosEnd(segs[k - 1]) =
                         segs[k - 1].pos_begin + Len(segs[k - 1].entries)
                  /\ \A j \in 1..Len(segs) : j >= k =>
                         /\ segs[j].pos_begin \in Nat
                         /\ PosEnd(segs[k - 1]) <= segs[j].pos_begin
<1>1. /\ k \in 1..(Len(segs) + 1)
      /\ \A j \in 1..Len(segs) : j < k => segs[j].pos_begin <= pos
      /\ \A j \in 1..Len(segs) : j >= k => pos < segs[j].pos_begin
      /\ \A j \in 1..Len(segs) : j < k - 1 => PosEnd(segs[j]) <= pos
    BY Neighbours
<1>2. Len(segs) \in Nat
    BY SegmentFields
<1>3. ASSUME k > 1
      PROVE  /\ k - 1 \in 1..Len(segs) /\ k \in 2..(Len(segs) + 1)
             /\ segs[k - 1].pos_begin <= pos
  <2>1. k - 1 \in 1..Len(segs) /\ k \in 2..(Len(segs) + 1) /\ k - 1 < k
      BY <1>1, <1>2, <1>3
  <2> QED
      BY <1>1, <2>1
<1>4. ASSUME k > 1
      PROVE  /\ segs[k - 1].entries \in Seq(Values)
             /\ Len(segs[k - 1].entries) \in Nat
             /\ Len(segs[k - 1].entries) > 0
             /\ segs[k - 1].pos_begin \in Nat
             /\ pos - segs[k - 1].pos_begin \in Nat
             /\ PosEnd(segs[k - 1]) =
                    segs[k - 1].pos_begin + Len(segs[k - 1].entries)
    BY <1>3, <1>4, SegmentFields DEF Disjoint
<1>5. ASSUME k > 1, NEW j \in 1..Len(segs), j >= k
      PROVE  /\ segs[j].pos_begin \in Nat
             /\ PosEnd(segs[k - 1]) <= segs[j].pos_begin
  <2>1. k - 1 \in 1..Len(segs) /\ k - 1 < j
      BY <1>3, <1>5
  <2> QED
      BY <2>1, SegmentFields DEF Disjoint
<1> QED
    BY <1>1, <1>2, <1>3, <1>4, <1>5

---------------------------------------------------------------------------
(* One lemma per operation. *)

\* RowCache::set keeps the cache well typed and its segments apart.
LEMMA SetPreserves ==
    ASSUME TypeOK, WellFormed, NEW pos \in Nat, NEW v \in Values, Set(pos, v)
    PROVE  TypeOK' /\ WellFormed'
<1> DEFINE kk == GetSegmentBeyond(segments, pos)
<1>0. PICK k : k = kk
    OBVIOUS
<1> DEFINE es == segments[k - 1].entries
           p == segments[k - 1].pos_begin
           d == pos - p
<1>1. segments \in Seq(Segment) /\ Disjoint(segments)
    BY DEF TypeOK, WellFormed
<1>2. /\ Len(segments) \in Nat
      /\ k \in 1..(Len(segments) + 1)
      /\ \A j \in 1..Len(segments) : j >= k => pos < segments[j].pos_begin
      /\ \A j \in 1..Len(segments) : j < k - 1 => PosEnd(segments[j]) <= pos
      /\ k > 1 =>
             /\ k - 1 \in 1..Len(segments) /\ k \in 2..(Len(segments) + 1)
             /\ es \in Seq(Values) /\ Len(es) \in Nat /\ Len(es) > 0
             /\ p \in Nat /\ d \in Nat
             /\ PosEnd(segments[k - 1]) = p + Len(es)
             /\ \A j \in 1..Len(segments) : j >= k =>
                    /\ segments[j].pos_begin \in Nat
                    /\ PosEnd(segments[k - 1]) <= segments[j].pos_begin
    BY <1>0, <1>1, Located
<1>3. \/ /\ k > 1 /\ d < Len(es)
         /\ segments' = WithEntries(segments, k - 1, ReplaceAt(es, d + 1, v))
      \/ /\ k > 1 /\ d = Len(es)
         /\ segments' = WithEntries(segments, k - 1, Append(es, v))
      \/ /\ k > 1 => d > Len(es)
         /\ segments' = InsertAt(segments, k, NewSegment(pos, v))
    BY <1>0 DEF Set
<1>4. ASSUME k > 1, NEW new \in Seq(Values), Len(new) > 0,
             \A j \in 1..Len(segments) : j >= k =>
                 p + Len(new) <= segments[j].pos_begin + 0,
             segments' = WithEntries(segments, k - 1, new)
      PROVE  TypeOK' /\ WellFormed'
  <2>1. /\ WithEntries(segments, k - 1, new) \in Seq(Segment)
        /\ Disjoint(WithEntries(segments, k - 1, new))
      BY <1>1, <1>2, <1>4, RefillKeepsDisjoint
  <2> QED
      BY <1>4, <2>1 DEF TypeOK, WellFormed
<1>5. CASE /\ k > 1 /\ d < Len(es)
           /\ segments' = WithEntries(segments, k - 1, ReplaceAt(es, d + 1, v))
  <2>1. /\ ReplaceAt(es, d + 1, v) \in Seq(Values)
        /\ Len(ReplaceAt(es, d + 1, v)) = Len(es)
      BY <1>2, <1>5, ExceptSeq DEF ReplaceAt
  <2>2. \A j \in 1..Len(segments) : j >= k =>
            p + Len(es) <= segments[j].pos_begin + 0
      BY <1>2, <1>5
  <2> QED
      BY <1>2, <1>4, <1>5, <2>1, <2>2
<1>6. CASE /\ k > 1 /\ d = Len(es)
           /\ segments' = WithEntries(segments, k - 1, Append(es, v))
  <2>1. Append(es, v) \in Seq(Values) /\ Len(Append(es, v)) = d + 1
      BY <1>2, <1>6
  <2>2. ASSUME NEW j \in 1..Len(segments), j >= k
        PROVE  p + (d + 1) <= segments[j].pos_begin + 0
    <3>1. /\ pos < segments[j].pos_begin /\ segments[j].pos_begin \in Nat
          /\ p \in Nat /\ d = pos - p
        BY <1>2, <1>6, <2>2
    <3> HIDE DEF p, d
    <3> QED
        BY <3>1
  <2> DEFINE new == Append(es, v)
  <2>3. new \in Seq(Values) /\ Len(new) > 0 /\ p + Len(new) = p + (d + 1)
      BY <1>2, <1>6, <2>1
  <2> HIDE DEF new, d
  <2>4. \A j \in 1..Len(segments) : j >= k =>
            p + Len(new) <= segments[j].pos_begin + 0
      BY <2>2, <2>3
  <2> QED
      BY <1>4, <1>6, <2>3, <2>4 DEF new
<1>7. CASE /\ k > 1 => d > Len(es)
           /\ segments' = InsertAt(segments, k, NewSegment(pos, v))
  <2>1. ASSUME NEW j \in 1..Len(segments), j < k
        PROVE  PosEnd(segments[j]) <= pos
    <3>1. CASE j < k - 1
        BY <1>2, <3>1
    <3>2. CASE j = k - 1
        BY <1>2, <1>7, <2>1, <3>2
    <3> QED
        BY <1>2, <2>1, <3>1, <3>2
  <2>2. /\ InsertAt(segments, k, NewSegment(pos, v)) \in Seq(Segment)
        /\ Disjoint(InsertAt(segments, k, NewSegment(pos, v)))
      BY <1>1, <1>2, <2>1, EntryKeepsDisjoint
  <2> QED
      BY <1>7, <2>2 DEF TypeOK, WellFormed
<1> QED
    BY <1>3, <1>5, <1>6, <1>7

\* RowCache::insert keeps the cache well typed and its segments apart.
LEMMA InsertPreserves ==
    ASSUME TypeOK, WellFormed, NEW pos \in Nat, NEW v \in Values,
           Insert(pos, v)
    PROVE  TypeOK' /\ WellFormed'
<1> DEFINE kk == GetSegmentBeyond(segments, pos)
<1>0. PICK k : k = kk
    OBVIOUS
<1> DEFINE es == segments[k - 1].entries
           p == segments[k - 1].pos_begin
           d == pos - p
<1>1. segments \in Seq(Segment) /\ Disjoint(segments)
    BY DEF TypeOK, WellFormed
<1>2. /\ Len(segments) \in Nat
      /\ k \in 1..(Len(segments) + 1)
      /\ \A j \in 1..Len(segments) : j >= k => pos < segments[j].pos_begin
      /\ \A j \in 1..Len(segments) : j < k - 1 => PosEnd(segments[j]) <= pos
      /\ k > 1 =>
             /\ k - 1 \in 1..Len(segments) /\ k \in 2..(Len(segments) + 1)
             /\ es \in Seq(Values) /\ Len(es) \in Nat /\ Len(es) > 0
             /\ p \in Nat /\ d \in Nat
             /\ PosEnd(segments[k - 1]) = p + Len(es)
             /\ \A j \in 1..Len(segments) : j >= k =>
                    /\ segments[j].pos_begin \in Nat
                    /\ PosEnd(segments[k - 1]) <= segments[j].pos_begin
    BY <1>0, <1>1, Located
<1>3. \/ /\ k > 1 /\ d <= Len(es)
         /\ segments' = Shift(WithEntries(segments, k - 1,
                                          InsertAt(es, d + 1, v)), k, 1)
      \/ /\ k > 1 => d > Len(es)
         /\ segments' = Shift(InsertAt(segments, k, NewSegment(pos, v)),
                              k + 1, 1)
    BY <1>0 DEF Insert
<1>4. CASE /\ k > 1 /\ d <= Len(es)
           /\ segments' = Shift(WithEntries(segments, k - 1,
                                            InsertAt(es, d + 1, v)), k, 1)
  <2> DEFINE new == InsertAt(es, d + 1, v)
  <2>1. d + 1 \in 1..(Len(es) + 1)
    <3>1. d \in Nat /\ Len(es) \in Nat /\ d <= Len(es)
        BY <1>2, <1>4
    <3> HIDE DEF d, es
    <3> QED
        BY <3>1
  <2>2. new \in Seq(Values) /\ Len(new) = Len(es) + 1
      BY <1>2, <1>4, <2>1, InsertAtElements DEF IsInsertion
  <2> HIDE DEF new
  <2>3. ASSUME NEW j \in 1..Len(segments), j >= k
        PROVE  p + Len(new) <= segments[j].pos_begin + 1
    <3>1. /\ p + Len(es) <= segments[j].pos_begin
          /\ segments[j].pos_begin \in Nat /\ p \in Nat /\ Len(es) \in Nat
        BY <1>2, <1>4, <2>3
    <3> HIDE DEF es, p
    <3> QED
        BY <2>2, <3>1
  <2>4. /\ Shift(WithEntries(segments, k - 1, new), k, 1) \in Seq(Segment)
        /\ Disjoint(Shift(WithEntries(segments, k - 1, new), k, 1))
    <3>1. k \in 2..(Len(segments) + 1) /\ Len(new) > 0
        BY <1>2, <1>4, <2>2
    <3>2. new \in Seq(Values)
        BY <2>2
    <3> QED
        BY <1>1, <2>3, <3>1, <3>2, RefillKeepsDisjoint
  <2> QED
      BY <1>4, <2>4 DEF TypeOK, WellFormed, new
<1>5. CASE /\ k > 1 => d > Len(es)
           /\ segments' = Shift(InsertAt(segments, k, NewSegment(pos, v)),
                                k + 1, 1)
  <2>1. ASSUME NEW j \in 1..Len(segments), j < k
        PROVE  PosEnd(segments[j]) <= pos
    <3>1. CASE j < k - 1
        BY <1>2, <3>1
    <3>2. CASE j = k - 1
        BY <1>2, <1>5, <2>1, <3>2
    <3> QED
        BY <1>2, <2>1, <3>1, <3>2
  <2>2. /\ Shift(InsertAt(segments, k, NewSegment(pos, v)), k + 1, 1)
               \in Seq(Segment)
        /\ Disjoint(Shift(InsertAt(segments, k, NewSegment(pos, v)), k + 1, 1))
      BY <1>1, <1>2, <2>1, EntryKeepsDisjoint
  <2> QED
      BY <1>5, <2>2 DEF TypeOK, WellFormed
<1> QED
    BY <1>3, <1>4, <1>5

\* RowCache::erase keeps the cache well typed and its segments apart.
LEMMA ErasePreserves ==
    ASSUME TypeOK, WellFormed, NEW pos \in Nat, Erase(pos)
    PROVE  TypeOK' /\ WellFormed'
<1> DEFINE kk == GetSegmentBeyond(segments, pos)
<1>0. PICK k : k = kk
    OBVIOUS
<1> DEFINE es == segments[k - 1].entries
           p == segments[k - 1].pos_begin
           d == pos - p
<1>1. segments \in Seq(Segment) /\ Disjoint(segments)
    BY DEF TypeOK, WellFormed
<1>2. /\ Len(segments) \in Nat
      /\ k \in 1..(Len(segments) + 1)
      /\ \A j \in 1..Len(segments) : j >= k => pos < segments[j].pos_begin
      /\ k > 1 =>
             /\ k - 1 \in 1..Len(segments) /\ k \in 2..(Len(segments) + 1)
             /\ es \in Seq(Values) /\ Len(es) \in Nat /\ Len(es) > 0
             /\ p \in Nat /\ d \in Nat
             /\ PosEnd(segments[k - 1]) = p + Len(es)
             /\ \A j \in 1..Len(segments) : j >= k =>
                    /\ segments[j].pos_begin \in Nat
                    /\ PosEnd(segments[k - 1]) <= segments[j].pos_begin
    BY <1>0, <1>1, Located
<1>3. \/ /\ k > 1 /\ d < Len(es) /\ Len(es) > 1
         /\ segments' = Shift(WithEntries(segments, k - 1,
                                          RemoveAt(es, d + 1)), k, -1)
      \/ /\ k > 1 /\ d < Len(es) /\ Len(es) = 1
         /\ segments' = Shift(RemoveAt(segments, k - 1), k - 1, -1)
      \/ /\ k > 1 => d >= Len(es)
         /\ segments' = Shift(segments, k, -1)
    BY <1>0 DEF Erase
<1>4. CASE /\ k > 1 /\ d < Len(es) /\ Len(es) > 1
           /\ segments' = Shift(WithEntries(segments, k - 1,
                                            RemoveAt(es, d + 1)), k, -1)
  <2> DEFINE new == RemoveAt(es, d + 1)
  <2>0. PICK e \in Int : e = -1
      OBVIOUS
  <2>1. d + 1 \in 1..Len(es)
    <3>1. d \in Nat /\ Len(es) \in Nat /\ d < Len(es)
        BY <1>2, <1>4
    <3> HIDE DEF d, es
    <3> QED
        BY <3>1
  <2>2. new \in Seq(Values) /\ Len(new) = Len(es) - 1
    <3> HIDE DEF es, d
    <3> QED BY <1>2, <1>4, <2>1, RemoveAtElements
  <2> HIDE DEF new
  <2>3. ASSUME NEW j \in 1..Len(segments), j >= k
        PROVE  p + Len(new) <= segments[j].pos_begin + e
    <3>1. /\ p + Len(es) <= segments[j].pos_begin
          /\ segments[j].pos_begin \in Nat /\ p \in Nat /\ Len(es) \in Nat
        BY <1>2, <1>4, <2>3
    <3> HIDE DEF es, p
    <3> QED
        BY <2>0, <2>2, <3>1
  <2>4. /\ Shift(WithEntries(segments, k - 1, new), k, e) \in Seq(Segment)
        /\ Disjoint(Shift(WithEntries(segments, k - 1, new), k, e))
    <3>1. k \in 2..(Len(segments) + 1) /\ Len(new) > 0
        BY <1>2, <1>4, <2>2
    <3>2. new \in Seq(Values)
        BY <2>2
    <3> QED
        BY <1>1, <2>3, <3>1, <3>2, RefillKeepsDisjoint
  <2> QED
      BY <1>4, <2>0, <2>4 DEF TypeOK, WellFormed, new
<1>5. CASE /\ k > 1 /\ d < Len(es) /\ Len(es) = 1
           /\ segments' = Shift(RemoveAt(segments, k - 1), k - 1, -1)
    BY <1>1, <1>2, <1>5, RemovalKeepsDisjoint DEF TypeOK, WellFormed
<1>6. CASE /\ k > 1 => d >= Len(es)
           /\ segments' = Shift(segments, k, -1)
  <2>1. k > 1 => PosEnd(segments[k - 1]) <= pos
      BY <1>2, <1>6
  <2> QED
      BY <1>1, <1>2, <1>6, <2>1, GapKeepsDisjoint DEF TypeOK, WellFormed
<1> QED
    BY <1>3, <1>4, <1>5, <1>6

---------------------------------------------------------------------------
(* In every reachable state of the cache the segments are non-empty,       *)
(* disjoint and in order of position, whatever rows were set, inserted and *)
(* erased: what set, insert, erase and at rely on when they look only at   *)
(* the segment before the upper bound.                                     *)
THEOREM CacheWellFormed == Spec => [](TypeOK /\ WellFormed)
<1>1. Init => TypeOK /\ WellFormed
    BY DEF Init, TypeOK, WellFormed, Disjoint
<1>2. TypeOK /\ WellFormed /\ [Next]_segments => (TypeOK /\ WellFormed)'
  <2> SUFFICES ASSUME TypeOK, WellFormed, [Next]_segments
               PROVE  (TypeOK /\ WellFormed)'
      OBVIOUS
  <2>1. Positions \subseteq Nat
      BY MaxPosAssumption DEF Positions
  <2>2. CASE \E pos \in Positions, v \in Values : Set(pos, v)
      BY <2>1, <2>2, SetPreserves
  <2>3. CASE \E pos \in Positions, v \in Values : Insert(pos, v)
      BY <2>1, <2>3, InsertPreserves
  <2>4. CASE \E pos \in Positions : Erase(pos)
      BY <2>1, <2>4, ErasePreserves
  <2>5. CASE Clear
      BY <2>5 DEF Clear, TypeOK, WellFormed, Disjoint
  <2>6. CASE UNCHANGED segments
      BY <2>6 DEF TypeOK, WellFormed
  <2> QED
      BY <2>2, <2>3, <2>4, <2>5, <2>6 DEF Next
<1> QED
    BY <1>1, <1>2, PTL DEF Spec

---------------------------------------------------------------------------
(***************************************************************************)
(* The cache as a sparse vector: which row is held at which position.      *)
(***************************************************************************)

\* Segment i holds row x at position q.
HoldsIn(segs, i, q, x) ==
    /\ i \in 1..Len(segs)
    /\ segs[i].pos_begin <= q
    /\ q < segs[i].pos_begin + Len(segs[i].entries)
    /\ x = segs[i].entries[q - segs[i].pos_begin + 1]

Holds(segs, q, x) == \E i \in 1..Len(segs) : HoldsIn(segs, i, q, x)

\* Other entries for segment m are those that it holds afterwards.
LEMMA RefilledHolds ==
    ASSUME NEW segs \in Seq(Segment), NEW m \in 1..Len(segs),
           NEW es \in Seq(Values), NEW i \in Nat, NEW q \in Int, NEW x
    PROVE  LET t == WithEntries(segs, m, es)
               b == segs[m].pos_begin
           IN  /\ t \in Seq(Segment) /\ Len(t) = Len(segs)
               /\ i # m => (HoldsIn(t, i, q, x) <=> HoldsIn(segs, i, q, x))
               /\ HoldsIn(t, m, q, x) <=>
                      b <= q /\ q < b + Len(es) /\ x = es[q - b + 1]
<1> DEFINE t == WithEntries(segs, m, es)
<1>1. /\ t \in Seq(Segment) /\ Len(t) = Len(segs)
      /\ \A j \in 1..Len(segs) :
             /\ t[j].pos_begin = segs[j].pos_begin
             /\ t[j].entries = IF j = m THEN es ELSE segs[j].entries
    BY WithEntriesElements
<1> HIDE DEF t
<1>2. i # m => (HoldsIn(t, i, q, x) <=> HoldsIn(segs, i, q, x))
    BY <1>1 DEF HoldsIn
<1>3. t[m].pos_begin = segs[m].pos_begin /\ t[m].entries = es
    BY <1>1
<1>4. HoldsIn(t, m, q, x) <=>
          /\ segs[m].pos_begin <= q /\ q < segs[m].pos_begin + Len(es)
          /\ x = es[q - segs[m].pos_begin + 1]
    BY <1>1, <1>3 DEF HoldsIn
<1> QED
    BY <1>1, <1>2, <1>4 DEF t

\* A segment that is moved holds its rows n positions further.
LEMMA ShiftedHolds ==
    ASSUME NEW segs \in Seq(Segment), NEW k \in Nat, NEW n \in Int,
           \A j \in 1..Len(segs) : j >= k => segs[j].pos_begin + n >= 0,
           NEW i \in Nat, NEW q \in Int, NEW x
    PROVE  LET t == Shift(segs, k, n)
           IN  /\ t \in Seq(Segment) /\ Len(t) = Len(segs)
               /\ i < k => (HoldsIn(t, i, q, x) <=> HoldsIn(segs, i, q, x))
               /\ i >= k =>
                      (HoldsIn(t, i, q, x) <=> HoldsIn(segs, i, q - n, x))
<1> DEFINE t == Shift(segs, k, n)
<1>1. /\ t \in Seq(Segment) /\ Len(t) = Len(segs)
      /\ \A j \in 1..Len(segs) :
             /\ t[j].entries = segs[j].entries
             /\ t[j].pos_begin = IF j < k THEN segs[j].pos_begin
                                 ELSE segs[j].pos_begin + n
    BY ShiftElements
<1> HIDE DEF t
<1>2. i < k => (HoldsIn(t, i, q, x) <=> HoldsIn(segs, i, q, x))
    BY <1>1 DEF HoldsIn
<1>3. ASSUME i >= k, i \in 1..Len(segs)
      PROVE  HoldsIn(t, i, q, x) <=> HoldsIn(segs, i, q - n, x)
  <2> DEFINE b == segs[i].pos_begin
             es == segs[i].entries
  <2>1. /\ t[i].pos_begin = b + n /\ t[i].entries = es
        /\ b \in Nat /\ Len(es) \in Nat
      BY <1>1, <1>3, SegmentFields
  <2>2. HoldsIn(t, i, q, x) <=>
            b + n <= q /\ q < b + n + Len(es) /\ x = es[q - (b + n) + 1]
      BY <1>1, <1>3, <2>1 DEF HoldsIn
  <2>3. HoldsIn(segs, i, q - n, x) <=>
            b <= q - n /\ q - n < b + Len(es) /\ x = es[q - n - b + 1]
      BY <1>3 DEF HoldsIn
  <2> HIDE DEF b, es
  <2>4. q - (b + n) + 1 = q - n - b + 1
      BY <2>1
  <2>5. /\ b + n <= q <=> b <= q - n
        /\ q < b + n + Len(es) <=> q - n < b + Len(es)
      BY <2>1
  <2> QED
      BY <2>2, <2>3, <2>4, <2>5
<1>4. i \notin 1..Len(segs) =>
          ~HoldsIn(t, i, q, x) /\ ~HoldsIn(segs, i, q - n, x)
    BY <1>1 DEF HoldsIn
<1> QED
    BY <1>1, <1>2, <1>3, <1>4 DEF t

\* A segment for one row that enters holds that row only.
LEMMA EnteredHolds ==
    ASSUME NEW segs \in Seq(Segment), NEW k \in 1..(Len(segs) + 1),
           NEW pos \in Nat, NEW v \in Values,
           NEW i \in Nat, NEW q \in Int, NEW x
    PROVE  LET t == InsertAt(segs, k, NewSegment(pos, v))
           IN  /\ t \in Seq(Segment) /\ Len(t) = Len(segs) + 1
               /\ \A j \in 1..Len(segs) : j >= k => t[j + 1] = segs[j]
               /\ i < k => (HoldsIn(t, i, q, x) <=> HoldsIn(segs, i, q, x))
               /\ HoldsIn(t, k, q, x) <=> q = pos /\ x = v
               /\ i > k =>
                      (HoldsIn(t, i, q, x) <=> HoldsIn(segs, i - 1, q, x))
<1> DEFINE s == NewSegment(pos, v)
           t == InsertAt(segs, k, s)
<1>1. s \in Segment /\ s.pos_begin = pos /\ s.entries = <<v>>
    BY DEF NewSegment, Segment
<1> HIDE DEF s
<1>2. t \in Seq(Segment) /\ IsInsertion(t, segs, k, s)
    BY <1>1, InsertAtElements
<1> HIDE DEF t
<1>3. /\ Len(segs) \in Nat /\ Len(t) = Len(segs) + 1
      /\ \A j \in 1..(Len(segs) + 1) :
             t[j] = IF j < k THEN segs[j] ELSE IF j = k THEN s
                    ELSE segs[j - 1]
    BY <1>2, SegmentFields DEF IsInsertion
<1>4. i < k => (HoldsIn(t, i, q, x) <=> HoldsIn(segs, i, q, x))
    BY <1>3 DEF HoldsIn
<1>5. HoldsIn(t, k, q, x) <=> q = pos /\ x = v
  <2>1. t[k] = s /\ k \in 1..Len(t)
      BY <1>3
  <2>2. HoldsIn(t, k, q, x) <=>
            /\ pos <= q /\ q < pos + 1
            /\ x = <<v>>[q - pos + 1]
      BY <1>1, <2>1 DEF HoldsIn
  <2>3. pos <= q /\ q < pos + 1 <=> q = pos
      OBVIOUS
  <2>4. q = pos => q - pos + 1 = 1
      OBVIOUS
  <2> QED
      BY <2>2, <2>3, <2>4
<1>6. ASSUME i > k PROVE HoldsIn(t, i, q, x) <=> HoldsIn(segs, i - 1, q, x)
  <2>1. i \in 1..Len(t) <=> i - 1 \in 1..Len(segs)
      BY <1>3, <1>6
  <2>2. i \in 1..Len(t) => t[i] = segs[i - 1]
      BY <1>3, <1>6
  <2> QED
      BY <2>1, <2>2 DEF HoldsIn
<1>7. ASSUME NEW j \in 1..Len(segs), j >= k PROVE t[j + 1] = segs[j]
  <2>1. j + 1 \in 1..(Len(segs) + 1) /\ j + 1 > k /\ (j + 1) - 1 = j
      BY <1>3, <1>7
  <2> QED
      BY <1>3, <2>1
<1> QED
    BY <1>2, <1>3, <1>4, <1>5, <1>6, <1>7 DEF t, s

\* A segment that is taken out leaves the others.
LEMMA TakenHolds ==
    ASSUME NEW segs \in Seq(Segment), NEW m \in 1..Len(segs),
           NEW i \in Nat, NEW q \in Int, NEW x
    PROVE  LET t == RemoveAt(segs, m)
           IN  /\ t \in Seq(Segment) /\ Len(t) = Len(segs) - 1
               /\ \A j \in 1..Len(t) : j >= m => t[j] = segs[j + 1]
               /\ i < m => (HoldsIn(t, i, q, x) <=> HoldsIn(segs, i, q, x))
               /\ i >= m =>
                      (HoldsIn(t, i, q, x) <=> HoldsIn(segs, i + 1, q, x))
<1> DEFINE t == RemoveAt(segs, m)
<1>1. /\ t \in Seq(Segment) /\ Len(t) = Len(segs) - 1
      /\ \A j \in 1..(Len(segs) - 1) :
             t[j] = IF j < m THEN segs[j] ELSE segs[j + 1]
    BY RemoveAtElements
<1>2. Len(segs) \in Nat
    BY SegmentFields
<1> HIDE DEF t
<1>3. ASSUME i < m PROVE HoldsIn(t, i, q, x) <=> HoldsIn(segs, i, q, x)
  <2>1. i \in 1..Len(t) <=> i \in 1..Len(segs)
      BY <1>1, <1>2, <1>3
  <2>2. i \in 1..Len(t) => t[i] = segs[i]
      BY <1>1, <1>3
  <2> QED
      BY <2>1, <2>2 DEF HoldsIn
<1>4. ASSUME i >= m PROVE HoldsIn(t, i, q, x) <=> HoldsIn(segs, i + 1, q, x)
  <2>1. i \in 1..Len(t) <=> i + 1 \in 1..Len(segs)
      BY <1>1, <1>2, <1>4
  <2>2. i \in 1..Len(t) => t[i] = segs[i + 1]
      BY <1>1, <1>4
  <2> QED
      BY <2>1, <2>2 DEF HoldsIn
<1>5. \A j \in 1..Len(t) : j >= m => t[j] = segs[j + 1]
    BY <1>1
<1> QED
    BY <1>1, <1>3, <1>4, <1>5 DEF t

\* Row x is at q in a segment before index k, or in one from k on.
Low(segs, k, q, x) == \E i \in Nat : i < k /\ HoldsIn(segs, i, q, x)
High(segs, k, q, x) == \E i \in Nat : i >= k /\ HoldsIn(segs, i, q, x)

\* The cache is what is below an index, at it, and above it.
LEMMA Split ==
    ASSUME NEW segs, NEW k \in Nat, NEW q, NEW x
    PROVE  /\ Holds(segs, q, x) <=> Low(segs, k, q, x) \/ High(segs, k, q, x)
           /\ Low(segs, k + 1, q, x) <=>
                  Low(segs, k, q, x) \/ HoldsIn(segs, k, q, x)
<1>1. \A i : HoldsIn(segs, i, q, x) => i \in 1..Len(segs) /\ i \in Nat
    BY DEF HoldsIn
<1>2. Holds(segs, q, x) <=> \E i \in Nat : HoldsIn(segs, i, q, x)
    BY <1>1 DEF Holds
<1>3. \A i \in Nat : i < k \/ i >= k
    OBVIOUS
<1>4. \A i \in Nat : i < k + 1 <=> i < k \/ i = k
    OBVIOUS
<1> QED
    BY <1>2, <1>3, <1>4 DEF Low, High

\* Moving the segments from k on moves what they hold.
LEMMA ShiftedSplit ==
    ASSUME NEW segs \in Seq(Segment), NEW k \in Nat, NEW n \in Int,
           \A j \in 1..Len(segs) : j >= k => segs[j].pos_begin + n >= 0,
           NEW q \in Int, NEW x
    PROVE  LET t == Shift(segs, k, n)
           IN  /\ t \in Seq(Segment)
               /\ Low(t, k, q, x) <=> Low(segs, k, q, x)
               /\ High(t, k, q, x) <=> High(segs, k, q - n, x)
<1> DEFINE t == Shift(segs, k, n)
<1>1. ASSUME NEW i \in Nat
      PROVE  /\ i < k => (HoldsIn(t, i, q, x) <=> HoldsIn(segs, i, q, x))
             /\ i >= k => (HoldsIn(t, i, q, x) <=> HoldsIn(segs, i, q - n, x))
    BY ShiftedHolds
<1>2. t \in Seq(Segment)
    BY ShiftElements
<1> HIDE DEF t
<1>3. Low(t, k, q, x) <=> Low(segs, k, q, x)
    BY <1>1 DEF Low
<1>4. High(t, k, q, x) <=> High(segs, k, q - n, x)
    BY <1>1 DEF High
<1> QED
    BY <1>2, <1>3, <1>4 DEF t

\* Refilling segment m touches no other.
LEMMA RefilledSplit ==
    ASSUME NEW segs \in Seq(Segment), NEW m \in 1..Len(segs),
           NEW es \in Seq(Values), NEW q \in Int, NEW x
    PROVE  LET t == WithEntries(segs, m, es)
               b == segs[m].pos_begin
           IN  /\ t \in Seq(Segment) /\ Len(t) = Len(segs)
               /\ Low(t, m, q, x) <=> Low(segs, m, q, x)
               /\ High(t, m + 1, q, x) <=> High(segs, m + 1, q, x)
               /\ HoldsIn(t, m, q, x) <=>
                      b <= q /\ q < b + Len(es) /\ x = es[q - b + 1]
<1> DEFINE t == WithEntries(segs, m, es)
           b == segs[m].pos_begin
<1>0. m \in Nat /\ Len(segs) \in Nat
    BY SegmentFields
<1>1. ASSUME NEW i \in Nat
      PROVE  /\ t \in Seq(Segment) /\ Len(t) = Len(segs)
             /\ i # m => (HoldsIn(t, i, q, x) <=> HoldsIn(segs, i, q, x))
             /\ HoldsIn(t, m, q, x) <=>
                    b <= q /\ q < b + Len(es) /\ x = es[q - b + 1]
    BY RefilledHolds
<1> HIDE DEF t, b
<1>2. \A i \in Nat : i < m \/ i >= m + 1 => i # m
    BY <1>0
<1>3. Low(t, m, q, x) <=> Low(segs, m, q, x)
    BY <1>1, <1>2 DEF Low
<1>4. High(t, m + 1, q, x) <=> High(segs, m + 1, q, x)
    BY <1>1, <1>2 DEF High
<1>5. /\ t \in Seq(Segment) /\ Len(t) = Len(segs)
      /\ HoldsIn(t, m, q, x) <=>
             b <= q /\ q < b + Len(es) /\ x = es[q - b + 1]
    BY <1>0, <1>1
<1> QED
    BY <1>3, <1>4, <1>5 DEF t, b

\* A new segment at index k touches no other.
LEMMA EnteredSplit ==
    ASSUME NEW segs \in Seq(Segment), NEW k \in 1..(Len(segs) + 1),
           NEW pos \in Nat, NEW v \in Values, NEW q \in Int, NEW x
    PROVE  LET t == InsertAt(segs, k, NewSegment(pos, v))
           IN  /\ t \in Seq(Segment) /\ Len(t) = Len(segs) + 1
               /\ \A j \in 1..Len(segs) : j >= k => t[j + 1] = segs[j]
               /\ Low(t, k, q, x) <=> Low(segs, k, q, x)
               /\ HoldsIn(t, k, q, x) <=> q = pos /\ x = v
               /\ High(t, k + 1, q, x) <=> High(segs, k, q, x)
<1> DEFINE t == InsertAt(segs, k, NewSegment(pos, v))
<1>0. k \in Nat /\ k >= 1
    BY SegmentFields
<1>1. ASSUME NEW i \in Nat
      PROVE  /\ t \in Seq(Segment) /\ Len(t) = Len(segs) + 1
             /\ \A j \in 1..Len(segs) : j >= k => t[j + 1] = segs[j]
             /\ i < k => (HoldsIn(t, i, q, x) <=> HoldsIn(segs, i, q, x))
             /\ HoldsIn(t, k, q, x) <=> q = pos /\ x = v
             /\ i > k => (HoldsIn(t, i, q, x) <=> HoldsIn(segs, i - 1, q, x))
    BY EnteredHolds
<1> HIDE DEF t
<1>2. Low(t, k, q, x) <=> Low(segs, k, q, x)
    BY <1>1 DEF Low
<1>3. ASSUME High(t, k + 1, q, x) PROVE High(segs, k, q, x)
  <2>1. PICK i \in Nat : i >= k + 1 /\ HoldsIn(t, i, q, x)
      BY <1>3 DEF High
  <2>2. i > k /\ i - 1 \in Nat /\ i - 1 >= k
      BY <1>0, <2>1
  <2>3. HoldsIn(segs, i - 1, q, x)
      BY <1>1, <2>1, <2>2
  <2> QED
      BY <2>2, <2>3 DEF High
<1>4. ASSUME High(segs, k, q, x) PROVE High(t, k + 1, q, x)
  <2>1. PICK i \in Nat : i >= k /\ HoldsIn(segs, i, q, x)
      BY <1>4 DEF High
  <2>2. i + 1 \in Nat /\ i + 1 > k /\ i + 1 >= k + 1 /\ (i + 1) - 1 = i
      BY <1>0, <2>1
  <2>3. HoldsIn(t, i + 1, q, x)
      BY <1>1, <2>1, <2>2
  <2> QED
      BY <2>2, <2>3 DEF High
<1>5. /\ t \in Seq(Segment) /\ Len(t) = Len(segs) + 1
      /\ \A j \in 1..Len(segs) : j >= k => t[j + 1] = segs[j]
      /\ HoldsIn(t, k, q, x) <=> q = pos /\ x = v
    BY <1>0, <1>1
<1> QED
    BY <1>2, <1>3, <1>4, <1>5 DEF t

\* Taking segment m out touches no other.
LEMMA TakenSplit ==
    ASSUME NEW segs \in Seq(Segment), NEW m \in 1..Len(segs),
           NEW q \in Int, NEW x
    PROVE  LET t == RemoveAt(segs, m)
           IN  /\ t \in Seq(Segment) /\ Len(t) = Len(segs) - 1
               /\ \A j \in 1..Len(t) : j >= m => t[j] = segs[j + 1]
               /\ Low(t, m, q, x) <=> Low(segs, m, q, x)
               /\ High(t, m, q, x) <=> High(segs, m + 1, q, x)
<1> DEFINE t == RemoveAt(segs, m)
<1>0. m \in Nat /\ m >= 1
    BY SegmentFields
<1>1. ASSUME NEW i \in Nat
      PROVE  /\ t \in Seq(Segment) /\ Len(t) = Len(segs) - 1
             /\ \A j \in 1..Len(t) : j >= m => t[j] = segs[j + 1]
             /\ i < m => (HoldsIn(t, i, q, x) <=> HoldsIn(segs, i, q, x))
             /\ i >= m =>
                    (HoldsIn(t, i, q, x) <=> HoldsIn(segs, i + 1, q, x))
    BY TakenHolds
<1> HIDE DEF t
<1>2. Low(t, m, q, x) <=> Low(segs, m, q, x)
    BY <1>1 DEF Low
<1>3. ASSUME High(t, m, q, x) PROVE High(segs, m + 1, q, x)
  <2>1. PICK i \in Nat : i >= m /\ HoldsIn(t, i, q, x)
      BY <1>3 DEF High
  <2>2. i + 1 \in Nat /\ i + 1 >= m + 1 /\ HoldsIn(segs, i + 1, q, x)
      BY <1>0, <1>1, <2>1
  <2> QED
      BY <2>2 DEF High
<1>4. ASSUME High(segs, m + 1, q, x) PROVE High(t, m, q, x)
  <2>1. PICK i \in Nat : i >= m + 1 /\ HoldsIn(segs, i, q, x)
      BY <1>4 DEF High
  <2>2. i - 1 \in Nat /\ i - 1 >= m /\ (i - 1) + 1 = i
      BY <1>0, <2>1
  <2>3. HoldsIn(t, i - 1, q, x)
      BY <1>1, <2>1, <2>2
  <2> QED
      BY <2>2, <2>3 DEF High
<1>5. /\ t \in Seq(Segment) /\ Len(t) = Len(segs) - 1
      /\ \A j \in 1..Len(t) : j >= m => t[j] = segs[j + 1]
    BY <1>0, <1>1
<1> QED
    BY <1>2, <1>3, <1>4, <1>5 DEF t

\* What lies below and above the place where an operation works.
LEMMA Around ==
    ASSUME NEW segs \in Seq(Segment), Disjoint(segs), NEW pos \in Nat,
           NEW k, k = GetSegmentBeyond(segs, pos), NEW q \in Int, NEW x
    PROVE  /\ Low(segs, k - 1, q, x) => q < pos
           /\ Low(segs, k - 1, q, x) /\ k > 1 => q < segs[k - 1].pos_begin
           /\ High(segs, k, q, x) => pos < q
           /\ High(segs, k, q, x) /\ k > 1 => PosEnd(segs[k - 1]) <= q
           /\ HoldsIn(segs, k - 1, q, x) => k > 1 /\ q < PosEnd(segs[k - 1])
<1>1. /\ Len(segs) \in Nat
      /\ k \in 1..(Len(segs) + 1)
      /\ \A j \in 1..Len(segs) : j >= k => pos < segs[j].pos_begin
      /\ \A j \in 1..Len(segs) : j < k - 1 => PosEnd(segs[j]) <= pos
      /\ k > 1 =>
             /\ k - 1 \in 1..Len(segs)
             /\ segs[k - 1].pos_begin \in Nat
             /\ Len(segs[k - 1].entries) \in Nat
             /\ PosEnd(segs[k - 1]) =
                    segs[k - 1].pos_begin + Len(segs[k - 1].entries)
             /\ \A j \in 1..Len(segs) : j >= k =>
                    /\ segs[j].pos_begin \in Nat
                    /\ PosEnd(segs[k - 1]) <= segs[j].pos_begin
    BY Located
<1>2. \A i : HoldsIn(segs, i, q, x) =>
          /\ i \in 1..Len(segs) /\ segs[i].pos_begin <= q
          /\ q < PosEnd(segs[i])
          /\ segs[i].pos_begin \in Nat /\ PosEnd(segs[i]) \in Nat
    BY SegmentFields DEF HoldsIn
<1>3. ASSUME Low(segs, k - 1, q, x)
      PROVE  q < pos /\ (k > 1 => q < segs[k - 1].pos_begin)
  <2>1. PICK i \in Nat : i < k - 1 /\ HoldsIn(segs, i, q, x)
      BY <1>3 DEF Low
  <2>2. /\ i \in 1..Len(segs) /\ q < PosEnd(segs[i])
        /\ PosEnd(segs[i]) \in Nat
      BY <1>2, <2>1
  <2>3. PosEnd(segs[i]) <= pos
      BY <1>1, <2>1, <2>2
  <2>4. k > 1 => PosEnd(segs[i]) <= segs[k - 1].pos_begin
      BY <1>1, <2>1, <2>2 DEF Disjoint
  <2> QED
      BY <1>1, <2>2, <2>3, <2>4
<1>4. ASSUME High(segs, k, q, x)
      PROVE  pos < q /\ (k > 1 => PosEnd(segs[k - 1]) <= q)
  <2>1. PICK i \in Nat : i >= k /\ HoldsIn(segs, i, q, x)
      BY <1>4 DEF High
  <2>2. /\ i \in 1..Len(segs) /\ segs[i].pos_begin <= q
        /\ segs[i].pos_begin \in Nat
      BY <1>2, <2>1
  <2>3. pos < segs[i].pos_begin
      BY <1>1, <2>1, <2>2
  <2>4. k > 1 => PosEnd(segs[k - 1]) <= segs[i].pos_begin
      BY <1>1, <2>1, <2>2
  <2>5. k > 1 => PosEnd(segs[k - 1]) \in Nat
      BY <1>1
  <2> QED
      BY <2>2, <2>3, <2>4, <2>5
<1>5. HoldsIn(segs, k - 1, q, x) => k > 1 /\ q < PosEnd(segs[k - 1])
    BY <1>1, <1>2
<1> QED
    BY <1>3, <1>4, <1>5

\* Where an operation works, and what it finds below, at and above it.
AtWork(segs, pos, k, es, p, q, x) ==
    /\ segs \in Seq(Segment) /\ Len(segs) \in Nat
    /\ k \in 1..(Len(segs) + 1)
    /\ k - 1 \in Nat
    /\ \A j \in 1..Len(segs) : j >= k => pos < segs[j].pos_begin
    /\ k > 1 => /\ k - 1 \in 1..Len(segs)
                /\ es \in Seq(Values) /\ Len(es) \in Nat /\ Len(es) > 0
                /\ p \in Nat /\ p <= pos
    /\ Holds(segs, q, x) <=>
           \/ Low(segs, k - 1, q, x)
           \/ HoldsIn(segs, k - 1, q, x)
           \/ High(segs, k, q, x)
    /\ HoldsIn(segs, k - 1, q, x) <=>
           k > 1 /\ p <= q /\ q < p + Len(es) /\ x = es[q - p + 1]
    /\ Low(segs, k, q, x) <=>
           Low(segs, k - 1, q, x) \/ HoldsIn(segs, k - 1, q, x)
    /\ Low(segs, k - 1, q, x) => q < pos
    /\ Low(segs, k - 1, q, x) /\ k > 1 => q < p
    /\ High(segs, k, q, x) => pos < q
    /\ High(segs, k, q, x) /\ k > 1 => p + Len(es) <= q


\* What Located, Split and Around say of one position and one row.
LEMMA WorksThere ==
    ASSUME NEW segs \in Seq(Segment), Disjoint(segs), NEW pos \in Nat,
           NEW k, k = GetSegmentBeyond(segs, pos), NEW q \in Int, NEW x
    PROVE  AtWork(segs, pos, k, segs[k - 1].entries, segs[k - 1].pos_begin,
                  q, x)
<1> DEFINE es == segs[k - 1].entries
           p == segs[k - 1].pos_begin
<1>1. /\ Len(segs) \in Nat
      /\ k \in 1..(Len(segs) + 1)
      /\ \A j \in 1..Len(segs) : j >= k => pos < segs[j].pos_begin
      /\ k > 1 =>
             /\ k - 1 \in 1..Len(segs)
             /\ es \in Seq(Values) /\ Len(es) \in Nat /\ Len(es) > 0
             /\ p \in Nat /\ pos - p \in Nat
             /\ PosEnd(segs[k - 1]) = p + Len(es)
    BY Located
<1>2. k \in Nat /\ k - 1 \in Nat /\ (k - 1) + 1 = k /\ (k > 1 => p <= pos)
    BY <1>1
<1>3. /\ Low(segs, k - 1, q, x) => q < pos
      /\ Low(segs, k - 1, q, x) /\ k > 1 => q < p
      /\ High(segs, k, q, x) => pos < q
      /\ High(segs, k, q, x) /\ k > 1 => PosEnd(segs[k - 1]) <= q
      /\ HoldsIn(segs, k - 1, q, x) => k > 1 /\ q < PosEnd(segs[k - 1])
    BY Around
<1>4. /\ Holds(segs, q, x) <=> Low(segs, k, q, x) \/ High(segs, k, q, x)
      /\ Low(segs, (k - 1) + 1, q, x) <=>
             Low(segs, k - 1, q, x) \/ HoldsIn(segs, k - 1, q, x)
    BY <1>2, Split
<1>5. HoldsIn(segs, k - 1, q, x) <=>
          k > 1 /\ p <= q /\ q < p + Len(es) /\ x = es[q - p + 1]
    BY <1>1, <1>3 DEF HoldsIn
<1> HIDE DEF es, p
<1>6. AtWork(segs, pos, k, es, p, q, x)
    BY <1>1, <1>2, <1>3, <1>4, <1>5 DEF AtWork
<1> QED
    BY <1>6 DEF es, p

\* RowCache::set puts the row at its position and leaves the others.
LEMMA SetHolds ==
    ASSUME TypeOK, WellFormed, NEW pos \in Nat, NEW v \in Values,
           Set(pos, v), NEW q \in Int, NEW x
    PROVE  Holds(segments', q, x) <=>
               \/ q = pos /\ x = v
               \/ q # pos /\ Holds(segments, q, x)
<1> DEFINE kk == GetSegmentBeyond(segments, pos)
<1>0. PICK k : k = kk
    OBVIOUS
<1> DEFINE es == segments[k - 1].entries
           p == segments[k - 1].pos_begin
           d == pos - p
<1>1. segments \in Seq(Segment) /\ Disjoint(segments)
    BY DEF TypeOK, WellFormed
<1>2. AtWork(segments, pos, k, es, p, q, x)
    BY <1>0, <1>1, WorksThere
<1>3. \/ /\ k > 1 /\ d < Len(es)
         /\ segments' = WithEntries(segments, k - 1, ReplaceAt(es, d + 1, v))
      \/ /\ k > 1 /\ d = Len(es)
         /\ segments' = WithEntries(segments, k - 1, Append(es, v))
      \/ /\ k > 1 => d > Len(es)
         /\ segments' = InsertAt(segments, k, NewSegment(pos, v))
    BY <1>0 DEF Set
<1> HIDE DEF es, p
<1>4. ASSUME k > 1, NEW new \in Seq(Values),
             segments' = WithEntries(segments, k - 1, new)
      PROVE  Holds(segments', q, x) <=>
                 \/ Low(segments, k - 1, q, x)
                 \/ p <= q /\ q < p + Len(new) /\ x = new[q - p + 1]
                 \/ High(segments, k, q, x)
  <2>1. k - 1 \in 1..Len(segments) /\ k - 1 \in Nat /\ (k - 1) + 1 = k
        /\ k \in Nat
      BY <1>2, <1>4 DEF AtWork
  <2>2. /\ segments' \in Seq(Segment) /\ Len(segments') = Len(segments)
        /\ Low(segments', k - 1, q, x) <=> Low(segments, k - 1, q, x)
        /\ High(segments', (k - 1) + 1, q, x) <=>
               High(segments, (k - 1) + 1, q, x)
        /\ HoldsIn(segments', k - 1, q, x) <=>
               p <= q /\ q < p + Len(new) /\ x = new[q - p + 1]
      BY <1>1, <1>4, <2>1, RefilledSplit DEF p
  <2>3. /\ Holds(segments', q, x) <=>
               Low(segments', k, q, x) \/ High(segments', k, q, x)
        /\ Low(segments', (k - 1) + 1, q, x) <=>
               \/ Low(segments', k - 1, q, x)
               \/ HoldsIn(segments', k - 1, q, x)
      BY <2>1, Split
  <2> QED
      BY <2>1, <2>2, <2>3
<1>5. CASE /\ k > 1 /\ d < Len(es)
           /\ segments' = WithEntries(segments, k - 1, ReplaceAt(es, d + 1, v))
  <2> DEFINE new == ReplaceAt(es, d + 1, v)
             n == Len(es)
  <2>1. /\ new \in Seq(Values) /\ Len(new) = n
        /\ \A j \in 1..n : new[j] = IF j = d + 1 THEN v ELSE es[j]
    <3>1. es \in Seq(Values) /\ d + 1 \in 1..Len(es)
        BY <1>2, <1>5 DEF AtWork
    <3> HIDE DEF d
    <3> QED
        BY <3>1, ExceptSeq DEF ReplaceAt
  <2>2. /\ n \in Nat /\ p \in Nat /\ p <= pos /\ d < n
        /\ segments' = WithEntries(segments, k - 1, new)
      BY <1>2, <1>5 DEF AtWork
  <2> HIDE DEF new, n
  <2>3. Holds(segments', q, x) <=>
            \/ Low(segments, k - 1, q, x)
            \/ p <= q /\ q < p + n /\ x = new[q - p + 1]
            \/ High(segments, k, q, x)
      BY <1>4, <1>5, <2>1, <2>2
  <2>4. p <= q /\ q < p + n =>
            new[q - p + 1] = IF q = pos THEN v ELSE es[q - p + 1]
    <3>1. p <= q /\ q < p + n =>
              q - p + 1 \in 1..n /\ (q - p + 1 = d + 1 <=> q = pos)
        BY <2>2
    <3> QED
        BY <2>1, <3>1
  <2>5. /\ Holds(segments, q, x) <=>
               \/ Low(segments, k - 1, q, x)
               \/ p <= q /\ q < p + n /\ x = es[q - p + 1]
               \/ High(segments, k, q, x)
        /\ Low(segments, k - 1, q, x) => q < pos
        /\ High(segments, k, q, x) => pos < q
      BY <1>2, <1>5 DEF AtWork, n
  <2>6. q = pos => p <= q /\ q < p + n
      BY <2>2
  <2> QED
      BY <2>3, <2>4, <2>5, <2>6
<1>6. CASE /\ k > 1 /\ d = Len(es)
           /\ segments' = WithEntries(segments, k - 1, Append(es, v))
  <2> DEFINE new == Append(es, v)
             n == Len(es)
  <2>1. /\ es \in Seq(Values) /\ n \in Nat /\ p \in Nat /\ pos = p + n
      BY <1>2, <1>6 DEF AtWork
  <2>2. /\ new \in Seq(Values) /\ Len(new) = n + 1
        /\ \A j \in 1..(n + 1) : new[j] = IF j = n + 1 THEN v ELSE es[j]
      BY <2>1
  <2>3. segments' = WithEntries(segments, k - 1, new)
      BY <1>6
  <2>4. /\ Holds(segments, q, x) <=>
               \/ Low(segments, k - 1, q, x)
               \/ p <= q /\ q < p + n /\ x = es[q - p + 1]
               \/ High(segments, k, q, x)
        /\ Low(segments, k - 1, q, x) => q < pos
        /\ High(segments, k, q, x) => pos < q
      BY <1>2, <1>6 DEF AtWork
  <2> HIDE DEF new, n
  <2>5. Holds(segments', q, x) <=>
            \/ Low(segments, k - 1, q, x)
            \/ p <= q /\ q < p + (n + 1) /\ x = new[q - p + 1]
            \/ High(segments, k, q, x)
      BY <1>4, <1>6, <2>2, <2>3
  <2>6. p <= q /\ q < p + (n + 1) =>
            new[q - p + 1] = IF q = pos THEN v ELSE es[q - p + 1]
    <3>1. p <= q /\ q < p + (n + 1) =>
              q - p + 1 \in 1..(n + 1) /\ (q - p + 1 = n + 1 <=> q = pos)
        BY <2>1
    <3> QED
        BY <2>2, <3>1
  <2>7. /\ q = pos => p <= q /\ q < p + (n + 1) /\ ~(q < p + n)
        /\ q # pos => (q < p + (n + 1) <=> q < p + n)
      BY <2>1
  <2> QED
      BY <2>4, <2>5, <2>6, <2>7
<1>7. CASE /\ k > 1 => d > Len(es)
           /\ segments' = InsertAt(segments, k, NewSegment(pos, v))
  <2>1. k \in 1..(Len(segments) + 1) /\ k \in Nat /\ k + 1 \in Nat
      BY <1>2 DEF AtWork
  <2>2. /\ Low(segments', k, q, x) <=> Low(segments, k, q, x)
        /\ HoldsIn(segments', k, q, x) <=> q = pos /\ x = v
        /\ High(segments', k + 1, q, x) <=> High(segments, k, q, x)
    <3> DEFINE t == InsertAt(segments, k, NewSegment(pos, v))
    <3>1. /\ t \in Seq(Segment) /\ Len(t) = Len(segments) + 1
          /\ \A j \in 1..Len(segments) : j >= k => t[j + 1] = segments[j]
          /\ Low(t, k, q, x) <=> Low(segments, k, q, x)
          /\ HoldsIn(t, k, q, x) <=> q = pos /\ x = v
          /\ High(t, k + 1, q, x) <=> High(segments, k, q, x)
        BY <1>1, <2>1, EnteredSplit
    <3> QED
        BY <1>7, <3>1
  <2>3. Holds(segments', q, x) <=>
            Low(segments', k + 1, q, x) \/ High(segments', k + 1, q, x)
      BY <2>1, Split
  <2>4. Low(segments', k + 1, q, x) <=>
            Low(segments', k, q, x) \/ HoldsIn(segments', k, q, x)
      BY <2>1, Split
  <2>5. /\ Holds(segments, q, x) <=>
               Low(segments, k, q, x) \/ High(segments, k, q, x)
        /\ High(segments, k, q, x) => pos < q
      BY <1>2 DEF AtWork
  <2>6. Low(segments, k, q, x) => q < pos
      BY <1>2, <1>7 DEF AtWork
  <2> QED
      BY <2>2, <2>3, <2>4, <2>5, <2>6
<1> QED
    BY <1>3, <1>5, <1>6, <1>7

\* Refilling segment k - 1 and moving those behind it by n.
LEMMA RefilledAndShifted ==
    ASSUME NEW segs \in Seq(Segment), NEW k \in Nat, k - 1 \in 1..Len(segs),
           NEW new \in Seq(Values), NEW n \in Int,
           \A j \in 1..Len(segs) : j >= k => segs[j].pos_begin + n >= 0,
           NEW q \in Int, NEW x
    PROVE  LET t == Shift(WithEntries(segs, k - 1, new), k, n)
               p == segs[k - 1].pos_begin
           IN  Holds(t, q, x) <=>
                   \/ Low(segs, k - 1, q, x)
                   \/ p <= q /\ q < p + Len(new) /\ x = new[q - p + 1]
                   \/ High(segs, k, q - n, x)
<1> DEFINE w == WithEntries(segs, k - 1, new)
           t == Shift(w, k, n)
           p == segs[k - 1].pos_begin
<1>1. k - 1 \in Nat /\ (k - 1) + 1 = k
    OBVIOUS
<1>0. PICK r \in Int : r = q - n
    OBVIOUS
<1>2. /\ w \in Seq(Segment) /\ Len(w) = Len(segs)
      /\ \A j \in 1..Len(segs) :
             /\ w[j].pos_begin = segs[j].pos_begin
             /\ w[j].entries = IF j = k - 1 THEN new ELSE segs[j].entries
    BY WithEntriesElements
<1>3. /\ w \in Seq(Segment) /\ Len(w) = Len(segs)
      /\ Low(w, k - 1, q, x) <=> Low(segs, k - 1, q, x)
      /\ High(w, (k - 1) + 1, q, x) <=> High(segs, (k - 1) + 1, q, x)
      /\ HoldsIn(w, k - 1, q, x) <=>
             p <= q /\ q < p + Len(new) /\ x = new[q - p + 1]
    BY <1>1, RefilledSplit
<1>4. /\ w \in Seq(Segment) /\ Len(w) = Len(segs)
      /\ Low(w, k - 1, r, x) <=> Low(segs, k - 1, r, x)
      /\ High(w, (k - 1) + 1, r, x) <=> High(segs, (k - 1) + 1, r, x)
      /\ HoldsIn(w, k - 1, r, x) <=>
             p <= r /\ r < p + Len(new) /\ x = new[r - p + 1]
    BY <1>1, RefilledSplit
<1> HIDE DEF w, p
<1>5. \A j \in 1..Len(w) : j >= k => w[j].pos_begin + n >= 0
    BY <1>2
<1>6. /\ t \in Seq(Segment)
      /\ Low(t, k, q, x) <=> Low(w, k, q, x)
      /\ High(t, k, q, x) <=> High(w, k, q - n, x)
    BY <1>2, <1>5, ShiftedSplit
<1>7. /\ Holds(t, q, x) <=> Low(t, k, q, x) \/ High(t, k, q, x)
      /\ Low(t, k + 1, q, x) <=> Low(t, k, q, x) \/ HoldsIn(t, k, q, x)
    BY Split
<1>8. /\ Holds(w, q, x) <=> Low(w, k - 1, q, x) \/ High(w, k - 1, q, x)
      /\ Low(w, (k - 1) + 1, q, x) <=>
             Low(w, k - 1, q, x) \/ HoldsIn(w, k - 1, q, x)
    BY <1>1, Split
<1> HIDE DEF t
<1>9. Holds(t, q, x) <=>
          \/ Low(segs, k - 1, q, x)
          \/ p <= q /\ q < p + Len(new) /\ x = new[q - p + 1]
          \/ High(segs, k, q - n, x)
    BY <1>0, <1>1, <1>3, <1>4, <1>6, <1>7, <1>8
<1> QED
    BY <1>9 DEF t, w, p

\* RowCache::insert puts the row at its position; the later ones move up.
LEMMA InsertHolds ==
    ASSUME TypeOK, WellFormed, NEW pos \in Nat, NEW v \in Values,
           Insert(pos, v), NEW q \in Int, NEW x
    PROVE  Holds(segments', q, x) <=>
               \/ q < pos /\ Holds(segments, q, x)
               \/ q = pos /\ x = v
               \/ q > pos /\ Holds(segments, q - 1, x)
<1> DEFINE kk == GetSegmentBeyond(segments, pos)
<1>0. PICK k : k = kk
    OBVIOUS
<1>7. PICK r \in Int : r = q - 1
    OBVIOUS
<1> DEFINE es == segments[k - 1].entries
           p == segments[k - 1].pos_begin
           d == pos - p
<1>1. segments \in Seq(Segment) /\ Disjoint(segments) /\ q - 1 \in Int
    BY DEF TypeOK, WellFormed
<1>2. /\ AtWork(segments, pos, k, es, p, q, x)
      /\ AtWork(segments, pos, k, es, p, q - 1, x)
  <2>1. AtWork(segments, pos, k, es, p, q, x)
      BY <1>0, <1>1, WorksThere
  <2>2. AtWork(segments, pos, k, es, p, r, x)
      BY <1>0, <1>1, WorksThere
  <2> QED
      BY <1>7, <2>1, <2>2
<1>3. \/ /\ k > 1 /\ d <= Len(es)
         /\ segments' = Shift(WithEntries(segments, k - 1,
                                          InsertAt(es, d + 1, v)), k, 1)
      \/ /\ k > 1 => d > Len(es)
         /\ segments' = Shift(InsertAt(segments, k, NewSegment(pos, v)),
                              k + 1, 1)
    BY <1>0 DEF Insert
<1>4. /\ k \in Nat /\ k + 1 \in Nat /\ k \in 1..(Len(segments) + 1)
      /\ \A j \in 1..Len(segments) : j >= k =>
             segments[j].pos_begin \in Nat /\ segments[j].pos_begin + 1 >= 0
    BY <1>1, <1>2, SegmentFields DEF AtWork
<1> HIDE DEF es, p
<1>5. CASE /\ k > 1 /\ d <= Len(es)
           /\ segments' = Shift(WithEntries(segments, k - 1,
                                            InsertAt(es, d + 1, v)), k, 1)
  <2> DEFINE new == InsertAt(es, d + 1, v)
             n == Len(es)
  <2>1. /\ es \in Seq(Values) /\ n \in Nat /\ p \in Nat /\ p <= pos
        /\ pos <= p + n /\ k - 1 \in 1..Len(segments)
      BY <1>2, <1>5 DEF AtWork
  <2>2. /\ new \in Seq(Values) /\ Len(new) = n + 1
        /\ \A j \in 1..(n + 1) :
               new[j] = IF j < d + 1 THEN es[j]
                        ELSE IF j = d + 1 THEN v ELSE es[j - 1]
    <3>1. d + 1 \in 1..(Len(es) + 1)
        BY <2>1
    <3> HIDE DEF d
    <3>2. new \in Seq(Values) /\ IsInsertion(new, es, d + 1, v)
        BY <2>1, <3>1, InsertAtElements
    <3> QED
        BY <3>2 DEF IsInsertion
  <2>3. segments' = Shift(WithEntries(segments, k - 1, new), k, 1)
      BY <1>5
  <2>4. /\ Holds(segments, q, x) <=>
               \/ Low(segments, k - 1, q, x)
               \/ p <= q /\ q < p + n /\ x = es[q - p + 1]
               \/ High(segments, k, q, x)
        /\ Low(segments, k - 1, q, x) => q < pos
        /\ High(segments, k, q, x) => pos < q
      BY <1>2, <1>5 DEF AtWork
  <2>5. /\ Holds(segments, q - 1, x) <=>
               \/ Low(segments, k - 1, q - 1, x)
               \/ p <= q - 1 /\ q - 1 < p + n /\ x = es[q - 1 - p + 1]
               \/ High(segments, k, q - 1, x)
        /\ Low(segments, k - 1, q - 1, x) => q - 1 < p
        /\ High(segments, k, q - 1, x) => pos < q - 1
      BY <1>2, <1>5 DEF AtWork
  <2> HIDE DEF new, n
  <2>6. Holds(segments', q, x) <=>
            \/ Low(segments, k - 1, q, x)
            \/ p <= q /\ q < p + Len(new) /\ x = new[q - p + 1]
            \/ High(segments, k, q - 1, x)
    <3>0. PICK e \in Int : e = 1
        OBVIOUS
    <3> DEFINE b == segments[k - 1].pos_begin
               t == Shift(WithEntries(segments, k - 1, new), k, e)
    <3>1. \A j \in 1..Len(segments) : j >= k =>
              segments[j].pos_begin + e >= 0
        BY <1>4, <3>0
    <3>2. Holds(t, q, x) <=>
            \/ Low(segments, k - 1, q, x)
            \/ b <= q /\ q < b + Len(new) /\ x = new[q - b + 1]
            \/ High(segments, k, q - e, x)
        BY <1>1, <1>4, <2>1, <2>2, <3>1, RefilledAndShifted
    <3> QED
        BY <2>3, <3>0, <3>2 DEF p
  <2>7. p <= q /\ q < p + (n + 1) =>
            new[q - p + 1] = IF q < pos THEN es[q - p + 1]
                             ELSE IF q = pos THEN v ELSE es[q - 1 - p + 1]
    <3>1. p <= q /\ q < p + (n + 1) =>
              /\ q - p + 1 \in 1..(n + 1)
              /\ (q - p + 1 = d + 1 <=> q = pos)
              /\ (q - p + 1 < d + 1 <=> q < pos)
              /\ (q - p + 1) - 1 = q - 1 - p + 1
        BY <2>1
    <3> QED
        BY <2>2, <3>1
  <2>8. /\ q = pos => p <= q /\ q < p + (n + 1)
        /\ q < pos => q < p + n /\ q < p + (n + 1)
        /\ q > pos => /\ p <= q /\ p <= q - 1
                      /\ (q < p + (n + 1) <=> q - 1 < p + n)
        /\ q > pos => ~ (q - 1 < p)
        /\ pos < q - 1 => pos < q
      BY <2>1
  <2>9. Holds(segments', q, x) <=>
            \/ Low(segments, k - 1, q, x)
            \/ p <= q /\ q < p + (n + 1) /\ x = new[q - p + 1]
            \/ High(segments, k, q - 1, x)
      BY <2>2, <2>6
  <2>10. CASE q < pos
      BY <2>1, <2>4, <2>5, <2>7, <2>8, <2>9, <2>10
  <2>11. CASE q = pos
      BY <2>1, <2>4, <2>5, <2>7, <2>8, <2>9, <2>11
  <2>12. CASE q > pos
      BY <2>1, <2>4, <2>5, <2>7, <2>8, <2>9, <2>12
  <2> QED
      BY <2>10, <2>11, <2>12
<1>6. CASE /\ k > 1 => d > Len(es)
           /\ segments' = Shift(InsertAt(segments, k, NewSegment(pos, v)),
                                k + 1, 1)
  <2>0. PICK e \in Int : e = 1
      OBVIOUS
  <2>13. segments \in Seq(Segment) /\ k \in 1..(Len(segments) + 1)
      BY <1>1, <1>4
  <2> DEFINE w == InsertAt(segments, k, NewSegment(pos, v))
             t == Shift(w, k + 1, e)
  <2>1. /\ w \in Seq(Segment) /\ Len(w) = Len(segments) + 1
        /\ \A j \in 1..Len(segments) : j >= k => w[j + 1] = segments[j]
        /\ Low(w, k, q, x) <=> Low(segments, k, q, x)
        /\ HoldsIn(w, k, q, x) <=> q = pos /\ x = v
        /\ High(w, k + 1, q, x) <=> High(segments, k, q, x)
      BY <2>13, EnteredSplit
  <2>2. /\ w \in Seq(Segment) /\ Len(w) = Len(segments) + 1
        /\ \A j \in 1..Len(segments) : j >= k => w[j + 1] = segments[j]
        /\ Low(w, k, r, x) <=> Low(segments, k, r, x)
        /\ HoldsIn(w, k, r, x) <=> r = pos /\ x = v
        /\ High(w, k + 1, r, x) <=> High(segments, k, r, x)
      BY <2>13, EnteredSplit
  <2> HIDE DEF w
  <2>3. \A j \in 1..Len(w) : j >= k + 1 => w[j].pos_begin + e >= 0
    <3>1. \A j \in 1..Len(w) : w[j].pos_begin \in Nat
        BY <2>1, SegmentFields
    <3> QED
        BY <2>0, <3>1
  <2>4. /\ t \in Seq(Segment)
        /\ Low(t, k + 1, q, x) <=> Low(w, k + 1, q, x)
        /\ High(t, k + 1, q, x) <=> High(w, k + 1, q - e, x)
      BY <1>4, <2>1, <2>3, ShiftedSplit
  <2>5. Holds(t, q, x) <=> Low(t, k + 1, q, x) \/ High(t, k + 1, q, x)
      BY <1>4, Split
  <2>6. Low(w, k + 1, q, x) <=> Low(w, k, q, x) \/ HoldsIn(w, k, q, x)
      BY <1>4, Split
  <2>7. segments' = t
      BY <1>6, <2>0 DEF w
  <2> HIDE DEF t
  <2>8. Holds(segments', q, x) <=>
            \/ Low(segments, k, q, x)
            \/ q = pos /\ x = v
            \/ High(segments, k, q - 1, x)
      BY <1>7, <2>0, <2>1, <2>2, <2>4, <2>5, <2>6, <2>7
  <2>9. /\ Holds(segments, q, x) <=>
               Low(segments, k, q, x) \/ High(segments, k, q, x)
        /\ High(segments, k, q, x) => pos < q
        /\ Holds(segments, q - 1, x) <=>
               Low(segments, k, q - 1, x) \/ High(segments, k, q - 1, x)
        /\ High(segments, k, q - 1, x) => pos < q - 1
      BY <1>2 DEF AtWork
  <2>10. /\ Low(segments, k, q, x) => q < pos
         /\ Low(segments, k, q - 1, x) => q - 1 < pos
      BY <1>1, <1>2, <1>6 DEF AtWork
  <2>11. /\ pos < q - 1 => q > pos
         /\ q > pos => ~ (q - 1 < pos)
         /\ q < pos => ~ (pos < q) /\ ~ (q > pos)
      BY <1>1
  <2> QED
      BY <2>8, <2>9, <2>10, <2>11
<1> QED
    BY <1>3, <1>5, <1>6

\* RowCache::erase takes the position out; the later ones move down.
LEMMA EraseHolds ==
    ASSUME TypeOK, WellFormed, NEW pos \in Nat, Erase(pos),
           NEW q \in Int, NEW x
    PROVE  Holds(segments', q, x) <=>
               \/ q < pos /\ Holds(segments, q, x)
               \/ q >= pos /\ Holds(segments, q + 1, x)
<1> DEFINE kk == GetSegmentBeyond(segments, pos)
<1>0. PICK k : k = kk
    OBVIOUS
<1>13. PICK z \in Int : z = q + 1
    OBVIOUS
<1> DEFINE es == segments[k - 1].entries
           p == segments[k - 1].pos_begin
           d == pos - p
<1>1. segments \in Seq(Segment) /\ Disjoint(segments) /\ q + 1 \in Int
    BY DEF TypeOK, WellFormed
<1>2. /\ AtWork(segments, pos, k, es, p, q, x)
      /\ AtWork(segments, pos, k, es, p, q + 1, x)
  <2>1. AtWork(segments, pos, k, es, p, q, x)
      BY <1>0, <1>1, WorksThere
  <2>2. AtWork(segments, pos, k, es, p, z, x)
      BY <1>0, <1>1, WorksThere
  <2> QED
      BY <1>13, <2>1, <2>2
<1>3. \/ /\ k > 1 /\ d < Len(es) /\ Len(es) > 1
         /\ segments' = Shift(WithEntries(segments, k - 1,
                                          RemoveAt(es, d + 1)), k, -1)
      \/ /\ k > 1 /\ d < Len(es) /\ Len(es) = 1
         /\ segments' = Shift(RemoveAt(segments, k - 1), k - 1, -1)
      \/ /\ k > 1 => d >= Len(es)
         /\ segments' = Shift(segments, k, -1)
    BY <1>0 DEF Erase
<1>4. PICK e \in Int : e = -1
    OBVIOUS
<1>5. /\ k \in Nat /\ k - 1 \in Nat /\ (k - 1) + 1 = k
      /\ k \in 1..(Len(segments) + 1)
      /\ \A j \in 1..Len(segments) : j >= k =>
             segments[j].pos_begin \in Nat /\ segments[j].pos_begin + e >= 0
  <2>1. /\ k \in 1..(Len(segments) + 1) /\ Len(segments) \in Nat
        /\ k - 1 \in Nat
        /\ \A j \in 1..Len(segments) : j >= k => pos < segments[j].pos_begin
      BY <1>2 DEF AtWork
  <2>2. ASSUME NEW j \in 1..Len(segments), j >= k
        PROVE  segments[j].pos_begin \in Nat /\ segments[j].pos_begin + e >= 0
    <3>1. segments[j].pos_begin \in Nat /\ pos < segments[j].pos_begin
        BY <1>1, <2>1, <2>2, SegmentFields
    <3> QED
        BY <1>4, <3>1
  <2>3. k \in Nat /\ (k - 1) + 1 = k
      BY <2>1
  <2> QED
      BY <2>1, <2>2, <2>3
<1>6. PICK r \in Int : r = q + 1 /\ r = q - e
    BY <1>4
<1>7. /\ Holds(segments, q, x) <=>
             \/ Low(segments, k - 1, q, x)
             \/ HoldsIn(segments, k - 1, q, x)
             \/ High(segments, k, q, x)
      /\ HoldsIn(segments, k - 1, q, x) <=>
             k > 1 /\ p <= q /\ q < p + Len(es) /\ x = es[q - p + 1]
      /\ Low(segments, k - 1, q, x) => q < pos
      /\ High(segments, k, q, x) => pos < q
    BY <1>2 DEF AtWork
<1>8. /\ Holds(segments, r, x) <=>
             \/ Low(segments, k - 1, r, x)
             \/ HoldsIn(segments, k - 1, r, x)
             \/ High(segments, k, r, x)
      /\ HoldsIn(segments, k - 1, r, x) <=>
             k > 1 /\ p <= r /\ r < p + Len(es) /\ x = es[r - p + 1]
      /\ Low(segments, k - 1, r, x) => r < pos
      /\ Low(segments, k - 1, r, x) /\ k > 1 => r < p
      /\ High(segments, k, r, x) => pos < r
    BY <1>2, <1>6 DEF AtWork
<1>9. k > 1 => /\ k - 1 \in 1..Len(segments)
               /\ es \in Seq(Values) /\ Len(es) \in Nat /\ Len(es) > 0
               /\ p \in Nat /\ p <= pos
    BY <1>2 DEF AtWork
<1> SUFFICES Holds(segments', q, x) <=>
                 \/ q < pos /\ Holds(segments, q, x)
                 \/ q >= pos /\ Holds(segments, r, x)
    BY <1>6
<1> HIDE DEF es, p
<1>10. CASE /\ k > 1 /\ d < Len(es) /\ Len(es) > 1
            /\ segments' = Shift(WithEntries(segments, k - 1,
                                             RemoveAt(es, d + 1)), k, -1)
  <2> DEFINE new == RemoveAt(es, d + 1)
             n == Len(es)
  <2>1. /\ es \in Seq(Values) /\ n \in Nat /\ p \in Nat /\ p <= pos
        /\ pos < p + n /\ k - 1 \in 1..Len(segments)
      BY <1>9, <1>10
  <2>2. /\ new \in Seq(Values) /\ Len(new) = n - 1
        /\ \A j \in 1..(n - 1) :
               new[j] = IF j < d + 1 THEN es[j] ELSE es[j + 1]
    <3>1. d + 1 \in 1..Len(es)
        BY <2>1
    <3> HIDE DEF d
    <3> QED
        BY <2>1, <3>1, RemoveAtElements
  <2> HIDE DEF new, n
  <2>3. Holds(segments', q, x) <=>
            \/ Low(segments, k - 1, q, x)
            \/ p <= q /\ q < p + Len(new) /\ x = new[q - p + 1]
            \/ High(segments, k, r, x)
    <3> DEFINE b == segments[k - 1].pos_begin
               t == Shift(WithEntries(segments, k - 1, new), k, e)
    <3>1. Holds(t, q, x) <=>
            \/ Low(segments, k - 1, q, x)
            \/ b <= q /\ q < b + Len(new) /\ x = new[q - b + 1]
            \/ High(segments, k, q - e, x)
        BY <1>1, <1>5, <2>1, <2>2, RefilledAndShifted
    <3>2. segments' = t
        BY <1>4, <1>10 DEF new
    <3> QED
        BY <1>6, <3>1, <3>2 DEF p
  <2>4. p <= q /\ q < p + (n - 1) =>
            new[q - p + 1] = IF q < pos THEN es[q - p + 1] ELSE es[r - p + 1]
    <3>1. p <= q /\ q < p + (n - 1) =>
              /\ q - p + 1 \in 1..(n - 1)
              /\ (q - p + 1 < d + 1 <=> q < pos)
              /\ (q - p + 1) + 1 = r - p + 1
        BY <1>6, <2>1
    <3> QED
        BY <2>2, <3>1
  <2>5. Holds(segments', q, x) <=>
            \/ Low(segments, k - 1, q, x)
            \/ p <= q /\ q < p + (n - 1) /\ x = new[q - p + 1]
            \/ High(segments, k, r, x)
      BY <2>2, <2>3
  <2>6. /\ HoldsIn(segments, k - 1, q, x) <=>
               p <= q /\ q < p + n /\ x = es[q - p + 1]
        /\ HoldsIn(segments, k - 1, r, x) <=>
               p <= r /\ r < p + n /\ x = es[r - p + 1]
      BY <1>7, <1>8, <1>10 DEF n
  <2>7. /\ q < pos => q < p + n /\ q < p + (n - 1) /\ ~ (pos < q)
        /\ q < pos => ~ (pos < r)
        /\ q >= pos => /\ p <= q /\ p <= r /\ ~ (r < p) /\ ~ (q < pos)
                       /\ (q < p + (n - 1) <=> r < p + n)
      BY <1>6, <2>1
  <2>8. CASE q < pos
      BY <1>7, <1>8, <2>4, <2>5, <2>6, <2>7, <2>8
  <2>9. CASE q >= pos
      BY <1>7, <1>8, <1>10, <2>4, <2>5, <2>6, <2>7, <2>9
  <2> QED
      BY <2>1, <2>8, <2>9
<1>11. CASE /\ k > 1 /\ d < Len(es) /\ Len(es) = 1
            /\ segments' = Shift(RemoveAt(segments, k - 1), k - 1, -1)
  <2> DEFINE w == RemoveAt(segments, k - 1)
             t == Shift(w, k - 1, e)
  <2>1. k - 1 \in 1..Len(segments) /\ p = pos /\ p \in Nat
      BY <1>9, <1>11
  <2>2. /\ w \in Seq(Segment) /\ Len(w) = Len(segments) - 1
        /\ \A j \in 1..Len(w) : j >= k - 1 => w[j] = segments[j + 1]
        /\ Low(w, k - 1, q, x) <=> Low(segments, k - 1, q, x)
        /\ High(w, k - 1, q, x) <=> High(segments, (k - 1) + 1, q, x)
      BY <1>1, <2>1, TakenSplit
  <2>3. /\ w \in Seq(Segment) /\ Len(w) = Len(segments) - 1
        /\ \A j \in 1..Len(w) : j >= k - 1 => w[j] = segments[j + 1]
        /\ Low(w, k - 1, r, x) <=> Low(segments, k - 1, r, x)
        /\ High(w, k - 1, r, x) <=> High(segments, (k - 1) + 1, r, x)
      BY <1>1, <2>1, TakenSplit
  <2> HIDE DEF w
  <2>4. \A j \in 1..Len(w) : j >= k - 1 => w[j].pos_begin + e >= 0
    <3>1. \A j \in 1..Len(w) : j >= k - 1 =>
              j + 1 \in 1..Len(segments) /\ j + 1 >= k
        BY <1>5, <2>2, SegmentFields
    <3> QED
        BY <1>5, <2>2, <3>1
  <2>5. /\ t \in Seq(Segment)
        /\ Low(t, k - 1, q, x) <=> Low(w, k - 1, q, x)
        /\ High(t, k - 1, q, x) <=> High(w, k - 1, q - e, x)
      BY <1>5, <2>2, <2>4, ShiftedSplit
  <2>6. Holds(t, q, x) <=> Low(t, k - 1, q, x) \/ High(t, k - 1, q, x)
      BY <1>5, Split
  <2>7. segments' = t
      BY <1>4, <1>11 DEF w
  <2> HIDE DEF t
  <2>8. Holds(segments', q, x) <=>
            Low(segments, k - 1, q, x) \/ High(segments, k, r, x)
      BY <1>5, <1>6, <2>2, <2>3, <2>5, <2>6, <2>7
  <2>9. /\ HoldsIn(segments, k - 1, q, x) => q >= pos
        /\ HoldsIn(segments, k - 1, r, x) => ~ (q >= pos)
        /\ pos < r => q >= pos
        /\ q >= pos => ~ (q < pos) /\ ~ (r < pos)
        /\ q >= pos \/ q < pos
      BY <1>6, <1>7, <1>8, <1>11, <2>1
  <2>10. pos < q => ~ (q < pos)
      OBVIOUS
  <2> QED
      BY <1>7, <1>8, <2>8, <2>9, <2>10
<1>12. CASE /\ k > 1 => d >= Len(es)
            /\ segments' = Shift(segments, k, -1)
  <2> DEFINE t == Shift(segments, k, e)
  <2>1. /\ t \in Seq(Segment)
        /\ Low(t, k, q, x) <=> Low(segments, k, q, x)
        /\ High(t, k, q, x) <=> High(segments, k, q - e, x)
      BY <1>1, <1>5, ShiftedSplit
  <2>2. Holds(t, q, x) <=> Low(t, k, q, x) \/ High(t, k, q, x)
      BY <1>5, Split
  <2>3. segments' = t
      BY <1>4, <1>12
  <2> HIDE DEF t
  <2>4. Low(segments, k, q, x) <=>
            Low(segments, k - 1, q, x) \/ HoldsIn(segments, k - 1, q, x)
      BY <1>2 DEF AtWork
  <2>5. Holds(segments', q, x) <=>
            \/ Low(segments, k - 1, q, x)
            \/ HoldsIn(segments, k - 1, q, x)
            \/ High(segments, k, r, x)
      BY <1>6, <2>1, <2>2, <2>3, <2>4
  <2>6. /\ HoldsIn(segments, k - 1, q, x) => q < pos
        /\ HoldsIn(segments, k - 1, r, x) => r < pos
      BY <1>7, <1>8, <1>9, <1>12
  <2>7. /\ pos < r => q >= pos
        /\ r < pos => ~ (q >= pos)
        /\ pos < q => ~ (q < pos)
        /\ q < pos \/ q >= pos
        /\ q >= pos => ~ (q < pos)
      BY <1>6
  <2> QED
      BY <1>7, <1>8, <2>5, <2>6, <2>7
<1> QED
    BY <1>3, <1>10, <1>11, <1>12

---------------------------------------------------------------------------
(* The refinement of SparseVector. *)

\* Loaded and View, of any segments.
LoadedIn(segs) == UNION {segs[i].pos_begin..(PosEnd(segs[i]) - 1) :
                            i \in 1..Len(segs)}

ViewOf(segs) == [p \in LoadedIn(segs) |-> At(segs, p)]

\* at() finds the row that some segment holds at a position.
LEMMA FoundAt ==
    ASSUME NEW segs \in Seq(Segment), Disjoint(segs), NEW q \in Nat, NEW x,
           NEW i, HoldsIn(segs, i, q, x)
    PROVE  At(segs, q) = x
<1>0. PICK k : k = GetSegmentBeyond(segs, q)
    OBVIOUS
<1>1. AtWork(segs, q, k, segs[k - 1].entries, segs[k - 1].pos_begin, q, x)
  <2>1. PICK r \in Int : r = q
      OBVIOUS
  <2>2. AtWork(segs, q, k, segs[k - 1].entries, segs[k - 1].pos_begin, r, x)
      BY <1>0, WorksThere
  <2> QED
      BY <2>1, <2>2
<1>2. Holds(segs, q, x)
    BY DEF Holds, HoldsIn
<1>3. ~ Low(segs, k - 1, q, x) /\ ~ High(segs, k, q, x)
    BY <1>1 DEF AtWork
<1>4. HoldsIn(segs, k - 1, q, x)
    BY <1>1, <1>2, <1>3 DEF AtWork
<1>5. /\ k - 1 \in 1..Len(segs) /\ q < PosEnd(segs[k - 1])
      /\ x = segs[k - 1].entries[q - segs[k - 1].pos_begin + 1]
    BY <1>4 DEF HoldsIn, PosEnd
<1>6. k - 1 > 0
    BY <1>5
<1>7. GetSegmentContaining(segs, q) = k - 1
    BY <1>0, <1>5, <1>6 DEF GetSegmentContaining
<1> QED
    BY <1>5, <1>7 DEF At

\* The view of the cache holds exactly the rows of its segments.
LEMMA ViewHolds ==
    ASSUME NEW segs \in Seq(Segment), Disjoint(segs), NEW q \in Int, NEW x
    PROVE  /\ LoadedIn(segs) \subseteq Nat
           /\ Holds(segs, q, x) <=>
                  q \in LoadedIn(segs) /\ x = ViewOf(segs)[q]
<1>1. \A i \in 1..Len(segs) :
          /\ segs[i].pos_begin \in Nat /\ PosEnd(segs[i]) \in Nat
          /\ PosEnd(segs[i]) = segs[i].pos_begin + Len(segs[i].entries)
    BY SegmentFields
<1>2. LoadedIn(segs) \subseteq Nat
    BY <1>1 DEF LoadedIn
<1>3. q \in LoadedIn(segs) <=>
          \E i \in 1..Len(segs) :
              segs[i].pos_begin <= q /\ q < PosEnd(segs[i])
  <2>1. \A i \in 1..Len(segs) :
            q \in segs[i].pos_begin..(PosEnd(segs[i]) - 1) <=>
                segs[i].pos_begin <= q /\ q < PosEnd(segs[i])
      BY <1>1
  <2> QED
      BY <2>1 DEF LoadedIn
<1>4. ASSUME Holds(segs, q, x)
      PROVE  q \in LoadedIn(segs) /\ x = ViewOf(segs)[q]
  <2>1. PICK i \in 1..Len(segs) : HoldsIn(segs, i, q, x)
      BY <1>4 DEF Holds
  <2>2. q \in LoadedIn(segs)
      BY <1>1, <1>3, <2>1 DEF HoldsIn
  <2>3. At(segs, q) = x
      BY <1>2, <2>1, <2>2, FoundAt
  <2> QED
      BY <2>2, <2>3 DEF ViewOf
<1>5. ASSUME q \in LoadedIn(segs), x = ViewOf(segs)[q]
      PROVE  Holds(segs, q, x)
  <2>1. PICK i \in 1..Len(segs) :
            segs[i].pos_begin <= q /\ q < PosEnd(segs[i])
      BY <1>3, <1>5
  <2> DEFINE y == segs[i].entries[q - segs[i].pos_begin + 1]
  <2>2. HoldsIn(segs, i, q, y)
      BY <1>1, <2>1 DEF HoldsIn
  <2>3. At(segs, q) = y
      BY <1>2, <1>5, <2>2, FoundAt
  <2>4. x = y
      BY <1>5, <2>3 DEF ViewOf
  <2> QED
      BY <2>2, <2>4 DEF Holds
<1> QED
    BY <1>2, <1>4, <1>5

\* A cache whose segments hold the rows of g looks like g.
LEMMA SameVector ==
    ASSUME NEW segs \in Seq(Segment), Disjoint(segs),
           NEW D \in SUBSET Int, NEW g, g = [q \in D |-> g[q]],
           \A q \in Int : \A x : Holds(segs, q, x) <=> q \in D /\ x = g[q]
    PROVE  ViewOf(segs) = g
<1> DEFINE f == ViewOf(segs)
<1>1. \A q \in Int : \A x :
          /\ LoadedIn(segs) \subseteq Nat
          /\ Holds(segs, q, x) <=> q \in LoadedIn(segs) /\ x = f[q]
    BY ViewHolds
<1>2. LoadedIn(segs) \subseteq Int
  <2>1. 0 \in Int
      OBVIOUS
  <2>2. LoadedIn(segs) \subseteq Nat
      BY <1>1, <2>1
  <2> QED
      BY <2>2
<1>3. f = [q \in LoadedIn(segs) |-> f[q]]
    BY DEF ViewOf
<1> HIDE DEF f
<1>4. ASSUME NEW q \in LoadedIn(segs) PROVE q \in D /\ f[q] = g[q]
    BY <1>1, <1>2
<1>5. ASSUME NEW q \in D PROVE q \in LoadedIn(segs)
    BY <1>1
<1>6. LoadedIn(segs) = D
    BY <1>4, <1>5
<1>7. f = g
    BY <1>3, <1>4, <1>6
<1> QED
    BY <1>7 DEF f

\* View is the view of the cache's segments.
LEMMA ViewIsViewOf ==
    View = ViewOf(segments) /\ DOMAIN View = LoadedIn(segments)
    BY DEF View, ViewOf, Loaded, LoadedIn

\* Which rows the view of a well-formed cache holds.
LEMMA ViewBefore ==
    ASSUME TypeOK, WellFormed, NEW q \in Int, NEW x
    PROVE  /\ DOMAIN View \subseteq Int
           /\ Holds(segments, q, x) <=> q \in DOMAIN View /\ x = View[q]
<1>1. /\ LoadedIn(segments) \subseteq Nat
      /\ Holds(segments, q, x) <=>
             q \in LoadedIn(segments) /\ x = ViewOf(segments)[q]
    BY ViewHolds DEF TypeOK, WellFormed
<1> QED
    BY <1>1, ViewIsViewOf

\* The positions of the view are integers.
LEMMA PositionsAreIntegers ==
    ASSUME TypeOK, WellFormed
    PROVE  DOMAIN View \subseteq Int
<1>1. 0 \in Int
    OBVIOUS
<1>2. \A x : /\ DOMAIN View \subseteq Int
             /\ Holds(segments, 0, x) <=> 0 \in DOMAIN View /\ x = View[0]
    BY <1>1, ViewBefore
<1> QED
    BY <1>2

\* RowCache::set is the sparse vector's.
LEMMA SetRefined ==
    ASSUME TypeOK, WellFormed, NEW pos \in Nat, NEW v \in Values, Set(pos, v)
    PROVE  Abstract!Set(pos, v)
<1> DEFINE D == DOMAIN View \cup {pos}
           g == [q \in D |-> IF q = pos THEN v ELSE View[q]]
<1>1. segments' \in Seq(Segment) /\ Disjoint(segments')
    BY SetPreserves DEF TypeOK, WellFormed
<1>2. DOMAIN View \subseteq Int
    BY PositionsAreIntegers
<1>3. D \in SUBSET Int /\ pos \in Int
    BY <1>2
<1>4. \A q \in Int : \A x : Holds(segments', q, x) <=> q \in D /\ x = g[q]
  <2> SUFFICES ASSUME NEW q \in Int, NEW x
               PROVE  Holds(segments', q, x) <=> q \in D /\ x = g[q]
      OBVIOUS
  <2>1. Holds(segments', q, x) <=>
            \/ q = pos /\ x = v
            \/ q # pos /\ Holds(segments, q, x)
      BY SetHolds
  <2>2. /\ DOMAIN View \subseteq Int
        /\ Holds(segments, q, x) <=> q \in DOMAIN View /\ x = View[q]
      BY ViewBefore
  <2> QED
      BY <2>1, <2>2
<1>5. g = [q \in D |-> g[q]]
    OBVIOUS
<1> HIDE DEF g, D
<1>6. ViewOf(segments') = g
    BY <1>1, <1>3, <1>4, <1>5, SameVector
<1>7. View' = ViewOf(segments')
    BY DEF View, ViewOf, Loaded, LoadedIn
<1> QED
    BY <1>6, <1>7 DEF Abstract!Set, g, D

\* RowCache::insert is the sparse vector's.
LEMMA InsertRefined ==
    ASSUME TypeOK, WellFormed, NEW pos \in Nat, NEW v \in Values,
           Insert(pos, v)
    PROVE  Abstract!Insert(pos, v)
<1> DEFINE D == {x \in DOMAIN View : x < pos} \cup {pos}
                    \cup {x + 1 : x \in {y \in DOMAIN View : y >= pos}}
           row(q) == CASE q < pos -> View[q]
                       [] q = pos -> v
                       [] q > pos -> View[q - 1]
           g == [q \in D |-> row(q)]
<1>1. segments' \in Seq(Segment) /\ Disjoint(segments')
    BY InsertPreserves DEF TypeOK, WellFormed
<1>2. DOMAIN View \subseteq Int
    BY PositionsAreIntegers
<1>3. D \in SUBSET Int /\ pos \in Int
    BY <1>2
<1>4. \A q \in Int : \A x : Holds(segments', q, x) <=> q \in D /\ x = g[q]
  <2> SUFFICES ASSUME NEW q \in Int, NEW x
               PROVE  Holds(segments', q, x) <=> q \in D /\ x = g[q]
      OBVIOUS
  <2>0. PICK r \in Int : r = q - 1
      OBVIOUS
  <2>1. Holds(segments', q, x) <=>
            \/ q < pos /\ Holds(segments, q, x)
            \/ q = pos /\ x = v
            \/ q > pos /\ Holds(segments, r, x)
    <3>1. Holds(segments', q, x) <=>
              \/ q < pos /\ Holds(segments, q, x)
              \/ q = pos /\ x = v
              \/ q > pos /\ Holds(segments, q - 1, x)
        BY InsertHolds
    <3> QED
        BY <2>0, <3>1
  <2>2. /\ DOMAIN View \subseteq Int
        /\ Holds(segments, q, x) <=> q \in DOMAIN View /\ x = View[q]
      BY ViewBefore
  <2>3. /\ DOMAIN View \subseteq Int
        /\ Holds(segments, r, x) <=> r \in DOMAIN View /\ x = View[r]
      BY ViewBefore
  <2>4. q \in D <=> \/ q < pos /\ q \in DOMAIN View
                    \/ q = pos
                    \/ q > pos /\ r \in DOMAIN View
    <3>1. q \in {x1 + 1 : x1 \in {y \in DOMAIN View : y >= pos}} <=>
              q > pos /\ r \in DOMAIN View
        BY <1>2, <2>0
    <3> QED
        BY <3>1
  <2>5. q \in D => g[q] = IF q < pos THEN View[q]
                          ELSE IF q = pos THEN v ELSE View[r]
    <3> HIDE DEF D
    <3> QED
        BY <1>3, <2>0
  <2> HIDE DEF D, g
  <2>6. /\ q < pos \/ q = pos \/ q > pos
        /\ q < pos => ~ (q = pos) /\ ~ (q > pos)
        /\ q = pos => ~ (q > pos)
      BY <1>3
  <2> QED
      BY <2>1, <2>2, <2>3, <2>4, <2>5, <2>6
<1>5. g = [q \in D |-> g[q]]
  <2> HIDE DEF row
  <2> QED OBVIOUS
<1> HIDE DEF g, D
<1>6. ViewOf(segments') = g
    BY <1>1, <1>3, <1>4, <1>5, SameVector
<1>7. View' = ViewOf(segments')
    BY DEF View, ViewOf, Loaded, LoadedIn
<1> QED
    BY <1>6, <1>7 DEF Abstract!Insert, g, D

\* RowCache::erase is the sparse vector's.
LEMMA EraseRefined ==
    ASSUME TypeOK, WellFormed, NEW pos \in Nat, Erase(pos)
    PROVE  Abstract!Erase(pos)
<1> DEFINE D == {x \in DOMAIN View : x < pos}
                    \cup {x - 1 : x \in {y \in DOMAIN View : y > pos}}
           g == [q \in D |-> IF q < pos THEN View[q] ELSE View[q + 1]]
<1>1. segments' \in Seq(Segment) /\ Disjoint(segments')
    BY ErasePreserves DEF TypeOK, WellFormed
<1>2. DOMAIN View \subseteq Int
    BY PositionsAreIntegers
<1>3. D \in SUBSET Int /\ pos \in Int
    BY <1>2
<1>4. \A q \in Int : \A x : Holds(segments', q, x) <=> q \in D /\ x = g[q]
  <2> SUFFICES ASSUME NEW q \in Int, NEW x
               PROVE  Holds(segments', q, x) <=> q \in D /\ x = g[q]
      OBVIOUS
  <2>0. PICK r \in Int : r = q + 1
      OBVIOUS
  <2>1. Holds(segments', q, x) <=>
            \/ q < pos /\ Holds(segments, q, x)
            \/ q >= pos /\ Holds(segments, r, x)
    <3>1. Holds(segments', q, x) <=>
              \/ q < pos /\ Holds(segments, q, x)
              \/ q >= pos /\ Holds(segments, q + 1, x)
        BY EraseHolds
    <3> QED
        BY <2>0, <3>1
  <2>2. /\ DOMAIN View \subseteq Int
        /\ Holds(segments, q, x) <=> q \in DOMAIN View /\ x = View[q]
      BY ViewBefore
  <2>3. /\ DOMAIN View \subseteq Int
        /\ Holds(segments, r, x) <=> r \in DOMAIN View /\ x = View[r]
      BY ViewBefore
  <2>4. q \in D <=> \/ q < pos /\ q \in DOMAIN View
                    \/ q >= pos /\ r \in DOMAIN View
    <3>1. q \in {x1 - 1 : x1 \in {y \in DOMAIN View : y > pos}} <=>
              q >= pos /\ r \in DOMAIN View
        BY <1>2, <2>0
    <3> QED
        BY <3>1
  <2>5. q \in D => g[q] = IF q < pos THEN View[q] ELSE View[r]
    <3> HIDE DEF D
    <3> QED
        BY <2>0
  <2> HIDE DEF D, g
  <2>6. (q < pos \/ q >= pos) /\ (q < pos => ~ (q >= pos))
      BY <1>3
  <2> QED
      BY <2>1, <2>2, <2>3, <2>4, <2>5, <2>6
<1>5. g = [q \in D |-> g[q]]
    OBVIOUS
<1> HIDE DEF g, D
<1>6. ViewOf(segments') = g
    BY <1>1, <1>3, <1>4, <1>5, SameVector
<1>7. View' = ViewOf(segments')
    BY DEF View, ViewOf, Loaded, LoadedIn
<1> QED
    BY <1>6, <1>7 DEF Abstract!Erase, g, D

\* A cache without segments is the empty vector.
LEMMA EmptyView ==
    /\ segments = << >> => View = [p \in {} |-> 0]
    /\ segments' = << >> => View' = [p \in {} |-> 0]
    BY DEF View, Loaded

(* Every step of the cache is the step of the same name of the sparse      *)
(* vector that RowCache.h says it resembles: which rows are held at which  *)
(* positions never depends on how they are cut into segments.              *)
THEOREM RefinesSparseVector == Spec => ImplementsSparseVector
<1>1. Init => Abstract!Init
    BY EmptyView DEF Init, Abstract!Init
<1>2. TypeOK /\ WellFormed /\ [Next]_segments => [Abstract!Next]_View
  <2> SUFFICES ASSUME TypeOK, WellFormed, [Next]_segments
               PROVE  [Abstract!Next]_View
      OBVIOUS
  <2>1. Positions \subseteq Nat /\ Abstract!Positions = Positions
      BY MaxPosAssumption DEF Positions, Abstract!Positions
  <2>2. CASE \E pos \in Positions, v \in Values : Set(pos, v)
      BY <2>1, <2>2, SetRefined DEF Abstract!Next
  <2>3. CASE \E pos \in Positions, v \in Values : Insert(pos, v)
      BY <2>1, <2>3, InsertRefined DEF Abstract!Next
  <2>4. CASE \E pos \in Positions : Erase(pos)
      BY <2>1, <2>4, EraseRefined DEF Abstract!Next
  <2>5. CASE Clear
      BY <2>5, EmptyView DEF Clear, Abstract!Clear, Abstract!Next
  <2>6. CASE UNCHANGED segments
      BY <2>6 DEF View, Loaded
  <2> QED
      BY <2>2, <2>3, <2>4, <2>5, <2>6 DEF Next
<1> QED
    BY <1>1, <1>2, CacheWellFormed, PTL
       DEF Spec, ImplementsSparseVector, Abstract!Spec

---------------------------------------------------------------------------
(***************************************************************************)
(* What the cache answers.  The count and the smallest range are recursive *)
(* functions; a recursion on natural numbers has a solution, which is made *)
(* one argument at a time: there is no least argument to fail at.          *)
(***************************************************************************)

\* A function that goes up to the end e along the arrows of next, as long as it
\* is in C, and one that goes down to b.
Ascends(f, e, C, next) ==
    f = [x \in Nat |-> IF x < e /\ x \in C THEN f[next[x]] ELSE x]

Descends(f, b, C, next) ==
    f = [y \in Nat |-> IF y > b /\ y - 1 \in C THEN f[next[y]] ELSE y]

\* The recursive function that goes on from x to next[x] within C exists.
LEMMA AscentExists ==
    ASSUME NEW e \in Nat, NEW C, NEW next,
           \A x \in Nat : x \in C => next[x] \in Nat /\ x < next[x]
    PROVE  \E f : Ascends(f, e, C, next)
<1> DEFINE From(n) == {x \in Nat : e <= x + n}
           Solves(f, n) ==
               f = [x \in From(n) |-> IF x < e /\ x \in C THEN f[next[x]]
                                                          ELSE x]
           T == {n \in Nat : ~ \E f : Solves(f, n)}
<1>1. ASSUME NEW n \in T, \A k \in T : ~ (k < n) PROVE FALSE
  <2>1. CASE n = 0
    <3> DEFINE g == [x \in From(0) |-> x]
    <3>1. g = [x \in From(0) |-> IF x < e /\ x \in C THEN g[next[x]] ELSE x]
        OBVIOUS
    <3>2. Solves(g, n)
        BY <2>1, <3>1
    <3> QED
        BY <3>2
  <2>2. CASE n # 0
    <3>1. n - 1 \in Nat /\ n - 1 < n
        BY <2>2
    <3>2. PICK f : Solves(f, n - 1)
        BY <1>1, <3>1
    <3> DEFINE g == [x \in From(n) |->
                        IF x \in From(n - 1) THEN f[x]
                        ELSE IF x < e /\ x \in C THEN f[next[x]] ELSE x]
    <3>3. ASSUME NEW x \in From(n), x \in C
          PROVE  next[x] \in From(n - 1) /\ next[x] \in From(n)
        BY <3>1, <3>3
    <3>4. ASSUME NEW x \in From(n)
          PROVE  g[x] = IF x < e /\ x \in C THEN g[next[x]] ELSE x
      <4>1. CASE x \in From(n - 1)
        <5>1. g[x] = f[x]
            BY <4>1
        <5>2. f[x] = IF x < e /\ x \in C THEN f[next[x]] ELSE x
            BY <3>2, <4>1
        <5> QED
            BY <3>3, <5>1, <5>2
      <4>2. CASE x \notin From(n - 1)
          BY <3>3, <4>2
      <4> QED
          BY <4>1, <4>2
    <3>5. Solves(g, n)
        BY <3>4
    <3> QED
        BY <3>5
  <2> QED
      BY <2>1, <2>2
<1>2. T \in SUBSET Nat
    OBVIOUS
<1>3. e \notin T
  <2> HIDE DEF T
  <2> QED
      BY <1>1, <1>2, LeastNatural
<1>4. From(e) = Nat
    OBVIOUS
<1>5. PICK f : Solves(f, e)
    BY <1>3
<1> QED
    BY <1>4, <1>5 DEF Ascends


\* A function that goes down to the bound b, along the arrows of next, exists.
LEMMA DescentExists ==
    ASSUME NEW b \in Nat, NEW C, NEW next,
           \A y \in Nat : b < y /\ y - 1 \in C => next[y] \in Nat /\ next[y] < y
    PROVE  \E f : Descends(f, b, C, next)
<1> DEFINE Solves(f, n) ==
               f = [y \in 0..n |-> IF y > b /\ y - 1 \in C THEN f[next[y]]
                                                            ELSE y]
           T == {n \in Nat : ~ \E f : Solves(f, n)}
<1>1. ASSUME NEW n \in T, \A k \in T : ~ (k < n) PROVE FALSE
  <2>1. CASE n = 0
    <3> DEFINE g == [y \in 0..0 |-> y]
    <3>1. g = [y \in 0..0 |-> IF y > b /\ y - 1 \in C THEN g[next[y]] ELSE y]
        OBVIOUS
    <3>2. Solves(g, n)
        BY <2>1, <3>1
    <3> QED
        BY <3>2
  <2>2. CASE n # 0
    <3>1. n - 1 \in Nat /\ n - 1 < n
        BY <2>2
    <3>2. PICK f : Solves(f, n - 1)
        BY <1>1, <3>1
    <3> DEFINE g == [y \in 0..n |->
                        IF y <= n - 1 THEN f[y]
                        ELSE IF y > b /\ y - 1 \in C THEN f[next[y]] ELSE y]
    <3>3. ASSUME NEW y \in 0..n, y > b, y - 1 \in C
          PROVE  next[y] \in 0..(n - 1) /\ next[y] \in 0..n
        BY <3>1, <3>3
    <3>4. ASSUME NEW y \in 0..n
          PROVE  g[y] = IF y > b /\ y - 1 \in C THEN g[next[y]] ELSE y
      <4>1. CASE y <= n - 1
        <5>1. g[y] = f[y]
            BY <4>1
        <5>2. f[y] = IF y > b /\ y - 1 \in C THEN f[next[y]] ELSE y
            BY <3>1, <3>2, <4>1
        <5> QED
            BY <3>3, <5>1, <5>2
      <4>2. CASE ~ (y <= n - 1)
          BY <3>3, <4>2
      <4> QED
          BY <4>1, <4>2
    <3>5. Solves(g, n)
        BY <3>4
    <3> QED
        BY <3>5
  <2> QED
      BY <2>1, <2>2
<1>2. \A n \in Nat : \E f : Solves(f, n)
  <2>1. T \in SUBSET Nat
      OBVIOUS
  <2> HIDE DEF T
  <2>2. \A n \in Nat : n \notin T
      BY <1>1, <2>1, LeastNatural
  <2> QED
      BY <2>2 DEF T
<1> HIDE DEF T
<1> DEFINE part == [n \in Nat |-> CHOOSE f : Solves(f, n)]
           h == [y \in Nat |-> part[y][y]]
<1>3. ASSUME NEW n \in Nat PROVE Solves(part[n], n)
  <2>1. part[n] = CHOOSE f : Solves(f, n)
      OBVIOUS
  <2>2. \E f : Solves(f, n)
      BY <1>2
  <2> HIDE DEF Solves, part
  <2> QED
      BY <2>1, <2>2
<1>4. ASSUME NEW n \in Nat, NEW y \in 0..n
      PROVE  part[n][y] = IF y > b /\ y - 1 \in C THEN part[n][next[y]] ELSE y
  <2>1. part[n] = [z \in 0..n |-> IF z > b /\ z - 1 \in C
                                  THEN part[n][next[z]] ELSE z]
      BY <1>3
  <2> HIDE DEF part
  <2> QED
      BY <2>1
<1> HIDE DEF part
<1>5. ASSUME NEW n \in Nat, NEW y \in Nat, y <= n
      PROVE  part[n][y] = part[y][y]
  <2> DEFINE D == {z \in Nat : \E k, l \in Nat :
                      /\ z <= k /\ z <= l
                      /\ part[k][z] # part[l][z]}
  <2>1. ASSUME NEW z \in D, \A w \in D : ~ (w < z) PROVE FALSE
    <3>1. PICK k \in Nat, l \in Nat :
              z <= k /\ z <= l /\ part[k][z] # part[l][z]
        OBVIOUS
    <3>2. z \in 0..k /\ z \in 0..l
        BY <3>1
    <3>3. /\ part[k][z] = IF z > b /\ z - 1 \in C THEN part[k][next[z]] ELSE z
          /\ part[l][z] = IF z > b /\ z - 1 \in C THEN part[l][next[z]] ELSE z
        BY <1>4, <3>2
    <3>4. CASE z > b /\ z - 1 \in C
      <4>1. next[z] \in Nat /\ next[z] < z
          BY <3>4
      <4>2. next[z] \notin D
          BY <2>1, <4>1
      <4> QED
          BY <3>1, <3>3, <3>4, <4>1, <4>2
    <3> QED
        BY <3>1, <3>3, <3>4
  <2>2. D \in SUBSET Nat
      OBVIOUS
  <2>3. y \notin D
    <3> HIDE DEF D
    <3> QED
        BY <2>1, <2>2, LeastNatural
  <2> QED
      BY <1>5, <2>3
<1>6. ASSUME NEW y \in Nat
      PROVE  h[y] = IF y > b /\ y - 1 \in C THEN h[next[y]] ELSE y
  <2>1. part[y][y] = IF y > b /\ y - 1 \in C THEN part[y][next[y]] ELSE y
      BY <1>4
  <2>2. CASE y > b /\ y - 1 \in C
    <3>1. next[y] \in Nat /\ next[y] <= y
        BY <2>2
    <3> QED
        BY <1>5, <2>1, <2>2, <3>1
  <2> QED
      BY <2>1, <2>2
<1> HIDE DEF h
<1>7. h = [y \in Nat |-> h[y]]
    BY DEF h
<1> QED
    BY <1>6, <1>7 DEF Descends

\* The fold that numSet is exists: it takes off the greatest index in turn.
LEMMA CountExists ==
    ASSUME NEW segs, NEW n \in Nat
    PROVE  \E f : f = [s \in SUBSET (1..n) |->
                          IF s = {} THEN 0
                          ELSE f[s \ {Max(s)}] + Len(segs[Max(s)].entries)]
<1> DEFINE Solves(f, k) ==
               f = [s \in SUBSET (1..k) |->
                       IF s = {} THEN 0
                       ELSE f[s \ {Max(s)}] + Len(segs[Max(s)].entries)]
           T == {k \in Nat : ~ \E f : Solves(f, k)}
<1>1. ASSUME NEW k \in T, \A j \in T : ~ (j < k) PROVE FALSE
  <2>1. CASE k = 0
    <3> DEFINE g == [s \in SUBSET (1..0) |-> 0]
    <3>1. \A s \in SUBSET (1..0) : s = {}
        OBVIOUS
    <3>2. g = [s \in SUBSET (1..0) |->
                  IF s = {} THEN 0
                  ELSE g[s \ {Max(s)}] + Len(segs[Max(s)].entries)]
        BY <3>1
    <3>3. Solves(g, k)
        BY <2>1, <3>2
    <3> QED
        BY <3>3
  <2>2. CASE k # 0
    <3>1. k - 1 \in Nat /\ k - 1 < k
        BY <2>2
    <3>2. PICK f : Solves(f, k - 1)
        BY <1>1, <3>1
    <3> DEFINE g == [s \in SUBSET (1..k) |->
                        IF k \notin s THEN f[s]
                        ELSE f[s \ {k}] + Len(segs[k].entries)]
    <3>3. ASSUME NEW s \in SUBSET (1..k)
          PROVE  /\ k \notin s => s \in SUBSET (1..(k - 1))
                 /\ s \ {k} \in SUBSET (1..(k - 1))
                 /\ s \ {k} \in SUBSET (1..k)
        BY <3>1
    <3>4. ASSUME NEW s \in SUBSET (1..k), s # {}
          PROVE  /\ Max(s) \in s /\ (k \in s => Max(s) = k)
                 /\ s \ {Max(s)} \in SUBSET (1..k)
      <4>1. s \in SUBSET Nat /\ \A j \in s : j <= k
          OBVIOUS
      <4>2. PICK j \in s : TRUE
          BY <3>4
      <4>3. Max(s) \in s /\ \A i \in s : i <= Max(s)
          BY <4>1, <4>2, GreatestNatural
      <4>4. k \in s => Max(s) = k
        <5>1. k \in Nat /\ Max(s) \in 1..k
            BY <4>3
        <5> QED
            BY <4>3, <5>1
      <4> QED
          BY <4>3, <4>4
    <3>5. ASSUME NEW s \in SUBSET (1..k)
          PROVE  g[s] = IF s = {} THEN 0
                        ELSE g[s \ {Max(s)}] + Len(segs[Max(s)].entries)
      <4>1. CASE k \in s
        <5>1. Max(s) = k /\ s # {} /\ k \notin s \ {k}
            BY <3>4, <4>1
        <5>2. g[s] = f[s \ {k}] + Len(segs[k].entries)
            BY <4>1
        <5>3. g[s \ {k}] = f[s \ {k}]
            BY <3>3, <5>1
        <5> HIDE DEF g
        <5> QED
            BY <5>1, <5>2, <5>3
      <4>2. CASE k \notin s
        <5>1. s \in SUBSET (1..(k - 1)) /\ g[s] = f[s]
            BY <3>3, <4>2
        <5>2. f[s] = IF s = {} THEN 0
                     ELSE f[s \ {Max(s)}] + Len(segs[Max(s)].entries)
            BY <3>2, <5>1
        <5>3. s # {} => g[s \ {Max(s)}] = f[s \ {Max(s)}]
            BY <3>4, <4>2
        <5> HIDE DEF g, Solves
        <5> QED
            BY <5>1, <5>2, <5>3
      <4> QED
          BY <4>1, <4>2
    <3>6. Solves(g, k)
      <4>1. g = [s \in SUBSET (1..k) |-> g[s]]
          OBVIOUS
      <4> HIDE DEF g
      <4> QED
          BY <3>5, <4>1
    <3> QED
        BY <3>6
  <2> QED
      BY <2>1, <2>2
<1>2. T \in SUBSET Nat
    OBVIOUS
<1>3. n \notin T
  <2> HIDE DEF T
  <2> QED
      BY <1>1, <1>2, LeastNatural
<1> QED
    BY <1>3

\* The sizes of the first k segments, added up.
IsCount(f, segs) ==
    /\ f[0] = 0
    /\ \A k \in 1..Len(segs) : f[k] = f[k - 1] + Len(segs[k].entries)

\* numSet adds up the sizes of the segments.
LEMMA CountAddsUp ==
    ASSUME NEW segs \in Seq(Segment)
    PROVE  \E f : IsCount(f, segs) /\ NumSet(segs) = f[Len(segs)]
<1> DEFINE n == Len(segs)
           Solves(f) ==
               f = [s \in SUBSET (1..n) |->
                       IF s = {} THEN 0
                       ELSE f[s \ {Max(s)}] + Len(segs[Max(s)].entries)]
           iter == CHOOSE f : Solves(f)
           total == [k \in 0..n |-> iter[1..k]]
<1>1. n \in Nat /\ DOMAIN segs = 1..n
    OBVIOUS
<1>2. NumSet(segs) = iter[1..n]
    BY <1>1 DEF NumSet, FoldLeft, MapThenFoldSet
<1>3. \E f : Solves(f)
  <2> HIDE DEF n
  <2> QED
      BY <1>1, CountExists
<1>4. Solves(iter)
  <2> HIDE DEF Solves
  <2> QED
      BY <1>3
<1> HIDE DEF iter, n
<1>5. total[0] = 0
  <2>1. 1..0 = {} /\ {} \in SUBSET (1..n)
      OBVIOUS
  <2> QED
      BY <1>1, <1>4, <2>1
<1>6. ASSUME NEW k \in 1..n
      PROVE  total[k] = total[k - 1] + Len(segs[k].entries)
  <2>1. 1..k \in SUBSET (1..n) /\ 1..k # {} /\ k \in 1..k
      BY <1>1
  <2>2. Max(1..k) = k
    <3>1. 1..k \in SUBSET Nat /\ (\A j \in 1..k : j <= k) /\ k \in Nat
        BY <1>1
    <3>2. Max(1..k) \in 1..k /\ \A j \in 1..k : j <= Max(1..k)
        BY <2>1, <3>1, GreatestNatural
    <3> QED
        BY <2>1, <3>1, <3>2
  <2>3. (1..k) \ {k} = 1..(k - 1)
      BY <1>1
  <2>4. iter[1..k] = iter[1..(k - 1)] + Len(segs[k].entries)
      BY <1>4, <2>1, <2>2, <2>3
  <2> QED
      BY <1>1, <2>4
<1> HIDE DEF total
<1>7. NumSet(segs) = total[n]
    BY <1>1, <1>2 DEF total
<1> QED
    BY <1>5, <1>6, <1>7 DEF IsCount, n

\* The positions of the first k segments.
LoadedBy(segs, k) ==
    UNION {segs[i].pos_begin..(PosEnd(segs[i]) - 1) : i \in 1..k}

\* As many rows are loaded as the sizes of the segments add up to.
LEMMA CountIsCardinality ==
    ASSUME NEW segs \in Seq(Segment), Disjoint(segs)
    PROVE  /\ NumSet(segs) = Cardinality(LoadedIn(segs))
           /\ IsFiniteSet(LoadedIn(segs))
<1>1. PICK f : IsCount(f, segs) /\ NumSet(segs) = f[Len(segs)]
    BY CountAddsUp
<1>2. /\ Len(segs) \in Nat
      /\ \A i \in 1..Len(segs) :
             /\ segs[i].pos_begin \in Nat /\ Len(segs[i].entries) \in Nat
             /\ PosEnd(segs[i]) = segs[i].pos_begin + Len(segs[i].entries)
    BY SegmentFields
<1> DEFINE Counted(k) == /\ IsFiniteSet(LoadedBy(segs, k))
                         /\ Cardinality(LoadedBy(segs, k)) = f[k]
           T == {k \in 0..Len(segs) : ~ Counted(k)}
<1>3. Counted(0)
  <2>1. LoadedBy(segs, 0) = {}
      BY DEF LoadedBy
  <2> QED
      BY <1>1, <2>1, FS_EmptySet DEF IsCount
<1>4. ASSUME NEW k \in 1..Len(segs), Counted(k - 1)
      PROVE  Counted(k)
  <2> DEFINE S == LoadedBy(segs, k - 1)
             I == segs[k].pos_begin..(PosEnd(segs[k]) - 1)
  <2>1. LoadedBy(segs, k) = S \cup I
    <3>1. 1..k = 1..(k - 1) \cup {k}
        BY <1>2
    <3> QED
        BY <3>1 DEF LoadedBy
  <2>2. S \cap I = {}
    <3>1. ASSUME NEW i \in 1..(k - 1)
          PROVE  /\ i \in 1..Len(segs)
                 /\ PosEnd(segs[i]) <= segs[k].pos_begin
      <4>1. i \in 1..Len(segs) /\ i < k
          BY <1>2
      <4> QED
          BY <4>1 DEF Disjoint
    <3>2. ASSUME NEW i \in 1..(k - 1)
          PROVE  (segs[i].pos_begin..(PosEnd(segs[i]) - 1)) \cap I = {}
        BY <1>2, <3>1
    <3> QED
        BY <3>2 DEF LoadedBy
  <2>3. /\ IsFiniteSet(I) /\ Cardinality(I) = Len(segs[k].entries)
    <3>1. Len(segs[k].entries) > 0
        BY DEF Disjoint
    <3>2. /\ segs[k].pos_begin \in Int /\ PosEnd(segs[k]) - 1 \in Int
          /\ segs[k].pos_begin <= PosEnd(segs[k]) - 1
          /\ PosEnd(segs[k]) - 1 - segs[k].pos_begin + 1
               = Len(segs[k].entries)
        BY <1>2, <3>1
    <3>3. \A a, b \in Int : a <= b => /\ IsFiniteSet(a..b)
                                      /\ Cardinality(a..b) = b - a + 1
        BY FS_Interval
    <3> QED
        BY <3>2, <3>3
  <2>4. /\ IsFiniteSet(S \cup I)
        /\ Cardinality(S \cup I)
             = Cardinality(S) + Cardinality(I) - Cardinality({})
    <3>1. IsFiniteSet(S)
        BY <1>4
    <3>2. IsFiniteSet(I) /\ S \cap I = {}
        BY <2>2, <2>3
    <3> HIDE DEF S, I
    <3> QED
        BY <3>1, <3>2, FS_Union
  <2>5. Cardinality(S \cup I) = f[k - 1] + Len(segs[k].entries)
    <3>1. Cardinality({}) = 0 /\ Cardinality(S) \in Nat
        BY <1>4, FS_EmptySet, FS_CardinalityType
    <3> HIDE DEF S, I
    <3>2. Cardinality(S) = f[k - 1]
        BY <1>4 DEF S
    <3> QED
        BY <1>2, <2>3, <2>4, <3>1, <3>2
  <2> QED
      BY <1>1, <2>1, <2>4, <2>5 DEF IsCount
<1> HIDE DEF Counted
<1>5. ASSUME NEW k \in T, \A j \in T : ~ (j < k) PROVE FALSE
  <2>1. k # 0 /\ k \in 1..Len(segs) /\ k - 1 \in 0..Len(segs) /\ k - 1 < k
      BY <1>2, <1>3
  <2>2. Counted(k - 1)
      BY <1>5, <2>1
  <2> QED
      BY <1>4, <2>1, <2>2
<1>6. T \in SUBSET Nat
    OBVIOUS
<1>7. Len(segs) \notin T
  <2> HIDE DEF T
  <2> QED
      BY <1>5, <1>6, LeastNatural
<1>8. Counted(Len(segs))
    BY <1>2, <1>7
<1> QED
    BY <1>1, <1>8 DEF Counted, LoadedBy, LoadedIn

\* count() and getSegmentContaining() find the segment of a loaded position.
LEMMA CountFinds ==
    ASSUME NEW segs \in Seq(Segment), Disjoint(segs), NEW q \in Nat,
           NEW i, i = GetSegmentContaining(segs, q)
    PROVE  /\ Count(segs, q) <=> q \in LoadedIn(segs)
           /\ Count(segs, q) =>
                  /\ i \in 1..Len(segs)
                  /\ segs[i].pos_begin \in Nat /\ segs[i].pos_begin <= q
                  /\ PosEnd(segs[i]) \in Nat /\ q < PosEnd(segs[i])
                  /\ segs[i].pos_begin..(PosEnd(segs[i]) - 1)
                         \subseteq LoadedIn(segs)
<1> DEFINE k == GetSegmentBeyond(segs, q)
<1>1. /\ Len(segs) \in Nat
      /\ k \in 1..(Len(segs) + 1)
      /\ \A j \in 1..Len(segs) : j >= k => q < segs[j].pos_begin
      /\ \A j \in 1..Len(segs) : j < k - 1 => PosEnd(segs[j]) <= q
      /\ k > 1 => k - 1 \in 1..Len(segs) /\ q - segs[k - 1].pos_begin \in Nat
    BY Located
<1>2. \A j \in 1..Len(segs) :
          /\ segs[j].pos_begin \in Nat /\ PosEnd(segs[j]) \in Nat
    BY SegmentFields
<1>3. q \in LoadedIn(segs) <=>
          \E j \in 1..Len(segs) :
              segs[j].pos_begin <= q /\ q < PosEnd(segs[j])
  <2>1. \A j \in 1..Len(segs) :
            q \in segs[j].pos_begin..(PosEnd(segs[j]) - 1) <=>
                segs[j].pos_begin <= q /\ q < PosEnd(segs[j])
      BY <1>2
  <2> QED
      BY <2>1 DEF LoadedIn
<1>4. i = IF k - 1 > 0 /\ q < PosEnd(segs[k - 1]) THEN k - 1 ELSE 0
    BY DEF GetSegmentContaining
<1>5. Count(segs, q) <=> i # 0
    BY DEF Count
<1> HIDE DEF k
<1>6. ASSUME i # 0
      PROVE  /\ i \in 1..Len(segs) /\ segs[i].pos_begin <= q
             /\ q < PosEnd(segs[i])
    BY <1>1, <1>2, <1>4, <1>6
<1>7. ASSUME q \in LoadedIn(segs) PROVE i # 0
  <2>1. PICK j \in 1..Len(segs) :
            segs[j].pos_begin <= q /\ q < PosEnd(segs[j])
      BY <1>3, <1>7
  <2>2. j = k - 1
      BY <1>1, <1>2, <2>1
  <2> QED
      BY <1>1, <1>4, <2>1, <2>2
<1>8. \A j \in 1..Len(segs) :
          segs[j].pos_begin..(PosEnd(segs[j]) - 1) \subseteq LoadedIn(segs)
    BY DEF LoadedIn
<1> QED
    BY <1>2, <1>3, <1>5, <1>6, <1>7, <1>8

\* Nothing is loaded beyond the last segment.
LEMMA LoadedEnds ==
    ASSUME TypeOK, WellFormed
    PROVE  Beyond \in Nat /\ LoadedIn(segments) \subseteq 0..Beyond
<1> DEFINE n == Len(segments)
<1>1. /\ n \in Nat
      /\ \A i \in 1..n : /\ segments[i].pos_begin \in Nat
                         /\ PosEnd(segments[i]) \in Nat
    BY SegmentFields DEF TypeOK
<1>2. CASE segments = << >>
  <2>1. n = 0
      BY <1>2
  <2>2. LoadedIn(segments) = {}
      BY <2>1 DEF LoadedIn
  <2> QED
      BY <1>2, <2>2, MaxPosAssumption DEF Beyond
<1>3. CASE segments # << >>
  <2>1. n \in 1..n /\ Last(segments) = segments[n]
      BY <1>1, <1>3 DEF TypeOK, Last
  <2>2. Beyond = MaxPos + PosEnd(segments[n])
      BY <1>3, <2>1 DEF Beyond
  <2>3. ASSUME NEW i \in 1..n PROVE PosEnd(segments[i]) <= PosEnd(segments[n])
    <3>1. i < n => PosEnd(segments[i]) <= segments[n].pos_begin
        BY <2>1 DEF WellFormed, Disjoint
    <3>2. segments[n].pos_begin <= PosEnd(segments[n])
        BY <2>1, SegmentFields DEF TypeOK
    <3> QED
        BY <1>1, <2>1, <3>1, <3>2
  <2>4. ASSUME NEW i \in 1..n
        PROVE  segments[i].pos_begin..(PosEnd(segments[i]) - 1) \subseteq 0..Beyond
      BY <1>1, <2>1, <2>2, <2>3, MaxPosAssumption
  <2> QED
      BY <1>1, <2>1, <2>2, <2>4, MaxPosAssumption DEF LoadedIn
<1> QED
    BY <1>2, <1>3

\* numSet() and count() are exact on a well-formed cache.
LEMMA NumSetIsExact ==
    ASSUME TypeOK, WellFormed
    PROVE  NumSetExact
<1>1. NumSet(segments) = Cardinality(Loaded)
    BY CountIsCardinality DEF TypeOK, WellFormed, Loaded, LoadedIn
<1>2. \A p \in Nat : Count(segments, p) <=> p \in LoadedIn(segments)
    BY CountFinds DEF TypeOK, WellFormed
<1>3. Beyond \in Nat /\ LoadedIn(segments) \subseteq 0..Beyond
    BY LoadedEnds
<1>4. LoadedIn(segments) = {p \in 0..Beyond : Count(segments, p)}
    BY <1>2, <1>3
<1> QED
    BY <1>1, <1>4 DEF NumSetExact, Loaded, LoadedIn

\* The function `up` of smallestNonAvailableRange.
IsUp(up, segs, e) ==
    up = [x \in Nat |->
             IF x < e /\ Count(segs, x)
             THEN up[PosEnd(segs[GetSegmentContaining(segs, x)])]
             ELSE x]

\* Its function `down`.
IsDown(down, segs, first) ==
    down = [y \in Nat |->
               IF y > first /\ Count(segs, y - 1)
               THEN down[segs[GetSegmentContaining(segs, y - 1)].pos_begin]
               ELSE y]

\* The search upwards for the first row that is not loaded exists as a
\* function.
LEMMA UpExists ==
    ASSUME NEW segs \in Seq(Segment), Disjoint(segs), NEW e \in Nat
    PROVE  \E up : IsUp(up, segs, e)
<1> DEFINE C == LoadedIn(segs)
           next == [x \in Nat |-> PosEnd(segs[GetSegmentContaining(segs, x)])]
<1>1. ASSUME NEW x \in Nat
      PROVE  /\ Count(segs, x) <=> x \in C
             /\ x \in C => next[x] \in Nat /\ x < next[x]
    BY CountFinds
<1>2. \E f : Ascends(f, e, C, next)
  <2> HIDE DEF C, next
  <2>1. \A x \in Nat : x \in C => next[x] \in Nat /\ x < next[x]
      BY <1>1
  <2> QED
      BY <2>1, AscentExists
<1>3. PICK f : f = [x \in Nat |-> IF x < e /\ x \in C THEN f[next[x]] ELSE x]
    BY <1>2 DEF Ascends
<1>4. \A x \in Nat : next[x] = PosEnd(segs[GetSegmentContaining(segs, x)])
    OBVIOUS
<1> HIDE DEF C, next
<1>5. f = [x \in Nat |->
             IF x < e /\ Count(segs, x)
             THEN f[PosEnd(segs[GetSegmentContaining(segs, x)])]
             ELSE x]
    BY <1>1, <1>3, <1>4
<1> QED
    BY <1>5 DEF IsUp

\* So does the search downwards for the last one.
LEMMA DownExists ==
    ASSUME NEW segs \in Seq(Segment), Disjoint(segs), NEW first \in Nat
    PROVE  \E down : IsDown(down, segs, first)
<1> DEFINE C == LoadedIn(segs)
           next == [y \in Nat |->
                       segs[GetSegmentContaining(segs, y - 1)].pos_begin]
<1>1. ASSUME NEW y \in Nat, y > first
      PROVE  /\ Count(segs, y - 1) <=> y - 1 \in C
             /\ y - 1 \in C => next[y] \in Nat /\ next[y] < y
  <2>1. y - 1 \in Nat
      BY <1>1
  <2>2. /\ Count(segs, y - 1) <=> y - 1 \in C
        /\ Count(segs, y - 1) => next[y] \in Nat /\ next[y] <= y - 1
      BY <2>1, CountFinds
  <2> QED
      BY <2>1, <2>2
<1>2. \A y \in Nat : next[y] = segs[GetSegmentContaining(segs, y - 1)].pos_begin
    OBVIOUS
<1> HIDE DEF C, next
<1>3. \E f : Descends(f, first, C, next)
  <2>1. \A y \in Nat : first < y /\ y - 1 \in C =>
            next[y] \in Nat /\ next[y] < y
      BY <1>1
  <2> QED
      BY <2>1, DescentExists
<1>4. PICK f : f = [y \in Nat |-> IF y > first /\ y - 1 \in C THEN f[next[y]]
                                                              ELSE y]
    BY <1>3 DEF Descends
<1>5. f = [y \in Nat |->
             IF y > first /\ Count(segs, y - 1)
             THEN f[segs[GetSegmentContaining(segs, y - 1)].pos_begin]
             ELSE y]
    BY <1>1, <1>2, <1>4
<1> QED
    BY <1>5 DEF IsDown

\* The range [b, e) has no row to load before u, and one at u if u < e.
Above(segs, b, e, u) ==
    /\ u \in Nat /\ b <= u
    /\ u < e => u \notin LoadedIn(segs)
    /\ \A p \in Nat : b <= p /\ p < e /\ p < u => p \in LoadedIn(segs)

\* The loop that goes up passes loaded rows only and stops at one that is not.
LEMMA UpPassesLoaded ==
    ASSUME NEW segs \in Seq(Segment), Disjoint(segs), NEW e \in Nat,
           NEW up, IsUp(up, segs, e), NEW b \in Nat
    PROVE  Above(segs, b, e, up[b])
<1> DEFINE T == {n \in Nat : \E x \in Nat :
                    e <= x + n /\ ~ Above(segs, x, e, up[x])}
<1>1. \A x \in Nat :
          up[x] = IF x < e /\ Count(segs, x)
                  THEN up[PosEnd(segs[GetSegmentContaining(segs, x)])]
                  ELSE x
    BY DEF IsUp
<1>2. ASSUME NEW n \in T, \A k \in T : ~ (k < n) PROVE FALSE
  <2>1. PICK x \in Nat : e <= x + n /\ ~ Above(segs, x, e, up[x])
      OBVIOUS
  <2>2. Count(segs, x) <=> x \in LoadedIn(segs)
      BY CountFinds
  <2>3. CASE x < e /\ Count(segs, x)
    <3> DEFINE i == GetSegmentContaining(segs, x)
               z == PosEnd(segs[i])
    <3>1. /\ segs[i].pos_begin \in Nat /\ segs[i].pos_begin <= x
          /\ z \in Nat /\ x < z
          /\ segs[i].pos_begin..(z - 1) \subseteq LoadedIn(segs)
        BY <2>3, CountFinds
    <3>2. up[x] = up[z]
        BY <1>1, <2>3
    <3> HIDE DEF i
    <3>3. n - 1 \in Nat /\ n - 1 < n /\ e <= z + (n - 1)
        BY <2>1, <2>3, <3>1
    <3>4. Above(segs, z, e, up[z])
        BY <1>2, <3>1, <3>3
    <3>5. \A p \in Nat : x <= p /\ p < z => p \in LoadedIn(segs)
        BY <3>1
    <3>6. Above(segs, x, e, up[x])
        BY <3>1, <3>2, <3>4, <3>5 DEF Above
    <3> QED
        BY <2>1, <3>6
  <2>4. CASE ~ (x < e /\ Count(segs, x))
    <3>1. up[x] = x
        BY <1>1, <2>4
    <3>2. Above(segs, x, e, up[x])
        BY <2>2, <2>4, <3>1 DEF Above
    <3> QED
        BY <2>1, <3>2
  <2> QED
      BY <2>3, <2>4
<1>3. T \in SUBSET Nat
    OBVIOUS
<1>4. e \notin T
  <2> HIDE DEF T
  <2> QED
      BY <1>2, <1>3, LeastNatural
<1>5. e <= b + e
    OBVIOUS
<1> QED
    BY <1>4, <1>5

\* Between first, which is not loaded, and y, the last row to load is below d.
Below(segs, first, y, d) ==
    /\ d \in Nat /\ first < d /\ d <= y
    /\ d - 1 \notin LoadedIn(segs)
    /\ \A p \in Nat : d <= p /\ p < y => p \in LoadedIn(segs)

\* The loop that goes down passes loaded rows only and stops behind one that is
\* not.
LEMMA DownPassesLoaded ==
    ASSUME NEW segs \in Seq(Segment), Disjoint(segs),
           NEW first \in Nat, first \notin LoadedIn(segs),
           NEW down, IsDown(down, segs, first), NEW e \in Nat, first < e
    PROVE  Below(segs, first, e, down[e])
<1> DEFINE T == {y \in Nat : first < y /\ ~ Below(segs, first, y, down[y])}
<1>1. \A y \in Nat :
          down[y] = IF y > first /\ Count(segs, y - 1)
                    THEN down[segs[GetSegmentContaining(segs, y - 1)].pos_begin]
                    ELSE y
    BY DEF IsDown
<1>2. ASSUME NEW y \in T, \A k \in T : ~ (k < y) PROVE FALSE
  <2>1. y \in Nat /\ y - 1 \in Nat /\ first < y
      OBVIOUS
  <2>2. Count(segs, y - 1) <=> y - 1 \in LoadedIn(segs)
      BY <2>1, CountFinds
  <2>3. CASE Count(segs, y - 1)
    <3> DEFINE i == GetSegmentContaining(segs, y - 1)
               z == segs[i].pos_begin
    <3>1. /\ z \in Nat /\ z <= y - 1
          /\ PosEnd(segs[i]) \in Nat /\ y - 1 < PosEnd(segs[i])
          /\ z..(PosEnd(segs[i]) - 1) \subseteq LoadedIn(segs)
        BY <2>1, <2>3, CountFinds
    <3>2. down[y] = down[z]
        BY <1>1, <2>1, <2>3
    <3> HIDE DEF i
    <3>3. \A p \in Nat : z <= p /\ p < y => p \in LoadedIn(segs)
        BY <2>1, <3>1
    <3>4. first < z
        BY <2>1, <3>1, <3>3
    <3>5. Below(segs, first, z, down[z])
        BY <1>2, <2>1, <3>1, <3>4
    <3>6. Below(segs, first, y, down[y])
        BY <2>1, <3>1, <3>2, <3>3, <3>5 DEF Below
    <3> QED
        BY <3>6
  <2>4. CASE ~ Count(segs, y - 1)
    <3>1. down[y] = y
        BY <1>1, <2>1, <2>4
    <3>2. Below(segs, first, y, down[y])
        BY <2>1, <2>2, <2>4, <3>1 DEF Below
    <3> QED
        BY <3>2
  <2> QED
      BY <2>3, <2>4
<1>3. T \in SUBSET Nat
    OBVIOUS
<1>4. e \notin T
  <2> HIDE DEF T
  <2> QED
      BY <1>2, <1>3, LeastNatural
<1> QED
    BY <1>4

\* smallestNonAvailableRange of well-formed segments.
LEMMA RangeOfSegments ==
    ASSUME NEW segs \in Seq(Segment), Disjoint(segs),
           NEW b \in Nat, NEW e \in Nat, b <= e
    PROVE  LET r == SmallestNonAvailableRange(segs, b, e)
               missing == {p \in b..e : p < e /\ p \notin LoadedIn(segs)}
           IN  IF missing = {} THEN r[1] = r[2]
               ELSE /\ r[1] \in missing /\ r[2] - 1 \in missing
                    /\ \A p \in missing : r[1] <= p /\ p < r[2]
<1> DEFINE up == CHOOSE f : IsUp(f, segs, e)
           first == up[b]
           down == CHOOSE f : IsDown(f, segs, first)
           last == down[e]
           missing == {p \in b..e : p < e /\ p \notin LoadedIn(segs)}
<1>1. SmallestNonAvailableRange(segs, b, e)
        = <<first, IF last < first THEN first ELSE last>>
    BY DEF SmallestNonAvailableRange, IsUp, IsDown
<1>2. IsUp(up, segs, e)
    BY UpExists
<1> HIDE DEF up
<1>3. Above(segs, b, e, first)
    BY <1>2, UpPassesLoaded
<1> HIDE DEF first
<1>4. IsDown(down, segs, first)
    BY <1>3, DownExists DEF Above
<1> HIDE DEF down
<1>5. CASE e <= first
  <2>1. missing = {}
      BY <1>3, <1>5 DEF Above
  <2>2. last = e
      BY <1>3, <1>4, <1>5 DEF IsDown, Above
  <2>3. (IF last < first THEN first ELSE last) = first
      BY <1>3, <1>5, <2>2 DEF Above
  <2> HIDE DEF last
  <2> QED
      BY <1>1, <2>1, <2>3
<1>6. CASE first < e
  <2>1. first \in Nat /\ first \notin LoadedIn(segs) /\ b <= first
      BY <1>3, <1>6 DEF Above
  <2>2. Below(segs, first, e, last)
      BY <1>4, <1>6, <2>1, DownPassesLoaded
  <2> HIDE DEF last
  <2>3. ~ (last < first)
      BY <2>1, <2>2 DEF Below
  <2>4. first \in missing
      BY <1>6, <2>1
  <2>5. last - 1 \in missing
      BY <2>1, <2>2 DEF Below
  <2>6. \A p \in missing : first <= p /\ p < last
      BY <1>3, <2>1, <2>2 DEF Above, Below
  <2> HIDE DEF missing
  <2> QED
      BY <1>1, <2>3, <2>4, <2>5, <2>6 DEF missing
<1> QED
    BY <1>3, <1>5, <1>6 DEF Above

\* smallestNonAvailableRange() is exact on a well-formed cache.
LEMMA RangeIsExact ==
    ASSUME TypeOK, WellFormed
    PROVE  RangeExact
<1>1. ASSUME NEW b \in 0..MaxPos, NEW e \in 0..(MaxPos + 1), b <= e
      PROVE  LET r == SmallestNonAvailableRange(segments, b, e)
                 missing == {p \in b..e : p < e /\ p \notin LoadedIn(segments)}
             IN  IF missing = {} THEN r[1] = r[2]
                 ELSE /\ r[1] \in missing /\ r[2] - 1 \in missing
                      /\ \A p \in missing : r[1] <= p /\ p < r[2]
    BY <1>1, MaxPosAssumption, RangeOfSegments DEF TypeOK, WellFormed
<1> QED
    BY <1>1 DEF RangeExact, Loaded, LoadedIn

\* AnswersExact: numSet() is the number of loaded rows, count() finds exactly
\* those, and smallestNonAvailableRange() returns the smallest range that holds
\* every row that is not loaded, after any calls on any cache.
THEOREM AnswersAreExact == Spec => []AnswersExact
<1>1. TypeOK /\ WellFormed => AnswersExact
    BY NumSetIsExact, RangeIsExact DEF AnswersExact
<1> QED
    BY <1>1, CacheWellFormed, PTL
===========================================================================
