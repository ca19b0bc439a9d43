---------------------------- MODULE CsvParserProofs ----------------------------
(***************************************************************************)
(* Whatever a writer of CSV files has written, the parser hands over its   *)
(* rows, however the text is cut into blocks: the parser is always at a    *)
(* place of the text, and its state, the row and the field it is in are    *)
(* those the writer had when it was there.                                 *)
(***************************************************************************)
EXTENDS CsvWriter, WellFoundedInduction, SequenceTheorems, TLAPS

\* A set of naturals that is not empty has a least element.
LEMMA LeastNatural ==
    ASSUME NEW T \in SUBSET Nat, NEW n \in T
    PROVE  \E m \in T : \A k \in T : ~ (k < m)
<1>1. IsWellFoundedOn(OpToRel(<, Nat), Nat)
    BY NatLessThanWellFounded
<1>2. PICK m \in T : \A k \in T : ~ (<<k, m>> \in OpToRel(<, Nat))
    BY <1>1, WFMin
<1>3. \A k \in T : k < m => <<k, m>> \in OpToRel(<, Nat)
    BY DEF OpToRel
<1> QED
    BY <1>2, <1>3

(***************************************************************************)
(* A text and its bytes.                                                   *)
(***************************************************************************)
Text == Seq(DOMAIN Utf8)

\* at[n] is the number of bytes of the first n characters of the text t.
Offsets(t, at) ==
  /\ at \in [0..Len(t) -> Nat]
  /\ at[0] = 0
  /\ \A n \in 1..Len(t) : at[n] = at[n - 1] + Len(Utf8[t[n]])

\* The bytes b are those of the characters s + 1 to e of the text, and u is
\* what comes after them.
Covers(t, at, s, e, b, u) ==
  /\ s \in Nat /\ e \in Nat /\ s <= e /\ e <= Len(t)
  /\ u = SubSeq(t, e + 1, Len(t))
  /\ b \in Seq(Byte) /\ Len(b) = at[e] - at[s]
  /\ \A n \in (s + 1)..e : \A x \in 1..Len(Utf8[t[n]]) :
       b[at[n - 1] - at[s] + x] = Utf8[t[n]][x]

\* Position i of these bytes is after p characters of the text and k bytes of
\* the next one.
Stands(t, at, s, e, p, k, i) ==
  /\ p \in s..e /\ k \in Nat
  /\ IF p < e THEN k < Len(Utf8[t[p + 1]]) ELSE k = 0
  /\ i = at[p] - at[s] + k + 1

\* A character has at least one byte.
LEMMA Characters ==
    ASSUME NEW t \in Text, NEW n \in 1..Len(t)
    PROVE  /\ t[n] \in DOMAIN Utf8
           /\ Utf8[t[n]] \in Seq(Byte) /\ Len(Utf8[t[n]]) \in Nat \ {0}
           /\ \A x \in 1..Len(Utf8[t[n]]) : Utf8[t[n]][x] \in Byte
<1>1. t[n] \in DOMAIN Utf8
    BY ElementOfSeq DEF Text
<1>2. Utf8[t[n]] \in Seq(Byte) \ {<<>>}
    BY <1>1, CsvAssumption
<1> QED
    BY <1>1, <1>2, EmptySeq, ElementOfSeq

\* Adding up lengths, one argument at a time.
LEMMA SumsExist ==
    ASSUME NEW n \in Nat, NEW len \in [1..n -> Nat]
    PROVE  \E at \in [0..n -> Nat] :
             /\ at[0] = 0
             /\ \A i \in 1..n : at[i] = at[i - 1] + len[i]
<1> DEFINE Sums(m, at) == /\ at \in [0..m -> Nat]
                          /\ at[0] = 0
                          /\ \A i \in 1..m : at[i] = at[i - 1] + len[i]
           T == {m \in 0..n : ~ \E at : Sums(m, at)}
<1>1. ASSUME NEW m \in T, \A k \in T : ~ (k < m) PROVE FALSE
  <2>1. CASE m = 0
    <3>1. Sums(0, [i \in 0..0 |-> 0])
        OBVIOUS
    <3> QED
        BY <2>1, <3>1
  <2>2. CASE m # 0
    <3>1. m \in 1..n /\ m - 1 \in 0..n /\ m - 1 < m /\ len[m] \in Nat
        BY <2>2
    <3>2. PICK at : Sums(m - 1, at)
      <4>1. m - 1 \notin T
          BY <1>1, <3>1
      <4> HIDE DEF Sums
      <4> QED
          BY <3>1, <4>1
    <3> DEFINE new == [i \in 0..m |-> IF i = m THEN at[m - 1] + len[m]
                                               ELSE at[i]]
    <3>3. new \in [0..m -> Nat] /\ new[0] = 0
        BY <3>1, <3>2
    <3>4. ASSUME NEW i \in 1..m PROVE new[i] = new[i - 1] + len[i]
      <4>1. new[i - 1] = at[i - 1] /\ i \in 1..m
          BY <3>1
      <4>2. CASE i = m
          BY <4>1, <4>2
      <4>3. CASE i # m
          BY <3>1, <3>2, <4>1, <4>3
      <4> QED
          BY <4>2, <4>3
    <3> QED
        BY <3>3, <3>4
  <2> QED
      BY <2>1, <2>2
<1>2. n \notin T
  <2>1. T \in SUBSET Nat
      OBVIOUS
  <2> HIDE DEF T
  <2> QED
      BY <1>1, <2>1, LeastNatural
<1>3. \E at : Sums(n, at)
  <2>1. n \in 0..n
      OBVIOUS
  <2> HIDE DEF Sums
  <2> QED
      BY <1>2, <2>1
<1> QED
    BY <1>3

\* Every text has its offsets.
LEMMA OffsetsExist ==
    ASSUME NEW t \in Text
    PROVE  \E at : Offsets(t, at)
<1> DEFINE len == [n \in 1..Len(t) |-> Len(Utf8[t[n]])]
<1>1. Len(t) \in Nat /\ len \in [1..Len(t) -> Nat]
    BY Characters DEF Text
<1>2. \E at \in [0..Len(t) -> Nat] :
        /\ at[0] = 0
        /\ \A i \in 1..Len(t) : at[i] = at[i - 1] + len[i]
  <2> HIDE DEF len
  <2> QED
      BY <1>1, SumsExist
<1> QED
    BY <1>2 DEF Offsets

\* Sums of positive lengths grow with every step.
LEMMA OffsetsGrow ==
    ASSUME NEW t \in Text, NEW at, Offsets(t, at)
    PROVE  /\ Len(t) \in Nat
           /\ \A n \in 0..Len(t) : at[n] \in Nat
           /\ \A m, n \in 0..Len(t) : m < n => at[m] < at[n]
<1>1. Len(t) \in Nat /\ \A n \in 0..Len(t) : at[n] \in Nat
    BY DEF Offsets, Text
<1>2. ASSUME NEW m \in 0..Len(t)
      PROVE  \A n \in 0..Len(t) : m < n => at[m] < at[n]
  <2> DEFINE T == {n \in 0..Len(t) : m < n /\ ~ (at[m] < at[n])}
  <2>1. ASSUME NEW n \in T, \A k \in T : ~ (k < n) PROVE FALSE
    <3>1. n \in 1..Len(t) /\ n - 1 \in 0..Len(t) /\ n - 1 \notin T
        BY <1>1, <2>1
    <3>2. at[n] = at[n - 1] + Len(Utf8[t[n]])
          /\ Len(Utf8[t[n]]) \in Nat \ {0}
        BY <3>1, Characters DEF Offsets
    <3> QED
        BY <1>1, <3>1, <3>2
  <2>2. T \in SUBSET Nat
      BY <1>1
  <2>3. \A n \in Nat : n \notin T
    <3> HIDE DEF T
    <3> QED
        BY <2>1, <2>2, LeastNatural
  <2> QED
      BY <1>1, <2>3
<1> QED
    BY <1>1, <1>2

\* b is the first m of the sequences F, one after the other, where at[i] is
\* the length of the first i of them.
Joins(F, at, m, S, b) ==
  /\ b \in Seq(S) /\ Len(b) = at[m]
  /\ \A i \in 1..m : \A x \in 1..Len(F[i]) :
       at[i - 1] + x <= at[m] /\ b[at[i - 1] + x] = F[i][x]

\* One more sequence is joined to the first k.
LEMMA JoinsOneMore ==
    ASSUME NEW S, NEW m \in Nat, NEW F, NEW at,
           \A i \in 1..(m + 1) : F[i] \in Seq(S),
           \A i \in 0..(m + 1) : at[i] \in Nat,
           at[m + 1] = at[m] + Len(F[m + 1]),
           NEW b, Joins(F, at, m, S, b)
    PROVE  Joins(F, at, m + 1, S, b \o F[m + 1])
<1> DEFINE last == F[m + 1]
           new == b \o last
           low == at[m]
           high == at[m + 1]
<1>1. /\ last \in Seq(S) /\ Len(last) \in Nat
      /\ low \in Nat /\ high \in Nat /\ high = low + Len(last)
      /\ b \in Seq(S) /\ Len(b) = low
    BY LenProperties DEF Joins
<1> HIDE DEF last, low, high
<1>2. /\ new \in Seq(S) /\ Len(new) = high
      /\ \A y \in 1..high : new[y] = IF y <= low THEN b[y] ELSE last[y - low]
    BY <1>1, ConcatProperties
<1> HIDE DEF new
<1>3. ASSUME NEW i \in 1..(m + 1), NEW x \in 1..Len(F[i])
      PROVE  at[i - 1] + x <= at[m + 1] /\ new[at[i - 1] + x] = F[i][x]
  <2>1. at[i - 1] \in Nat /\ Len(F[i]) \in Nat /\ x \in Nat \ {0}
    <3>1. i - 1 \in 0..(m + 1) /\ F[i] \in Seq(S)
        OBVIOUS
    <3> QED
        BY <3>1, LenProperties
  <2> DEFINE y == at[i - 1] + x
  <2>2. CASE i = m + 1
    <3>1. y = low + x /\ F[i] = last /\ x \in 1..Len(last)
        BY <2>1, <2>2 DEF low, last
    <3> HIDE DEF y
    <3>2. y \in 1..high /\ ~ (y <= low) /\ y - low = x
        BY <1>1, <2>1, <3>1
    <3>3. y <= high /\ new[y] = F[i][x]
        BY <1>2, <3>1, <3>2
    <3> QED
        BY <3>3 DEF y, high
  <2>3. CASE i # m + 1
    <3>1. i \in 1..m
        BY <2>3
    <3>2. y <= low /\ b[y] = F[i][x] /\ y \in Nat \ {0}
        BY <2>1, <3>1 DEF Joins, low
    <3> HIDE DEF y
    <3>3. y \in 1..high
        BY <1>1, <3>2
    <3>4. y <= high /\ new[y] = F[i][x]
        BY <1>2, <3>2, <3>3
    <3> QED
        BY <3>4 DEF y, high
  <2> QED
      BY <2>2, <2>3
<1> QED
    BY <1>2, <1>3 DEF Joins, new, last, high

\* FlattenSeq puts the sequences one after the other.
LEMMA Flattened ==
    ASSUME NEW S, NEW n \in Nat \ {0}, NEW F \in [1..n -> Seq(S)],
           NEW at \in [0..n -> Nat], at[0] = 0,
           \A i \in 1..n : at[i] = at[i - 1] + Len(F[i])
    PROVE  Joins(F, at, n, S, FlattenSeq(F))
<1> DEFINE Solves(f, m) ==
               f = [i \in 1..m |-> IF i = 1 THEN F[i] ELSE f[i - 1] \o F[i]]
           T == {m \in Nat : m \in 1..n /\ ~ \E f : Solves(f, m)}
<1>1. Len(F) = n
    BY LenProperties, IsASeq
<1>2. ASSUME NEW m \in T, \A k \in T : ~ (k < m) PROVE FALSE
  <2>1. CASE m = 1
    <3> DEFINE g == [i \in 1..1 |-> F[i]]
    <3>1. g = [i \in 1..1 |-> IF i = 1 THEN F[i] ELSE g[i - 1] \o F[i]]
        OBVIOUS
    <3>2. Solves(g, m)
        BY <2>1, <3>1
    <3> QED
        BY <3>2
  <2>2. CASE m # 1
    <3>1. m \in 2..n /\ m - 1 \in 1..n /\ m - 1 < m
        BY <2>2
    <3>2. PICK f : Solves(f, m - 1)
      <4>1. m - 1 \notin T
          BY <1>2, <3>1
      <4> HIDE DEF Solves
      <4> QED
          BY <3>1, <4>1
    <3> DEFINE last == f[m - 1] \o F[m]
               g == [i \in 1..m |-> IF i = m THEN last ELSE f[i]]
    <3>3. ASSUME NEW i \in 1..m
          PROVE  g[i] = IF i = 1 THEN F[i] ELSE g[i - 1] \o F[i]
      <4>1. CASE i = m
        <5>1. m \in Nat /\ i \in 2..m /\ i \in 1..m /\ i - 1 \in 1..m
              /\ i - 1 # m
            BY <3>1, <4>1
        <5>2. g[i] = last /\ g[i - 1] = f[i - 1] /\ i # 1
          <6> HIDE DEF T, last
          <6> QED
              BY <4>1, <5>1
        <5> QED
            BY <4>1, <5>2
      <4>2. CASE i # m
        <5>1. i \in 1..(m - 1) /\ g[i] = f[i] /\ (i # 1 => g[i - 1] = f[i - 1])
            BY <3>1, <4>2
        <5>2. f[i] = IF i = 1 THEN F[i] ELSE f[i - 1] \o F[i]
            BY <3>2, <5>1
        <5> QED
            BY <5>1, <5>2
      <4> QED
          BY <4>1, <4>2
    <3>4. Solves(g, m)
        BY <3>3
    <3> QED
        BY <3>4
  <2> QED
      BY <2>1, <2>2
<1>3. \E f : Solves(f, n)
  <2>1. T \in SUBSET Nat
      OBVIOUS
  <2>2. n \notin T
    <3> HIDE DEF T
    <3> QED
        BY <1>2, <2>1, LeastNatural
  <2>3. n \in Nat /\ n \in 1..n
      OBVIOUS
  <2> HIDE DEF Solves
  <2> QED
      BY <2>2, <2>3
<1> DEFINE fl == CHOOSE f : Solves(f, n)
<1>4. Solves(fl, n)
    BY <1>3
<1>5. FlattenSeq(F) = fl[n]
    BY <1>1 DEF FlattenSeq
<1> HIDE DEF fl
<1>6. fl[1] = F[1] /\ \A i \in 2..n : fl[i] = fl[i - 1] \o F[i]
  <2>1. \A i \in 1..n : fl[i] = IF i = 1 THEN F[i] ELSE fl[i - 1] \o F[i]
      BY <1>4
  <2>2. 1 \in 1..n /\ \A i \in 2..n : i \in 1..n /\ i # 1
      OBVIOUS
  <2> HIDE DEF Solves, T
  <2> QED
      BY <2>1, <2>2
<1> HIDE DEF Solves
<1> DEFINE Good(m) == Joins(F, at, m, S, fl[m])
           B == {m \in 1..n : ~ Good(m)}
<1>7. ASSUME NEW m \in B, \A k \in B : ~ (k < m) PROVE FALSE
  <2>1. m \in 1..n /\ \A i \in 1..n : F[i] \in Seq(S)
      OBVIOUS
  <2>2. CASE m = 1
    <3> HIDE DEF B
    <3>1. /\ F[1] \in Seq(S) /\ at[1] = at[0] + Len(F[1])
          /\ Len(F[1]) \in Nat
        BY <2>1, <2>2, LenProperties
    <3>2. F[1] \in Seq(S) /\ Len(F[1]) = at[1]
        BY <3>1
    <3>3. \A i \in 1..1 : \A x \in 1..Len(F[i]) :
            at[i - 1] + x <= at[1] /\ F[1][at[i - 1] + x] = F[i][x]
      <4> SUFFICES ASSUME NEW x \in 1..Len(F[1])
                   PROVE  at[0] + x <= at[1] /\ F[1][at[0] + x] = F[1][x]
          OBVIOUS
      <4>1. at[0] + x = x /\ x <= at[1]
          BY <3>1, <3>2
      <4> QED
          BY <4>1
    <3>4. Joins(F, at, 1, S, F[1])
        BY <3>2, <3>3 DEF Joins
    <3> QED
        BY <1>6, <2>2, <3>4 DEF B
  <2>3. CASE m # 1
    <3> DEFINE k == m - 1
    <3>1. k \in Nat /\ k \in 1..n /\ k < m /\ k + 1 = m /\ m \in 2..n
        BY <2>3
    <3>2. Good(k)
        BY <1>7, <3>1
    <3>3. fl[m] = fl[k] \o F[m]
        BY <1>6, <3>1
    <3>4. /\ \A i \in 1..m : F[i] \in Seq(S)
          /\ \A i \in 0..m : at[i] \in Nat
          /\ at[m] = at[k] + Len(F[m])
        BY <2>1
    <3> HIDE DEF k, B
    <3>5. /\ \A i \in 1..(k + 1) : F[i] \in Seq(S)
          /\ \A i \in 0..(k + 1) : at[i] \in Nat
          /\ at[k + 1] = at[k] + Len(F[k + 1])
        BY <3>1, <3>4
    <3>6. Joins(F, at, k + 1, S, fl[k] \o F[k + 1])
        BY <3>1, <3>2, <3>5, JoinsOneMore
    <3>7. Good(m)
        BY <3>1, <3>3, <3>6
    <3> QED
        BY <3>7 DEF B
  <2> QED
      BY <2>2, <2>3
<1>8. Good(n)
  <2>1. B \in SUBSET Nat
      OBVIOUS
  <2>2. n \notin B
    <3> HIDE DEF B
    <3> QED
        BY <1>7, <2>1, LeastNatural
  <2> QED
      BY <2>2
<1> QED
    BY <1>5, <1>8

\* What follows the first e characters of a text is a suffix of it, and so is
\* what is left of that.
LEMMA RestOfText ==
    ASSUME NEW t \in Text, NEW e \in 0..Len(t)
    PROVE  LET u == SubSeq(t, e + 1, Len(t))
           IN  /\ u \in Text /\ Len(u) = Len(t) - e
               /\ \A i \in 1..Len(u) : u[i] = t[e + i]
<1>1. Len(t) \in Nat /\ e \in Nat /\ e <= Len(t)
    BY LenProperties DEF Text
<1>2. \A i \in (e + 1)..Len(t) : t[i] \in DOMAIN Utf8
  <2>1. \A i \in (e + 1)..Len(t) : i \in 1..Len(t)
      BY <1>1
  <2> QED
      BY <2>1, ElementOfSeq DEF Text
<1>3. e + 1 \in Int /\ Len(t) \in Int /\ Len(t) - (e + 1) + 1 = Len(t) - e
    BY <1>1
<1> DEFINE u == SubSeq(t, e + 1, Len(t))
<1>4. /\ u \in Seq(DOMAIN Utf8)
      /\ Len(u) = IF e + 1 <= Len(t) THEN Len(t) - (e + 1) + 1 ELSE 0
      /\ \A i \in 1..(Len(t) - (e + 1) + 1) : u[i] = t[e + 1 + i - 1]
    BY <1>2, <1>3, SubSeqProperties
<1> HIDE DEF u
<1>5. Len(u) = Len(t) - e
    BY <1>1, <1>4
<1>6. \A i \in 1..Len(u) : u[i] = t[e + i]
    BY <1>1, <1>4, <1>5
<1>7. u \in Text
    BY <1>4 DEF Text
<1> QED
    BY <1>5, <1>6, <1>7 DEF u

\* A text turned round.
LEMMA Reversed ==
    ASSUME NEW u \in Text
    PROVE  /\ Reverse(u) \in Text /\ Len(Reverse(u)) = Len(u)
           /\ \A i \in 1..Len(u) : Reverse(u)[i] = u[(Len(u) - i) + 1]
<1>1. Len(u) \in Nat
    BY LenProperties DEF Text
<1>2. \A i \in 1..Len(u) : u[(Len(u) - i) + 1] \in DOMAIN Utf8
  <2>1. \A i \in 1..Len(u) : (Len(u) - i) + 1 \in 1..Len(u)
      BY <1>1
  <2> QED
      BY <2>1, ElementOfSeq DEF Text
<1> QED
    BY <1>1, <1>2 DEF Text, Reverse

\* The rest of a text is a suffix of it.
LEMMA RestIsSuffix ==
    ASSUME NEW t \in Text, NEW e \in 0..Len(t), NEW u,
           u = SubSeq(t, e + 1, Len(t))
    PROVE  IsSuffix(u, t)
<1>1. /\ u \in Text /\ Len(u) = Len(t) - e /\ Len(t) \in Nat /\ e \in Nat
      /\ \A i \in 1..Len(u) : u[i] = t[e + i]
    BY RestOfText, LenProperties DEF Text
<1> DEFINE a == Reverse(u)
           b == Reverse(t)
<1>2. Len(u) \in Nat /\ Len(u) <= Len(t)
    BY <1>1
<1>3. /\ a \in Text /\ Len(a) = Len(u)
      /\ \A i \in 1..Len(u) : a[i] = u[(Len(u) - i) + 1]
    BY <1>1, Reversed
<1>4. /\ b \in Text /\ Len(b) = Len(t)
      /\ \A i \in 1..Len(t) : b[i] = t[(Len(t) - i) + 1]
    BY Reversed
<1> HIDE DEF a, b
<1>5. \A i \in 1..Len(u) : a[i] = b[i]
  <2> SUFFICES ASSUME NEW i \in 1..Len(u) PROVE a[i] = b[i]
      OBVIOUS
  <2>1. (Len(u) - i) + 1 \in 1..Len(u) /\ i \in 1..Len(t)
        /\ e + ((Len(u) - i) + 1) = (Len(t) - i) + 1
      BY <1>1, <1>2
  <2>2. a[i] = u[(Len(u) - i) + 1] /\ b[i] = t[(Len(t) - i) + 1]
      BY <1>3, <1>4, <2>1
  <2> QED
      BY <1>1, <2>1, <2>2
<1>6. SubSeq(a, 1, Len(a)) = SubSeq(b, 1, Len(a))
  <2>1. SubSeq(a, 1, Len(a)) = a
      BY <1>3, SubSeqFull DEF Text
  <2> DEFINE c == SubSeq(b, 1, Len(a))
  <2>2. \A i \in 1..Len(a) : b[i] \in DOMAIN Utf8
    <3>1. \A i \in 1..Len(a) : i \in 1..Len(b)
        BY <1>1, <1>2, <1>3, <1>4
    <3> QED
        BY <1>4, <3>1, ElementOfSeq DEF Text
  <2>3. 1 \in Int /\ Len(a) \in Int /\ Len(a) - 1 + 1 = Len(a)
      BY <1>2, <1>3
  <2>4. /\ c \in Seq(DOMAIN Utf8)
        /\ Len(c) = IF 1 <= Len(a) THEN Len(a) - 1 + 1 ELSE 0
        /\ \A i \in 1..Len(a) - 1 + 1 : c[i] = b[1 + i - 1]
      BY <2>2, <2>3, SubSeqProperties
  <2> HIDE DEF c
  <2>5. Len(c) = Len(a)
      BY <1>2, <1>3, <2>4
  <2>6. \A i \in 1..Len(a) : c[i] = a[i]
      BY <1>2, <1>3, <1>5, <2>4
  <2>7. a = c
      BY <1>3, <2>4, <2>5, <2>6, SeqEqual DEF Text
  <2> QED
      BY <2>1, <2>7 DEF c
<1>7. IsPrefix(a, b)
    BY <1>2, <1>3, <1>4, <1>6 DEF IsPrefix
<1> QED
    BY <1>7 DEF IsSuffix, a, b

\* What is left after some more characters.
LEMMA RestOfRest ==
    ASSUME NEW t \in Text, NEW e \in 0..Len(t), NEW u,
           u = SubSeq(t, e + 1, Len(t)), NEW size \in 0..Len(u)
    PROVE  /\ e + size \in 0..Len(t)
           /\ SubSeq(u, size + 1, Len(u)) = SubSeq(t, e + size + 1, Len(t))
<1>1. /\ u \in Text /\ Len(u) = Len(t) - e /\ Len(t) \in Nat /\ e \in Nat
      /\ \A i \in 1..Len(u) : u[i] = t[e + i]
    BY RestOfText, LenProperties DEF Text
<1>2. size \in Nat /\ size <= Len(u) /\ e + size \in 0..Len(t)
    BY <1>1
<1> DEFINE v == SubSeq(u, size + 1, Len(u))
           w == SubSeq(t, e + size + 1, Len(t))
<1>3. /\ v \in Text /\ Len(v) = Len(u) - size
      /\ \A i \in 1..Len(v) : v[i] = u[size + i]
    BY <1>1, <1>2, RestOfText
<1>4. /\ w \in Text /\ Len(w) = Len(t) - (e + size)
      /\ \A i \in 1..Len(w) : w[i] = t[e + size + i]
    BY <1>2, RestOfText
<1> HIDE DEF v, w
<1>5. Len(v) = Len(w)
    BY <1>1, <1>2, <1>3, <1>4
<1>6. \A i \in 1..Len(v) : v[i] = w[i]
  <2> SUFFICES ASSUME NEW i \in 1..Len(v) PROVE v[i] = w[i]
      OBVIOUS
  <2>1. size + i \in 1..Len(u) /\ e + (size + i) = e + size + i
      BY <1>1, <1>2, <1>3
  <2> QED
      BY <1>1, <1>3, <1>4, <1>5, <2>1
<1>7. v = w
    BY <1>3, <1>4, <1>5, <1>6, SeqEqual DEF Text
<1> QED
    BY <1>2, <1>7 DEF v, w

\* The byte at a position, and where the bytes end.
LEMMA ByteThere ==
    ASSUME NEW t \in Text, NEW at, Offsets(t, at), NEW b, NEW u,
           NEW s, NEW e, Covers(t, at, s, e, b, u),
           NEW p, NEW k, NEW i, Stands(t, at, s, e, p, k, i)
    PROVE  /\ i \in 1..Len(b) + 1
           /\ i <= Len(b) <=> p < e
           /\ p < e => b[i] = Utf8[t[p + 1]][k + 1]
<1>1. /\ s \in Nat /\ e \in Nat /\ p \in Nat /\ k \in Nat
      /\ s <= p /\ p <= e /\ e <= Len(t) /\ Len(t) \in Nat
    BY OffsetsGrow DEF Covers, Stands
<1>2. /\ at[s] \in Nat /\ at[p] \in Nat /\ at[e] \in Nat
      /\ at[s] <= at[p] /\ at[p] <= at[e]
  <2>1. s \in 0..Len(t) /\ p \in 0..Len(t) /\ e \in 0..Len(t)
      BY <1>1
  <2> QED
      BY <1>1, <2>1, OffsetsGrow
<1>3. Len(b) = at[e] - at[s] /\ i = at[p] - at[s] + k + 1
    BY DEF Covers, Stands
<1>4. CASE p = e
  <2>1. k = 0
      BY <1>1, <1>4 DEF Stands
  <2> QED
      BY <1>1, <1>2, <1>3, <1>4, <2>1
<1>5. CASE p < e
  <2> DEFINE c == Utf8[t[p + 1]]
  <2>1. p + 1 \in 1..Len(t) /\ p + 1 \in (s + 1)..e /\ (p + 1) - 1 = p
      BY <1>1, <1>5
  <2>2. c \in Seq(Byte) /\ Len(c) \in Nat \ {0}
      BY <2>1, Characters
  <2>3. at[p + 1] = at[p] + Len(c)
      BY <2>1 DEF Offsets
  <2>4. at[p + 1] <= at[e] /\ at[p + 1] \in Nat
    <3>1. p + 1 \in 0..Len(t) /\ e \in 0..Len(t)
        BY <1>1, <2>1
    <3>2. CASE p + 1 = e
        BY <1>2, <3>2
    <3>3. CASE p + 1 # e
        BY <1>1, <1>2, <1>5, <3>1, <3>3, OffsetsGrow
    <3> QED
        BY <3>2, <3>3
  <2>5. k < Len(c)
      BY <1>5 DEF Stands
  <2> HIDE DEF c
  <2>6. i \in 1..Len(b)
    <3>1. Len(b) \in Nat /\ i \in Nat /\ i >= 1
        BY <1>1, <1>2, <1>3
    <3>2. at[p] + k + 1 <= at[e]
        BY <1>1, <1>2, <2>2, <2>3, <2>4, <2>5
    <3>3. i <= Len(b)
        BY <1>1, <1>2, <1>3, <3>2
    <3> QED
        BY <3>1, <3>3
  <2>7. b[i] = c[k + 1]
    <3>1. k + 1 \in 1..Len(c) /\ at[p] - at[s] + (k + 1) = i
        BY <1>1, <1>2, <1>3, <2>2, <2>5
    <3>2. b[at[p] - at[s] + (k + 1)] = c[k + 1]
      <4>1. \A x \in 1..Len(c) : b[at[(p + 1) - 1] - at[s] + x] = c[x]
          BY <2>1 DEF Covers, c
      <4> QED
          BY <2>1, <3>1, <4>1
    <3> QED
        BY <3>1, <3>2
  <2> QED
      BY <1>5, <2>6, <2>7 DEF c
<1> QED
    BY <1>1, <1>4, <1>5

\* The next byte belongs to the same character or begins the next one.
LEMMA OneByteOn ==
    ASSUME NEW t \in Text, NEW at, Offsets(t, at), NEW b, NEW u,
           NEW s, NEW e, Covers(t, at, s, e, b, u),
           NEW p, NEW k, NEW i, Stands(t, at, s, e, p, k, i), p < e
    PROVE  IF k + 1 < Len(Utf8[t[p + 1]])
           THEN Stands(t, at, s, e, p, k + 1, i + 1)
           ELSE /\ k + 1 = Len(Utf8[t[p + 1]])
                /\ Stands(t, at, s, e, p + 1, 0, i + 1)
<1>1. /\ s \in Nat /\ e \in Nat /\ p \in Nat /\ k \in Nat
      /\ s <= p /\ p <= e /\ e <= Len(t) /\ Len(t) \in Nat
      /\ p \in s..e /\ i = at[p] - at[s] + k + 1
    BY OffsetsGrow DEF Covers, Stands
<1> DEFINE c == Utf8[t[p + 1]]
<1>2. p + 1 \in 1..Len(t) /\ (p + 1) - 1 = p
    BY <1>1
<1>3. Len(c) \in Nat \ {0} /\ at[p + 1] = at[p] + Len(c) /\ k < Len(c)
    BY <1>2, Characters DEF Offsets, Stands
<1>4. at[s] \in Nat /\ at[p] \in Nat
    BY <1>1, OffsetsGrow
<1> HIDE DEF c
<1>5. CASE k + 1 < Len(c)
    BY <1>1, <1>3, <1>4, <1>5 DEF Stands, c
<1>6. CASE ~ (k + 1 < Len(c))
  <2>1. k + 1 = Len(c)
      BY <1>1, <1>3, <1>6
  <2>2. i + 1 = at[p + 1] - at[s] + 0 + 1
      BY <1>1, <1>3, <1>4, <2>1
  <2>3. p + 1 \in s..e
      BY <1>1
  <2>4. p + 1 < e => 0 < Len(Utf8[t[(p + 1) + 1]])
    <3>1. p + 1 < e => (p + 1) + 1 \in 1..Len(t)
        BY <1>1
    <3> QED
        BY <3>1, Characters
  <2> QED
      BY <1>6, <2>1, <2>2, <2>3, <2>4 DEF Stands, c
<1> QED
    BY <1>5, <1>6 DEF c

\* Behind the whole character.
LEMMA OneCharacterOn ==
    ASSUME NEW t \in Text, NEW at, Offsets(t, at), NEW b, NEW u,
           NEW s, NEW e, Covers(t, at, s, e, b, u),
           NEW p, NEW i, Stands(t, at, s, e, p, 0, i), p < e
    PROVE  /\ Stands(t, at, s, e, p + 1, 0, i + Len(Utf8[t[p + 1]]))
           /\ i + Len(Utf8[t[p + 1]]) <= Len(b) + 1
           /\ \A x \in 1..Len(Utf8[t[p + 1]]) :
                b[i + x - 1] = Utf8[t[p + 1]][x]
<1>1. /\ s \in Nat /\ e \in Nat /\ p \in Nat
      /\ s <= p /\ p <= e /\ e <= Len(t) /\ Len(t) \in Nat
      /\ p \in s..e /\ i = at[p] - at[s] + 1
    BY OffsetsGrow DEF Covers, Stands
<1> DEFINE c == Utf8[t[p + 1]]
<1>2. p + 1 \in 1..Len(t) /\ p + 1 \in (s + 1)..e /\ (p + 1) - 1 = p
    BY <1>1
<1>3. Len(c) \in Nat \ {0} /\ at[p + 1] = at[p] + Len(c)
    BY <1>2, Characters DEF Offsets
<1>4. at[s] \in Nat /\ at[p] \in Nat
    BY <1>1, OffsetsGrow
<1>5. \A x \in 1..Len(c) : b[at[p] - at[s] + x] = c[x]
  <2>1. \A x \in 1..Len(c) : b[at[(p + 1) - 1] - at[s] + x] = c[x]
      BY <1>2 DEF Covers
  <2> QED
      BY <1>2, <2>1
<1> HIDE DEF c
<1>6. Stands(t, at, s, e, p + 1, 0, i + Len(c))
  <2>1. i + Len(c) = at[p + 1] - at[s] + 0 + 1 /\ p + 1 \in s..e
      BY <1>1, <1>3, <1>4
  <2>2. p + 1 < e => 0 < Len(Utf8[t[(p + 1) + 1]])
    <3>1. p + 1 < e => (p + 1) + 1 \in 1..Len(t)
        BY <1>1
    <3> QED
        BY <3>1, Characters
  <2>3. ~ (p + 1 < e) => 0 = 0
      OBVIOUS
  <2> QED
      BY <2>1, <2>2, <2>3 DEF Stands
<1>7. i + Len(c) \in 1..Len(b) + 1
    BY <1>6, ByteThere
<1>8. \A x \in 1..Len(c) : b[i + x - 1] = c[x]
  <2>1. ASSUME NEW x \in 1..Len(c)
        PROVE  i + x - 1 = at[p] - at[s] + x
      BY <1>1, <1>3, <1>4
  <2> QED
      BY <1>5, <2>1
<1>9. i + Len(c) <= Len(b) + 1
    BY <1>7
<1> QED
    BY <1>6, <1>8, <1>9 DEF c

\* A look ahead reads one more character.
LEMMA OneCharacterMore ==
    ASSUME NEW t \in Text, NEW at, Offsets(t, at), NEW b, NEW u,
           NEW s, NEW e, Covers(t, at, s, e, b, u), u # <<>>
    PROVE  /\ e + 1 \in 1..Len(t) /\ Head(u) = t[e + 1]
           /\ Covers(t, at, s, e + 1, b \o Utf8[t[e + 1]], Tail(u))
           /\ Len(b \o Utf8[t[e + 1]]) = Len(b) + Len(Utf8[t[e + 1]])
<1>1. /\ s \in Nat /\ e \in Nat /\ s <= e /\ e <= Len(t) /\ Len(t) \in Nat
      /\ u = SubSeq(t, e + 1, Len(t))
      /\ b \in Seq(Byte) /\ Len(b) = at[e] - at[s]
    BY OffsetsGrow DEF Covers
<1>2. e + 1 \in 1..Len(t)
    BY <1>1, SubSeqEmpty
<1>3. Head(u) = t[e + 1] /\ Tail(u) = SubSeq(t, (e + 1) + 1, Len(t))
  <2>1. Len(t) \in (e + 1)..Len(t)
      BY <1>2
  <2> QED
      BY <1>1, <1>2, <2>1, HeadTailOfSubSeq DEF Text
<1> DEFINE c == Utf8[t[e + 1]]
           new == b \o c
           low == at[e] - at[s]
<1>4. c \in Seq(Byte) /\ Len(c) \in Nat /\ at[e + 1] = at[e] + Len(c)
  <2>1. (e + 1) - 1 = e
      BY <1>1
  <2> QED
      BY <1>2, <2>1, Characters DEF Offsets
<1>5. at[s] \in Nat /\ at[e] \in Nat /\ at[s] <= at[e] /\ low \in Nat
  <2>1. s \in 0..Len(t) /\ e \in 0..Len(t)
      BY <1>1
  <2> QED
      BY <1>1, <2>1, OffsetsGrow
<1> HIDE DEF c
<1>6. /\ new \in Seq(Byte) /\ Len(new) = Len(b) + Len(c)
      /\ \A y \in 1..(Len(b) + Len(c)) :
           new[y] = IF y <= Len(b) THEN b[y] ELSE c[y - Len(b)]
    BY <1>1, <1>4, ConcatProperties
<1> HIDE DEF new
<1>7. Len(new) = at[e + 1] - at[s]
    BY <1>1, <1>4, <1>5, <1>6
<1>8. ASSUME NEW n \in (s + 1)..(e + 1), NEW x \in 1..Len(Utf8[t[n]])
      PROVE  new[at[n - 1] - at[s] + x] = Utf8[t[n]][x]
  <2> DEFINE y == at[n - 1] - at[s] + x
  <2>1. /\ n \in 1..Len(t) /\ n - 1 \in 0..Len(t) /\ s <= n - 1
        /\ Len(Utf8[t[n]]) \in Nat
      BY <1>1, <1>2, Characters
  <2>2. at[n - 1] \in Nat /\ at[s] <= at[n - 1] /\ x \in Nat \ {0}
    <3>1. s \in 0..Len(t) /\ (s = n - 1 \/ s < n - 1)
        BY <1>1, <2>1
    <3> QED
        BY <1>5, <2>1, <3>1, OffsetsGrow
  <2>3. CASE n = e + 1
    <3>1. n - 1 = e /\ Utf8[t[n]] = c
        BY <1>1, <2>3 DEF c
    <3>2. y = low + x /\ x \in 1..Len(c)
        BY <3>1
    <3> HIDE DEF y, low
    <3>3. y \in 1..(Len(b) + Len(c)) /\ ~ (y <= Len(b)) /\ y - Len(b) = x
      <4>1. Len(b) = low
          BY <1>1 DEF low
      <4>2. x \in Nat /\ x >= 1 /\ x <= Len(c)
          BY <1>4, <3>2
      <4> QED
          BY <1>4, <1>5, <3>2, <4>1, <4>2
    <3>4. new[y] = c[x]
        BY <1>6, <3>3
    <3> QED
        BY <3>1, <3>4 DEF y
  <2>4. CASE n # e + 1
    <3>1. n \in (s + 1)..e
        BY <1>1, <2>4
    <3>2. b[y] = Utf8[t[n]][x]
        BY <3>1 DEF Covers
    <3>3. y \in 1..Len(b)
      <4>1. at[n] = at[n - 1] + Len(Utf8[t[n]]) /\ at[n] \in Nat
          BY <2>1, <2>2 DEF Offsets
      <4>2. at[n] <= at[e]
        <5>1. n \in 0..Len(t) /\ e \in 0..Len(t) /\ (n = e \/ n < e)
            BY <1>1, <2>1, <3>1
        <5> QED
            BY <1>5, <5>1, OffsetsGrow
      <4>3. y \in Nat /\ y >= 1 /\ x <= Len(Utf8[t[n]])
          BY <1>5, <2>2
      <4>4. y <= Len(b)
        <5>1. at[n - 1] + x <= at[e]
            BY <1>5, <2>1, <2>2, <4>1, <4>2, <4>3
        <5> QED
            BY <1>1, <1>5, <2>2, <5>1
      <4> HIDE DEF y
      <4> QED
          BY <1>1, <1>5, <4>3, <4>4
    <3> HIDE DEF y
    <3>4. new[y] = b[y]
        BY <1>1, <1>4, <1>5, <1>6, <3>3
    <3> QED
        BY <3>2, <3>4 DEF y
  <2> QED
      BY <2>3, <2>4
<1>9. /\ s \in Nat /\ e + 1 \in Nat /\ s <= e + 1 /\ e + 1 <= Len(t)
    BY <1>1, <1>2
<1> QED
    BY <1>2, <1>3, <1>6, <1>7, <1>8, <1>9 DEF Covers, c, new

\* A block of the next characters replaces the one that is used up.
LEMMA NextBlock ==
    ASSUME NEW t \in Text, NEW at, Offsets(t, at), NEW b, NEW u,
           NEW s, NEW e, Covers(t, at, s, e, b, u),
           NEW size \in 1..Len(u)
    PROVE  LET block == FlattenSeq([i \in 1..size |-> Utf8[u[i]]])
           IN  /\ Covers(t, at, e, e + size, block,
                         SubSeq(u, size + 1, Len(u)))
               /\ Stands(t, at, e, e + size, e, 0, 1)
<1>1. /\ s \in Nat /\ e \in Nat /\ s <= e /\ e <= Len(t) /\ Len(t) \in Nat
      /\ u = SubSeq(t, e + 1, Len(t)) /\ t \in Seq(DOMAIN Utf8)
    BY OffsetsGrow DEF Covers, Text
<1>2. /\ Len(u) = Len(t) - e /\ u \in Seq(DOMAIN Utf8)
      /\ \A i \in 1..Len(u) : u[i] = t[e + i]
  <2>1. e \in 0..Len(t)
      BY <1>1
  <2> QED
      BY <1>1, <2>1, RestOfText DEF Text
<1>3. size \in Nat \ {0} /\ e + size <= Len(t) /\ e + size \in Nat
    BY <1>1, <1>2
<1> DEFINE F == [i \in 1..size |-> Utf8[u[i]]]
           rel == [i \in 0..size |-> at[e + i] - at[e]]
<1>4. ASSUME NEW i \in 1..size
      PROVE  /\ e + i \in 1..Len(t) /\ u[i] = t[e + i]
             /\ F[i] = Utf8[t[e + i]] /\ F[i] \in Seq(Byte)
  <2>1. e + i \in 1..Len(t) /\ i \in 1..Len(u)
      BY <1>1, <1>2, <1>3
  <2>2. F[i] = Utf8[t[e + i]]
      BY <1>2, <2>1
  <2> QED
      BY <1>2, <2>1, <2>2, Characters
<1>5. rel \in [0..size -> Nat] /\ rel[0] = 0
  <2>1. ASSUME NEW i \in 0..size PROVE at[e + i] - at[e] \in Nat
    <3>1. e \in 0..Len(t) /\ e + i \in 0..Len(t) /\ (i = 0 \/ e < e + i)
        BY <1>1, <1>3
    <3>2. at[e] \in Nat /\ at[e + i] \in Nat
        BY <3>1, OffsetsGrow
    <3>3. CASE i = 0
        BY <1>1, <3>2, <3>3
    <3>4. CASE e < e + i
      <4>1. at[e] < at[e + i]
          BY <3>1, <3>4, OffsetsGrow
      <4> QED
          BY <3>2, <4>1
    <3> QED
        BY <3>1, <3>3, <3>4
  <2>2. at[e + 0] - at[e] = 0
      BY <1>1, OffsetsGrow
  <2>3. 0 \in 0..size
      BY <1>3
  <2> QED
      BY <2>1, <2>2, <2>3
<1>6. \A i \in 1..size : rel[i] = rel[i - 1] + Len(F[i])
  <2> SUFFICES ASSUME NEW i \in 1..size
               PROVE  rel[i] = rel[i - 1] + Len(F[i])
      OBVIOUS
  <2>1. /\ i \in 0..size /\ i - 1 \in 0..size
        /\ e + i \in 1..Len(t) /\ (e + i) - 1 = e + (i - 1)
      BY <1>1, <1>3, <1>4
  <2>2. at[e + i] = at[e + (i - 1)] + Len(F[i])
      BY <1>4, <2>1 DEF Offsets
  <2>3. rel[i] = at[e + i] - at[e] /\ rel[i - 1] = at[e + (i - 1)] - at[e]
      BY <2>1
  <2>4. at[e] \in Nat /\ at[e + (i - 1)] \in Nat /\ Len(F[i]) \in Nat
    <3>1. e \in 0..Len(t) /\ e + (i - 1) \in 0..Len(t)
        BY <1>1, <1>3, <2>1
    <3> QED
        BY <1>4, <3>1, OffsetsGrow, LenProperties
  <2> HIDE DEF rel, F
  <2> QED
      BY <2>2, <2>3, <2>4
<1> DEFINE block == FlattenSeq(F)
<1>7. /\ block \in Seq(Byte) /\ Len(block) = rel[size]
      /\ \A i \in 1..size : \A x \in 1..Len(F[i]) :
           block[rel[i - 1] + x] = F[i][x]
  <2>1. F \in [1..size -> Seq(Byte)]
      BY <1>4
  <2>2. size \in Nat \ {0} /\ rel \in [0..size -> Nat] /\ rel[0] = 0
      BY <1>3, <1>5
  <2>3. \A i \in 1..size : rel[i] = rel[i - 1] + Len(F[i])
      BY <1>6
  <2> HIDE DEF F, rel
  <2>4. Joins(F, rel, size, Byte, FlattenSeq(F))
      BY <2>1, <2>2, <2>3, Flattened
  <2> QED
      BY <2>4 DEF Joins
<1>8. Len(block) = at[e + size] - at[e]
  <2>1. size \in 0..size
      BY <1>3
  <2>2. rel[size] = at[e + size] - at[e]
      BY <2>1
  <2> QED
      BY <1>7, <2>2
<1>9. ASSUME NEW n \in (e + 1)..(e + size), NEW x \in 1..Len(Utf8[t[n]])
      PROVE  block[at[n - 1] - at[e] + x] = Utf8[t[n]][x]
  <2> DEFINE i == n - e
  <2>1. i \in 1..size /\ i - 1 \in 0..size /\ e + i = n /\ e + (i - 1) = n - 1
      BY <1>1, <1>3
  <2>2. F[i] = Utf8[t[n]] /\ rel[i - 1] = at[n - 1] - at[e]
      BY <1>4, <2>1
  <2> HIDE DEF i, F, rel, block
  <2> QED
      BY <1>7, <2>1, <2>2
<1>10. SubSeq(u, size + 1, Len(u)) = SubSeq(t, e + size + 1, Len(t))
  <2>1. e \in 0..Len(t) /\ size \in 0..Len(u)
      BY <1>1, <1>3
  <2> QED
      BY <1>1, <2>1, RestOfRest
<1>11. Stands(t, at, e, e + size, e, 0, 1)
  <2>1. e \in e..(e + size) /\ e + 1 \in 1..Len(t)
      BY <1>1, <1>3
  <2>2. 0 < Len(Utf8[t[e + 1]])
      BY <2>1, Characters
  <2>3. 1 = at[e] - at[e] + 0 + 1
      BY <1>1, OffsetsGrow
  <2> QED
      BY <1>3, <2>1, <2>2, <2>3 DEF Stands
<1>12. Covers(t, at, e, e + size, block, SubSeq(t, e + size + 1, Len(t)))
  <2> HIDE DEF block
  <2>1. e \in Nat /\ e + size \in Nat /\ e <= e + size /\ e + size <= Len(t)
      BY <1>1, <1>3
  <2>2. block \in Seq(Byte)
      BY <1>7
  <2> QED
      BY <1>8, <1>9, <2>1, <2>2 DEF Covers
<1> QED
    BY <1>10, <1>11, <1>12

\* When nothing is left to be read, all characters are there.
LEMMA AllCovered ==
    ASSUME NEW t \in Text, NEW at, NEW b, NEW u, NEW s, NEW e,
           Covers(t, at, s, e, b, u), u = <<>>
    PROVE  e = Len(t)
<1>1. e \in Nat /\ e <= Len(t) /\ Len(t) \in Nat /\ SubSeq(t, e + 1, Len(t)) = <<>>
    BY DEF Covers, Text
<1>2. ASSUME e + 1 <= Len(t) PROVE FALSE
  <2>1. /\ \A i \in (e + 1)..Len(t) : t[i] \in DOMAIN Utf8
        /\ e + 1 \in Int /\ Len(t) \in Int
    <3>1. \A i \in (e + 1)..Len(t) : i \in 1..Len(t)
        BY <1>1
    <3> QED
        BY <1>1, <3>1, ElementOfSeq DEF Text
  <2>2. Len(SubSeq(t, e + 1, Len(t))) = Len(t) - (e + 1) + 1
      BY <1>2, <2>1, SubSeqProperties
  <2>3. Len(t) - (e + 1) + 1 # 0
      BY <1>1, <1>2
  <2> QED
      BY <1>1, <2>2, <2>3
<1> QED
    BY <1>1, <1>2

(***************************************************************************)
(* The types.                                                              *)
(***************************************************************************)
\* The separator and the quote have one byte or two.
ShortMarks ==
  \A j \in Jobs : Len(j.separator) \in {1, 2} /\ Len(j.quote) \in {1, 2}

\* What is left in the stream follows some first part of the text.
Typed ==
  /\ job \in Jobs
  /\ \E e \in 0..Len(job.text) : unread = SubSeq(job.text, e + 1, Len(job.text))
  /\ buffer \in Seq(Byte)
  /\ it \in 1..Len(buffer) + 1
  /\ state \in {"normal", "inQuote", "endQuote"}
  /\ result \in {"none", "success", "cancelled", "error", "eof"}
  /\ result \in {"success", "eof", "error"} => record = <<>> /\ field = <<>>

\* The state of the stream and of the buffer in Typed.
Place ==
  /\ \E e \in 0..Len(job.text) : unread = SubSeq(job.text, e + 1, Len(job.text))
  /\ buffer \in Seq(Byte)
  /\ it \in 1..Len(buffer) + 1

\* A look ahead leaves a position in the buffer, and behind it a byte if it
\* was the expected one.
LEMMA LookStays ==
    ASSUME Typed, it <= Len(buffer), NEW extra \in {0, 1},
           extra = 1 => LookIt < Len(LookBuffer),
           NextAfterLook(extra), job' = job
    PROVE  Place'
<1> DEFINE t == job.text
<1>1. /\ t \in Text /\ Len(t) \in Nat /\ Len(buffer) \in Nat /\ it \in 1..Len(buffer)
      /\ buffer \in Seq(Byte)
    BY CsvAssumption, LenProperties DEF Typed, Text
<1>2. PICK e \in 0..Len(t) : unread = SubSeq(t, e + 1, Len(t))
    BY DEF Typed
<1>3. unread \in Text
    BY <1>1, <1>2, RestOfText
<1>4. CASE LooksBeyond
  <2>1. it = Len(buffer) /\ unread # <<>>
      BY <1>4 DEF LooksBeyond
  <2>2. Len(unread) \in Nat /\ Len(unread) >= 1
      BY <1>3, <2>1, EmptySeq, LenProperties DEF Text
  <2>3. Head(unread) \in DOMAIN Utf8
      BY <1>3, <2>1, HeadTailProperties DEF Text
  <2>4. Utf8[Head(unread)] \in Seq(Byte) \ {<<>>}
      BY <2>3, CsvAssumption
  <2> DEFINE more == Utf8[Head(unread)]
             look == buffer \o more
  <2>5. LookBuffer = look /\ LookIt = Len(look) - 1
      BY <1>4 DEF LookBuffer, LookIt
  <2> HIDE DEF more
  <2>6. more \in Seq(Byte) /\ Len(more) \in Nat /\ Len(more) >= 1
      BY <2>4, EmptySeq, LenProperties DEF more
  <2>7. look \in Seq(Byte) /\ Len(look) = Len(buffer) + Len(more)
      BY <1>1, <2>6, ConcatProperties
  <2> HIDE DEF look
  <2>8. /\ buffer' = look /\ it' = Len(look) - 1 + extra + 1
        /\ unread' = Tail(unread)
      BY <1>4, <2>5 DEF NextAfterLook
  <2>9. it' \in 1..Len(buffer') + 1 /\ buffer' \in Seq(Byte)
      BY <1>1, <2>6, <2>7, <2>8
  <2>10. unread' = SubSeq(unread, 1 + 1, Len(unread))
      BY <1>3, <2>1, <2>8, TailIsSubSeq DEF Text
  <2>11. 1 \in 0..Len(unread)
      BY <2>2
  <2>12. e + 1 \in 0..Len(t) /\ unread' = SubSeq(t, e + 1 + 1, Len(t))
      BY <1>1, <1>2, <2>10, <2>11, RestOfRest
  <2> QED
      BY <2>9, <2>12 DEF Place
<1>5. CASE ~ LooksBeyond
  <2>1. LookBuffer = buffer /\ LookIt = it
      BY <1>5 DEF LookBuffer, LookIt
  <2>2. buffer' = buffer /\ it' = it + extra + 1 /\ unread' = unread
      BY <1>5, <2>1 DEF NextAfterLook
  <2>3. it' \in 1..Len(buffer) + 1
      BY <1>1, <2>1, <2>2
  <2> QED
      BY <1>1, <1>2, <2>2, <2>3 DEF Place
<1> QED
    BY <1>4, <1>5

\* The next byte is in the buffer or at its end.
LEMMA NextStays ==
    ASSUME Typed, it <= Len(buffer), Next1, job' = job
    PROVE  Place'
<1>1. Len(buffer) \in Nat /\ it \in 1..Len(buffer)
    BY LenProperties DEF Typed
<1>2. it' \in 1..Len(buffer) + 1
    BY <1>1 DEF Next1
<1> QED
    BY <1>2 DEF Next1, Typed, Place

\* So it is after a separator or a quote.
LEMMA NextAfterStays ==
    ASSUME Typed, it <= Len(buffer), NEW special, Len(special) \in {1, 2},
           Matches(special), NextAfter(special), job' = job
    PROVE  Place'
<1>1. CASE Len(special) = 1
    BY <1>1, NextStays DEF NextAfter
<1>2. CASE Len(special) = 2
  <2>1. LookIt < Len(LookBuffer)
      BY <1>2 DEF Matches, LookAhead
  <2>2. NextAfterLook(1)
      BY <1>2 DEF NextAfter
  <2> QED
      BY <2>1, <2>2, LookStays
<1> QED
    BY <1>1, <1>2

\* A step within a block keeps the types.
LEMMA ByteTyped ==
    ASSUME ShortMarks, Typed, ParseByte
    PROVE  Typed'
<1>1. /\ it <= Len(buffer) /\ result = "none" /\ job' = job
      /\ Len(job.separator) \in {1, 2} /\ Len(job.quote) \in {1, 2}
    BY DEF ParseByte, ShortMarks, Typed
<1> DEFINE c == buffer[it]
           Rest == /\ state' \in {"normal", "inQuote", "endQuote"}
                   /\ result' \in {"none", "success", "cancelled", "error", "eof"}
                   /\ result' \in {"success", "eof", "error"}
                        => record' = <<>> /\ field' = <<>>
<1>2. state \in {"normal", "inQuote", "endQuote"}
    BY DEF Typed
<1>3. ASSUME PassOver PROVE Place' /\ Rest
  <2>1. NextAfterLook(0) /\ state' = state /\ result' = "none"
      BY <1>1, <1>3 DEF PassOver, NoOutput
  <2>2. Place'
      BY <1>1, <2>1, LookStays
  <2> QED
      BY <1>2, <2>1, <2>2
<1>5. CASE Separator(c)
  <2>1. CASE Matches(job.separator)
    <3>1. AddColumn /\ state' = "normal" /\ NextAfter(job.separator)
        BY <1>5, <2>1 DEF Separator
    <3>2. Place'
        BY <1>1, <2>1, <3>1, NextAfterStays
    <3>3. Rest
        BY <1>1, <3>1 DEF AddColumn
    <3> QED
        BY <3>2, <3>3, <1>1 DEF Place, Typed
  <2>2. CASE ~ Matches(job.separator)
    <3>1. PassOver
        BY <1>5, <2>2 DEF Separator
    <3> QED
        BY <1>1, <1>3, <3>1 DEF Place, Typed
  <2> QED
      BY <2>1, <2>2
<1>6. CASE Quote(c)
  <2>1. CASE Matches(job.quote)
    <3>1. /\ state' = IF state = "inQuote" THEN "endQuote" ELSE "inQuote"
          /\ NextAfter(job.quote) /\ result' = result
        BY <1>6, <2>1 DEF Quote, AddChar, NoOutput
    <3>2. Place'
        BY <1>1, <2>1, <3>1, NextAfterStays
    <3>3. Rest
        BY <1>1, <3>1
    <3> QED
        BY <3>2, <3>3, <1>1 DEF Place, Typed
  <2>2. CASE ~ Matches(job.quote)
    <3>1. PassOver
        BY <1>6, <2>2 DEF Quote
    <3> QED
        BY <1>1, <1>3, <3>1 DEF Place, Typed
  <2> QED
      BY <2>1, <2>2
<1>7. CASE LineFeed(c)
  <2>1. Place'
      BY <1>1, <1>7, NextStays DEF LineFeed
  <2>2. Rest
      BY <1>7 DEF LineFeed, AddRow, AfterRow
  <2> QED
      BY <1>1, <2>1, <2>2 DEF Place, Typed
<1>8. CASE CarriageReturn(c)
  <2>1. Place'
      BY <1>1, <1>8, LookStays DEF CarriageReturn
  <2>2. Rest
      BY <1>1, <1>2, <1>8 DEF CarriageReturn, AddRow, AfterRow, NoOutput
  <2> QED
      BY <1>1, <2>1, <2>2 DEF Place, Typed
<1>9. CASE OtherByte(c)
  <2>1. Place'
      BY <1>1, <1>9, NextStays DEF OtherByte
  <2>2. Rest
      BY <1>1, <1>9 DEF OtherByte, AddChar
  <2> QED
      BY <1>1, <2>1, <2>2 DEF Place, Typed
<1> QED
    BY <1>5, <1>6, <1>7, <1>8, <1>9 DEF ParseByte

\* A new block is some characters of what was left, as bytes.
LEMMA BlockTyped ==
    ASSUME Typed, ReadBlock
    PROVE  Typed'
<1> DEFINE t == job.text
           size == IF job.blockSize < Len(unread) THEN job.blockSize
                                                  ELSE Len(unread)
<1>1. /\ t \in Text /\ Len(t) \in Nat /\ job.blockSize \in Nat \ {0}
      /\ unread # <<>> /\ it' = 1 /\ job' = job /\ state' = state
      /\ record' = record /\ field' = field /\ result' = result
      /\ buffer' = FlattenSeq([i \in 1..size |-> Utf8[unread[i]]])
      /\ unread' = SubSeq(unread, size + 1, Len(unread))
    BY CsvAssumption, LenProperties DEF Typed, Text, ReadBlock, NoOutput
<1>2. PICK e \in 0..Len(t) : unread = SubSeq(t, e + 1, Len(t))
    BY DEF Typed
<1>3. unread \in Text /\ Len(unread) \in Nat \ {0}
  <2>1. unread \in Text
      BY <1>1, <1>2, RestOfText
  <2> QED
      BY <1>1, <2>1, EmptySeq, LenProperties DEF Text
<1>4. size \in Nat \ {0} /\ size \in 0..Len(unread)
    BY <1>1, <1>3
<1> HIDE DEF size
<1>5. /\ e + size \in 0..Len(t)
      /\ unread' = SubSeq(t, e + size + 1, Len(t))
    BY <1>1, <1>2, <1>4, RestOfRest
<1>6. buffer' \in Seq(Byte)
  <2>1. PICK at : Offsets(t, at)
      BY <1>1, OffsetsExist
  <2>2. at[e] - at[e] = 0
      BY <1>1, <2>1, OffsetsGrow
  <2>3. Covers(t, at, e, e, <<>>, unread)
      BY <1>2, <2>2, EmptySeq DEF Covers
  <2>4. size \in 1..Len(unread)
      BY <1>3, <1>4
  <2>5. LET block == FlattenSeq([i \in 1..size |-> Utf8[unread[i]]])
        IN  Covers(t, at, e, e + size, block, SubSeq(unread, size + 1, Len(unread)))
      BY <1>1, <2>1, <2>3, <2>4, NextBlock
  <2> QED
      BY <1>1, <2>5 DEF Covers
<1>7. it' \in 1..Len(buffer') + 1
    BY <1>1, <1>6, LenProperties
<1>8. \E n \in 0..Len(t) : unread' = SubSeq(t, n + 1, Len(t))
    BY <1>5
<1> QED
    BY <1>1, <1>6, <1>7, <1>8 DEF Typed

\* The stream and the buffer agree with the text after every step.
LEMMA TypedKept ==
    ASSUME ShortMarks
    PROVE  Spec => []Typed
<1>1. Init => Typed
  <2> SUFFICES ASSUME Init PROVE Typed
      OBVIOUS
  <2>1. job.text \in Text /\ Len(job.text) \in Nat
      BY CsvAssumption, LenProperties DEF Init, Text
  <2>2. unread = SubSeq(job.text, 0 + 1, Len(job.text)) /\ 0 \in 0..Len(job.text)
      BY <2>1, SubSeqFull DEF Init, Text
  <2>3. buffer \in Seq(Byte) /\ it \in 1..Len(buffer) + 1
      BY EmptySeq DEF Init
  <2> QED
      BY <2>2, <2>3 DEF Init, Typed
<1>2. Typed /\ [Next]_vars => Typed'
  <2> SUFFICES ASSUME Typed, [Next]_vars PROVE Typed'
      OBVIOUS
  <2>1. CASE ParseByte
      BY <2>1, ByteTyped
  <2>2. CASE ReadBlock
      BY <2>2, BlockTyped
  <2>3. CASE Cancel
      BY <2>3 DEF Cancel, Typed
  <2>4. CASE Finish
      BY <2>4 DEF Finish, AddRow, Typed
  <2>5. CASE UNCHANGED vars
      BY <2>5 DEF vars, Typed
  <2> QED
      BY <2>1, <2>2, <2>3, <2>4, <2>5 DEF Next
<1> QED
    BY <1>1, <1>2, PTL DEF Spec

\* What is left in the stream is a suffix of the text, the position is in the
\* buffer or just behind it, and a parser that has returned with a result of
\* its own has handed over or dropped the row it was in (parse, look_ahead),
\* for all files and block sizes, with separators and quotes of at most two
\* bytes.
THEOREM TypeCorrect ==
    ASSUME ShortMarks
    PROVE  Spec => []TypeOK
<1>1. Typed => TypeOK
  <2> SUFFICES ASSUME Typed PROVE TypeOK
      OBVIOUS
  <2>1. PICK e \in 0..Len(job.text) :
             unread = SubSeq(job.text, e + 1, Len(job.text))
      BY DEF Typed
  <2>2. job.text \in Text
      BY CsvAssumption DEF Typed, Text
  <2>3. IsSuffix(unread, job.text)
      BY <2>1, <2>2, RestIsSuffix
  <2> QED
      BY <2>3 DEF Typed, TypeOK
<1> QED
    BY <1>1, TypedKept, PTL

(***************************************************************************)
(* Where the parser is in the text and what the writer had there.          *)
(***************************************************************************)
\* The rows so far are the first n of the job.
FirstRows(n) ==
  /\ rows \in Seq(Seq(Seq(Byte)))
  /\ n \in Nat /\ Len(rows) = n /\ n <= Len(job.rows)
  /\ \A i \in 1..n : rows[i] = job.rows[i]

\* The state of the parser tells whether it is inside quotes, after them or
\* outside.
StateAt(place) ==
  /\ state \in {"normal", "inQuote", "endQuote"}
  /\ place = "quoted" <=> state = "inQuote"
  /\ place \in {"start", "plain", "ended"} => state = "normal"
  /\ place = "closed" => state = "endQuote"

\* A field grows by the first k bytes of a character.
With(bytes, c, k) == IF k = 0 THEN bytes ELSE bytes \o SubSeq(Utf8[c], 1, k)

\* The step of the writer that adds a character to the field.
WritesInto(v, c, w) == WritesPlain(job, v, c, w) \/ WritesQuoted(job, v, c, w)

JobOf(w, at) == /\ job \in Jobs
                /\ WrittenBy(job, w)
                /\ Offsets(job.text, at)

Reading(w, at, s, e, p, k) ==
  /\ Covers(job.text, at, s, e, buffer, unread)
  /\ Stands(job.text, at, s, e, p, k, it)
  /\ record = w[p].record
  /\ field = With(w[p].field, job.text[p + 1], k)
  /\ StateAt(w[p].place)
  /\ FirstRows(w[p].row)
  /\ k > 0 => WritesInto(w[p], job.text[p + 1], w[p + 1])

ReadingInv(w, at) ==
  /\ JobOf(w, at)
  /\ RowsAsWritten
  /\ ResultIsTrue
  /\ result = "none" => \E s, e, p, k : Reading(w, at, s, e, p, k)

---------------------------------------------------------------------------
\* The text and the format of a job, and the run of its writer.
LEMMA WriterRuns ==
    ASSUME NEW w, NEW at, JobOf(w, at)
    PROVE  /\ job.text \in Text /\ Offsets(job.text, at)
           /\ Len(job.text) \in Nat
           /\ Format(job)
           /\ \A n \in 0..Len(job.text) : w[n] \in WriterType
           /\ \A n \in 1..Len(job.text) :
                WriteStep(job, w[n - 1], job.text[n], w[n])
           /\ w[0] = WriterAt("start", 0, <<>>, <<>>)
           /\ WriteEnd(job, w[Len(job.text)])
           /\ job.blockSize \in Nat \ {0} /\ job.maxRecords \in Nat
<1>1. job.text \in Text
    BY CsvAssumption DEF JobOf, Text
<1>2. Len(job.text) \in Nat
    BY <1>1 DEF Text
<1> QED
    BY <1>1, <1>2, CsvAssumption DEF JobOf, WrittenBy

\* What the writer has, put together and taken apart.
LEMMA WriterAtFields ==
    ASSUME NEW place, NEW row, NEW columns, NEW bytes,
           NEW v, v = WriterAt(place, row, columns, bytes)
    PROVE  /\ v.place = place /\ v.row = row
           /\ v.record = columns /\ v.field = bytes
    BY DEF WriterAt

\* The fields of what the writer has.
LEMMA WriterFields ==
    ASSUME NEW v \in WriterType
    PROVE  /\ v.place \in {"start", "plain", "quoted", "closed", "return",
                           "ended"}
           /\ v.row \in Nat /\ v.record \in Seq(Seq(Byte))
           /\ v.field \in Seq(Byte)
    BY DEF WriterType

\* The character and the byte that the parser is at.
LEMMA ByteRead ==
    ASSUME NEW w, NEW at, JobOf(w, at),
           NEW s, NEW e, NEW p, NEW k, Reading(w, at, s, e, p, k),
           it <= Len(buffer)
    PROVE  /\ p \in Nat /\ p < e /\ p + 1 \in 1..Len(job.text)
           /\ job.text[p + 1] \in DOMAIN Utf8
           /\ Utf8[job.text[p + 1]] \in Seq(Byte)
           /\ Len(Utf8[job.text[p + 1]]) \in Nat \ {0}
           /\ k \in Nat /\ k < Len(Utf8[job.text[p + 1]])
           /\ buffer[it] = Utf8[job.text[p + 1]][k + 1]
           /\ buffer[it] \in Byte
           /\ w[p] \in WriterType /\ w[p + 1] \in WriterType
           /\ WriteStep(job, w[p], job.text[p + 1], w[p + 1])
<1>1. job.text \in Text /\ Offsets(job.text, at) /\ Len(job.text) \in Nat
    BY WriterRuns
<1>2. /\ Covers(job.text, at, s, e, buffer, unread)
      /\ Stands(job.text, at, s, e, p, k, it)
    BY DEF Reading
<1>3. p < e /\ buffer[it] = Utf8[job.text[p + 1]][k + 1]
    BY <1>1, <1>2, ByteThere
<1>4. p \in Nat /\ k \in Nat /\ p + 1 \in 1..Len(job.text)
      /\ p \in 0..Len(job.text) /\ p + 1 \in 0..Len(job.text)
      /\ (p + 1) - 1 = p
    BY <1>1, <1>2, <1>3 DEF Covers, Stands
<1>5. k < Len(Utf8[job.text[p + 1]])
    BY <1>2, <1>3 DEF Stands
<1>6. /\ job.text[p + 1] \in DOMAIN Utf8
      /\ Utf8[job.text[p + 1]] \in Seq(Byte)
      /\ Len(Utf8[job.text[p + 1]]) \in Nat \ {0}
    BY <1>1, <1>4, Characters
<1>7. buffer[it] \in Byte
  <2>1. k + 1 \in 1..Len(Utf8[job.text[p + 1]])
      BY <1>4, <1>5, <1>6
  <2> QED
      BY <1>3, <1>6, <2>1, ElementOfSeq
<1>8. /\ w[p] \in WriterType /\ w[p + 1] \in WriterType
      /\ WriteStep(job, w[p], job.text[p + 1], w[p + 1])
    BY <1>4, WriterRuns
<1> QED
    BY <1>3, <1>4, <1>5, <1>6, <1>7, <1>8

\* A field and k bytes, and one byte more.
LEMMA FieldGrows ==
    ASSUME NEW bytes \in Seq(Byte), NEW c, Utf8[c] \in Seq(Byte),
           NEW k \in Nat, k < Len(Utf8[c])
    PROVE  /\ With(bytes, c, k) \in Seq(Byte)
           /\ Append(With(bytes, c, k), Utf8[c][k + 1]) = With(bytes, c, k + 1)
           /\ With(bytes, c, Len(Utf8[c])) = bytes \o Utf8[c]
<1> DEFINE u == Utf8[c]
<1>1. u \in Seq(Byte) /\ Len(u) \in Nat /\ k < Len(u) /\ u[k + 1] \in Byte
  <2>1. Len(u) \in Nat /\ k + 1 \in 1..Len(u)
      BY LenProperties
  <2> QED
      BY <2>1, ElementOfSeq
<1> HIDE DEF u
<1>2. ASSUME NEW n \in 0..Len(u)
      PROVE  /\ SubSeq(u, 1, n) \in Seq(Byte) /\ Len(SubSeq(u, 1, n)) = n
             /\ \A i \in 1..n : SubSeq(u, 1, n)[i] = u[i]
             /\ With(bytes, c, n) = bytes \o SubSeq(u, 1, n)
  <2>1. \A i \in 1..n : u[i] \in Byte
      BY <1>1, ElementOfSeq
  <2>2. /\ SubSeq(u, 1, n) \in Seq(Byte)
        /\ Len(SubSeq(u, 1, n)) = IF 1 <= n THEN n - 1 + 1 ELSE 0
        /\ \A i \in 1..(n - 1 + 1) : SubSeq(u, 1, n)[i] = u[1 + i - 1]
    <3>1. 1 \in Int /\ n \in Int
        BY <1>1
    <3> QED
        BY <2>1, <3>1, SubSeqProperties
  <2>3. Len(SubSeq(u, 1, n)) = n /\ \A i \in 1..n : SubSeq(u, 1, n)[i] = u[i]
      BY <1>1, <2>2
  <2>4. With(bytes, c, n) = bytes \o SubSeq(u, 1, n)
    <3>1. CASE n = 0
      <4>1. SubSeq(u, 1, n) = <<>>
          BY <3>1, SubSeqEmpty
      <4> QED
          BY <3>1, <4>1, ConcatEmptySeq DEF With
    <3>2. CASE n # 0
        BY <3>2 DEF With, u
    <3> QED
        BY <3>1, <3>2
  <2> QED
      BY <2>2, <2>3, <2>4
<1>3. With(bytes, c, k) \in Seq(Byte)
  <2>1. k \in 0..Len(u)
      BY <1>1
  <2> QED
      BY <1>2, <2>1, ConcatProperties
<1>4. SubSeq(u, 1, k + 1) = SubSeq(u, 1, k) \o <<u[k + 1]>>
  <2>1. 1 \in 1..Len(u) /\ k + 1 \in 1..Len(u) /\ (k + 1) - 1 = k
      BY <1>1
  <2> QED
      BY <1>1, <2>1, SubSeqRecursiveSecond
<1>5. Append(With(bytes, c, k), u[k + 1]) = With(bytes, c, k + 1)
  <2>1. k \in 0..Len(u) /\ k + 1 \in 0..Len(u)
      BY <1>1
  <2>2. <<u[k + 1]>> \in Seq(Byte)
      BY <1>1
  <2>3. Append(With(bytes, c, k), u[k + 1])
        = With(bytes, c, k) \o <<u[k + 1]>>
      BY <1>1, <1>3, AppendIsConcat
  <2>4. With(bytes, c, k) = bytes \o SubSeq(u, 1, k)
        /\ SubSeq(u, 1, k) \in Seq(Byte)
      BY <1>2, <2>1
  <2>5. With(bytes, c, k + 1) = bytes \o (SubSeq(u, 1, k) \o <<u[k + 1]>>)
      BY <1>2, <1>4, <2>1
  <2> QED
      BY <2>2, <2>3, <2>4, <2>5, ConcatAssociative
<1>6. With(bytes, c, Len(u)) = bytes \o u
  <2>1. Len(u) \in 0..Len(u)
      BY <1>1
  <2> QED
      BY <1>1, <1>2, <2>1, SubSeqFull
<1> QED
    BY <1>3, <1>5, <1>6 DEF u

(***************************************************************************)
(* Each step of the writer is read.                                        *)
(***************************************************************************)
\* The separator, the quote and the line ends begin with different bytes.
LEMMA SpecialBytes ==
    ASSUME NEW w, NEW at, JobOf(w, at)
    PROVE  /\ job.separator \in Seq(Byte) /\ job.quote \in Seq(Byte)
           /\ Len(job.separator) \in {1, 2} /\ Len(job.quote) = 1
           /\ CR # LF
           /\ job.separator[1] # CR /\ job.separator[1] # LF
           /\ job.quote[1] # CR /\ job.quote[1] # LF
           /\ job.separator[1] # job.quote[1]
    BY WriterRuns DEF Format

\* A byte of a character is in its range.
LEMMA BytesOf ==
    ASSUME NEW u \in Seq(Byte), NEW x \in 1..Len(u)
    PROVE  u[x] \in Range(u)
    BY LenProperties DEF Range

\* The bytes that are written into a field are read into it, one by one.
LEMMA ReadsInto ==
    ASSUME NEW w, NEW at, JobOf(w, at),
           NEW s, NEW e, NEW p, NEW k, Reading(w, at, s, e, p, k),
           it <= Len(buffer), ParseByte,
           WritesInto(w[p], job.text[p + 1], w[p + 1])
    PROVE  /\ \E q, l : Reading(w, at, s, e, q, l)'
           /\ UNCHANGED <<rows, result>>
<1> DEFINE c == job.text[p + 1]
           v == w[p]
<1>1. /\ p \in Nat /\ p < e /\ p + 1 \in 1..Len(job.text)
      /\ Utf8[c] \in Seq(Byte) /\ Len(Utf8[c]) \in Nat \ {0}
      /\ k \in Nat /\ k < Len(Utf8[c]) /\ buffer[it] = Utf8[c][k + 1]
      /\ v \in WriterType /\ w[p + 1] \in WriterType
    BY ByteRead
<1>2. /\ StateAt(v.place)
      /\ v.place \in {"start", "ended", "plain", "quoted"}
      /\ v.place \in {"start", "ended", "plain"} =>
           Range(Utf8[c]) \cap Special(job) = {}
      /\ v.place = "quoted" => job.quote[1] \notin Range(Utf8[c])
      /\ w[p + 1] = Into(v, IF v.place = "quoted" THEN "quoted" ELSE "plain",
                         c)
    BY DEF Reading, WritesInto, WritesPlain, WritesQuoted
<1>3. buffer[it] \in Range(Utf8[c])
  <2>1. k + 1 \in 1..Len(Utf8[c])
      BY <1>1
  <2> QED
      BY <1>1, <2>1, BytesOf
<1>4. /\ buffer[it] # job.quote[1]
      /\ state # "inQuote" =>
           buffer[it] \notin {job.separator[1], CR, LF}
    BY <1>2, <1>3 DEF StateAt, Special
<1>5. OtherByte(buffer[it]) /\ job' = job
    BY <1>4 DEF ParseByte, Separator, Quote, LineFeed, CarriageReturn
<1>6. /\ field' = Append(field, buffer[it])
      /\ record' = record /\ rows' = rows /\ result' = result
      /\ state' = (IF state = "inQuote" THEN "inQuote" ELSE "normal")
      /\ it' = it + 1 /\ unread' = unread /\ buffer' = buffer
    BY <1>5 DEF OtherByte, AddChar, Next1
<1>7. field' = With(v.field, c, k + 1) /\ v.field \in Seq(Byte)
  <2>1. field = With(v.field, c, k) /\ v.field \in Seq(Byte)
      BY <1>1, WriterFields DEF Reading
  <2> QED
      BY <1>1, <1>6, <2>1, FieldGrows
<1>8. /\ Covers(job.text, at, s, e, buffer, unread)
      /\ Covers(job'.text, at, s, e, buffer', unread')
      /\ Stands(job.text, at, s, e, p, k, it)
      /\ record' = v.record
      /\ FirstRows(v.row)' /\ v.row \in Nat
    BY <1>1, <1>5, <1>6, WriterFields DEF Reading, FirstRows
<1>9. IF k + 1 < Len(Utf8[c])
      THEN Stands(job.text, at, s, e, p, k + 1, it + 1)
      ELSE /\ k + 1 = Len(Utf8[c])
           /\ Stands(job.text, at, s, e, p + 1, 0, it + 1)
    BY <1>1, <1>8, WriterRuns, OneByteOn
<1>10. CASE k + 1 < Len(Utf8[c])
  <2>1. StateAt(v.place)'
      BY <1>2, <1>6 DEF StateAt
  <2>2. WritesInto(v, c, w[p + 1])'
      BY <1>5 DEF WritesInto, WritesPlain, WritesQuoted, Special
  <2>3. Reading(w, at, s, e, p, k + 1)'
      BY <1>5, <1>6, <1>7, <1>8, <1>9, <1>10, <2>1, <2>2 DEF Reading
  <2> QED
      BY <1>6, <2>3
<1>11. CASE ~ (k + 1 < Len(Utf8[c]))
  <2> DEFINE x == w[p + 1]
  <2>1. /\ x.place = IF v.place = "quoted" THEN "quoted" ELSE "plain"
        /\ x.record = v.record /\ x.row = v.row /\ x.field = v.field \o Utf8[c]
    <3> DEFINE place == IF v.place = "quoted" THEN "quoted" ELSE "plain"
    <3> DEFINE bytes == v.field \o Utf8[c]
    <3>1. x = WriterAt(place, v.row, v.record, bytes)
        BY <1>2 DEF Into
    <3> HIDE DEF v, c, place, x, bytes
    <3>2. x.place = place /\ x.record = v.record /\ x.row = v.row
          /\ x.field = bytes
        BY <3>1, WriterAtFields
    <3> QED
        BY <3>2 DEF place, bytes
  <2>2. StateAt(x.place)'
      BY <1>2, <1>6, <2>1 DEF StateAt
  <2>3. field' = x.field
      BY <1>1, <1>7, <1>9, <1>11, <2>1, FieldGrows
  <2> HIDE DEF x
  <2>4. Reading(w, at, s, e, p + 1, 0)'
    <3>1. field' = With(x.field, job'.text[(p + 1) + 1], 0)
        BY <2>3 DEF With
    <3>2. FirstRows(x.row)' /\ record' = x.record
        BY <1>8, <2>1
    <3> QED
        BY <1>5, <1>6, <1>8, <1>9, <1>11, <2>2, <3>1, <3>2 DEF Reading, x
  <2> QED
      BY <1>6, <2>4
<1> QED
    BY <1>10, <1>11

\* A look ahead from a character of one byte, when the next one has one byte
\* too, sees the next character of the text.
LEMMA LooksAtNext ==
    ASSUME NEW w, NEW at, JobOf(w, at),
           NEW s, NEW e, NEW p, Reading(w, at, s, e, p, 0),
           it <= Len(buffer), Len(Utf8[job.text[p + 1]]) = 1,
           p + 1 < Len(job.text) => Len(Utf8[job.text[p + 2]]) = 1
    PROVE  /\ \A expected :
                LookAhead(expected) <=>
                  p + 1 < Len(job.text) /\ Utf8[job.text[p + 2]][1] = expected
           /\ NextAfterLook(0) =>
                \E r : /\ Covers(job.text, at, s, r, buffer', unread')
                       /\ Stands(job.text, at, s, r, p + 1, 0, it')
<1> DEFINE t == job.text
<1>1. t \in Text /\ Offsets(t, at) /\ Len(t) \in Nat
    BY WriterRuns
<1>2. Covers(t, at, s, e, buffer, unread) /\ Stands(t, at, s, e, p, 0, it)
    BY DEF Reading
<1>3. p < e /\ p \in Nat
    BY ByteRead
<1>4. Stands(t, at, s, e, p + 1, 0, it + 1)
  <2>1. Stands(t, at, s, e, p + 1, 0, it + Len(Utf8[t[p + 1]]))
      BY <1>1, <1>2, <1>3, OneCharacterOn
  <2> QED
      BY <2>1
<1>5. /\ it \in 1..Len(buffer) + 1 /\ Len(buffer) \in Nat /\ it + 1 \in Nat
      /\ it + 1 <= Len(buffer) <=> p + 1 < e
      /\ p + 1 < e => buffer[it + 1] = Utf8[t[p + 2]][1]
  <2>1. /\ it + 1 <= Len(buffer) <=> p + 1 < e
        /\ p + 1 < e => buffer[it + 1] = Utf8[t[(p + 1) + 1]][0 + 1]
      BY <1>1, <1>2, <1>4, ByteThere
  <2>2. it \in 1..Len(buffer) + 1
      BY <1>1, <1>2, ByteThere
  <2>3. Len(buffer) \in Nat
      BY <1>2, LenProperties DEF Covers
  <2>4. (p + 1) + 1 = p + 2 /\ 0 + 1 = 1
      BY <1>3
  <2> QED
      BY <2>1, <2>2, <2>3, <2>4
<1>6. /\ s \in Nat /\ e \in Nat /\ e <= Len(t) /\ p + 1 \in s..e
    BY <1>2, <1>4 DEF Covers, Stands
<1>7. CASE LooksBeyond
  <2>1. it = Len(buffer) /\ unread # <<>>
      BY <1>7 DEF LooksBeyond
  <2>2. p + 1 = e
      BY <1>3, <1>5, <1>6, <2>1
  <2>3. /\ e + 1 \in 1..Len(t) /\ Head(unread) = t[e + 1]
        /\ Covers(t, at, s, e + 1, buffer \o Utf8[t[e + 1]], Tail(unread))
        /\ Len(buffer \o Utf8[t[e + 1]]) = Len(buffer) + Len(Utf8[t[e + 1]])
      BY <1>1, <1>2, <2>1, OneCharacterMore
  <2>4. e + 1 = p + 2 /\ p + 1 < Len(t) /\ Len(Utf8[t[e + 1]]) = 1
      BY <1>1, <1>3, <1>6, <2>2, <2>3
  <2>5. /\ LookBuffer = buffer \o Utf8[t[e + 1]]
        /\ Len(LookBuffer) = Len(buffer) + 1 /\ LookIt = it
      BY <1>5, <1>7, <2>1, <2>3, <2>4 DEF LookBuffer, LookIt
  <2>6. Stands(t, at, s, e + 1, p + 1, 0, it + 1)
    <3>1. it + 1 = at[p + 1] - at[s] + 0 + 1
        BY <1>4 DEF Stands
    <3>2. p + 1 \in s..(e + 1) /\ p + 1 < e + 1 /\ (p + 1) + 1 = e + 1
        BY <1>3, <1>6, <2>2
    <3>3. 0 < Len(Utf8[t[(p + 1) + 1]])
      <4>1. (p + 1) + 1 \in 1..Len(t)
          BY <1>3, <2>3, <3>2
      <4> QED
          BY <1>1, <4>1, Characters
    <3> QED
        BY <3>1, <3>2, <3>3 DEF Stands
  <2>7. LookBuffer[it + 1] = Utf8[t[p + 2]][1]
    <3>1. p + 1 < e + 1 /\ (p + 1) + 1 = p + 2 /\ 0 + 1 = 1
        BY <1>3, <1>6, <2>2
    <3>2. LookBuffer[it + 1] = Utf8[t[(p + 1) + 1]][0 + 1]
      <4>1. Covers(t, at, s, e + 1, LookBuffer, Tail(unread))
          BY <2>3, <2>5
      <4> QED
          BY <1>1, <2>6, <3>1, <4>1, ByteThere
    <3> QED
        BY <3>1, <3>2
  <2>8. \A expected :
          LookAhead(expected) <=> p + 1 < Len(t) /\ Utf8[t[p + 2]][1] = expected
    <3>1. LookIt < Len(LookBuffer)
        BY <1>5, <2>1, <2>5
    <3> QED
        BY <2>4, <2>5, <2>7, <3>1 DEF LookAhead
  <2>9. ASSUME NextAfterLook(0)
        PROVE  it' = it + 1 /\ buffer' = LookBuffer /\ unread' = Tail(unread)
    <3>1. it' = LookIt + 0 + 1
        BY <2>9 DEF NextAfterLook
    <3>2. LookIt + 0 + 1 = it + 1
        BY <1>5, <2>5
    <3> QED
        BY <1>7, <2>9, <3>1, <3>2 DEF NextAfterLook
  <2>10. ASSUME NextAfterLook(0)
         PROVE  /\ Covers(t, at, s, e + 1, buffer', unread')
                /\ Stands(t, at, s, e + 1, p + 1, 0, it')
      BY <2>3, <2>5, <2>6, <2>9, <2>10
  <2> QED
      BY <2>8, <2>10
<1>8. CASE ~ LooksBeyond
  <2>1. LookBuffer = buffer /\ LookIt = it
      BY <1>8 DEF LookBuffer, LookIt
  <2>2. it < Len(buffer) <=> p + 1 < e
      BY <1>5
  <2>3. ASSUME ~ (p + 1 < e) PROVE ~ (p + 1 < Len(t))
    <3>1. p + 1 = e /\ it = Len(buffer)
        BY <1>3, <1>5, <1>6, <2>2, <2>3
    <3>2. unread = <<>>
        BY <1>8, <3>1 DEF LooksBeyond
    <3>3. e = Len(t)
        BY <1>1, <1>2, <3>2, AllCovered
    <3> QED
        BY <1>1, <1>6, <3>1, <3>3
  <2>4. p + 1 < e => p + 1 < Len(t)
      BY <1>1, <1>3, <1>6
  <2>5. \A expected :
          LookAhead(expected) <=> p + 1 < Len(t) /\ Utf8[t[p + 2]][1] = expected
      BY <1>5, <2>1, <2>2, <2>3, <2>4 DEF LookAhead
  <2>6. ASSUME NextAfterLook(0)
        PROVE  it' = it + 1 /\ buffer' = buffer /\ unread' = unread
    <3>1. it' = LookIt + 0 + 1
        BY <2>6 DEF NextAfterLook
    <3>2. LookIt + 0 + 1 = it + 1
        BY <1>5, <2>1
    <3> QED
        BY <1>8, <2>1, <2>6, <3>1, <3>2 DEF NextAfterLook
  <2>7. ASSUME NextAfterLook(0)
        PROVE  /\ Covers(t, at, s, e, buffer', unread')
               /\ Stands(t, at, s, e, p + 1, 0, it')
      BY <1>2, <1>4, <2>6, <2>7
  <2> QED
      BY <2>5, <2>7
<1> QED
    BY <1>7, <1>8

\* Behind the character, whatever was done with it.
LEMMA ArrivesBehind ==
    ASSUME NEW w, NEW at, NEW s, NEW r, NEW p, NEW x, x = w[p + 1],
           job' = job,
           Covers(job.text, at, s, r, buffer', unread'),
           Stands(job.text, at, s, r, p + 1, 0, it'),
           record' = x.record, field' = x.field,
           StateAt(x.place)', FirstRows(x.row)'
    PROVE  \E u, q, l : Reading(w, at, s, u, q, l)'
<1>1. field' = With(x.field, job'.text[(p + 1) + 1], 0)
    BY DEF With
<1>2. Reading(w, at, s, r, p + 1, 0)'
    BY <1>1 DEF Reading
<1> QED
    BY <1>2

\* A row that ends in the file is the next one of the job.
LEMMA RowEnds ==
    ASSUME NEW w, NEW at, JobOf(w, at),
           NEW s, NEW e, NEW p, Reading(w, at, s, e, p, 0),
           w[p] \in WriterType,
           NEW place, NEW x, EndsRow(job, w[p], place, x),
           AddRow(AfterRow), job' = job
    PROVE  /\ record' = x.record /\ field' = x.field
           /\ FirstRows(x.row)'
           /\ result' \in {"none", "success", "error"}
           /\ result' = "success" => Len(rows') = job.maxRecords
<1> DEFINE v == w[p]
<1>1. /\ v.row < Len(job.rows)
      /\ job.rows[v.row + 1] = Append(v.record, ColumnOf(job, v.field))
      /\ x.row = v.row + 1 /\ x.record = <<>> /\ x.field = <<>>
  <2>1. x = WriterAt(place, v.row + 1, <<>>, <<>>)
      BY DEF EndsRow
  <2>2. x.row = v.row + 1 /\ x.record = <<>> /\ x.field = <<>>
      BY <2>1, WriterAtFields
  <2> QED
      BY <2>2 DEF EndsRow
<1>2. record = v.record /\ field = v.field /\ FirstRows(v.row)
    BY DEF Reading, With
<1>3. Append(record, Column) = job.rows[v.row + 1]
    BY <1>1, <1>2 DEF Column, ColumnOf
<1>4. /\ rows' = Append(rows, job.rows[v.row + 1])
      /\ record' = <<>> /\ field' = <<>> /\ result' \in {AfterRow, "error"}
    BY <1>3 DEF AddRow
<1> DEFINE n == v.row
           last == job.rows[n + 1]
<1>5. /\ rows \in Seq(Seq(Seq(Byte))) /\ n \in Nat /\ Len(rows) = n
      /\ \A i \in 1..n : rows[i] = job.rows[i]
    BY <1>2 DEF FirstRows
<1>6. last \in Seq(Seq(Byte)) /\ n + 1 <= Len(job.rows)
  <2>1. job.rows \in Seq(Seq(Seq(Byte)))
      BY WriterRuns DEF Format
  <2>2. n + 1 \in 1..Len(job.rows)
      BY <1>1, <1>5, <2>1, LenProperties
  <2> QED
      BY <2>1, <2>2, ElementOfSeq
<1>7. /\ rows' \in Seq(Seq(Seq(Byte))) /\ Len(rows') = n + 1
      /\ \A i \in 1..n : rows'[i] = rows[i]
      /\ rows'[n + 1] = last
  <2> HIDE DEF n, last
  <2> QED
      BY <1>4, <1>5, <1>6, AppendProperties DEF n, last
<1>8. FirstRows(n + 1)'
  <2>1. ASSUME NEW i \in 1..(n + 1) PROVE rows'[i] = job.rows[i]
    <3>1. CASE i = n + 1
        BY <1>7, <3>1
    <3>2. CASE i # n + 1
      <4>1. i \in 1..n
          BY <1>5, <3>2
      <4> QED
          BY <1>5, <1>7, <4>1
    <3> QED
        BY <3>1, <3>2
  <2> QED
      BY <1>5, <1>6, <1>7, <2>1 DEF FirstRows
<1>9. /\ result' \in {"none", "success", "error"}
      /\ result' = "success" => Len(rows') = job.maxRecords
    BY <1>4, <1>5, <1>7 DEF AfterRow
<1> QED
    BY <1>1, <1>4, <1>8, <1>9

\* A quote opens or closes a field, or stands for itself.
LEMMA ReadsQuote ==
    ASSUME NEW w, NEW at, JobOf(w, at),
           NEW s, NEW e, NEW p, Reading(w, at, s, e, p, 0),
           it <= Len(buffer), ParseByte,
           NEW c, c = job.text[p + 1], NEW x, x = w[p + 1],
           \/ OpensQuote(job, w[p], c, x) \/ ClosesQuote(job, w[p], c, x)
           \/ DoublesQuote(job, w[p], c, x)
    PROVE  /\ \E u, q, l : Reading(w, at, s, u, q, l)'
           /\ UNCHANGED <<rows, result>>
<1> DEFINE v == w[p]
<1>1. /\ p \in Nat /\ p < e /\ buffer[it] = Utf8[c][1] /\ v \in WriterType
      /\ 0 + 1 = 1
    BY ByteRead
<1>2. Utf8[c] = job.quote /\ Len(Utf8[c]) = 1 /\ buffer[it] = job.quote[1]
    BY <1>1, SpecialBytes DEF OpensQuote, ClosesQuote, DoublesQuote
<1>3. Quote(buffer[it]) /\ job' = job
  <2>1. /\ ~ Separator(buffer[it]) /\ ~ LineFeed(buffer[it])
        /\ ~ CarriageReturn(buffer[it]) /\ ~ OtherByte(buffer[it])
      BY <1>2, SpecialBytes
         DEF Separator, LineFeed, CarriageReturn, OtherByte
  <2> QED
      BY <2>1 DEF ParseByte
<1>4. /\ state' = (IF state = "inQuote" THEN "endQuote" ELSE "inQuote")
      /\ IF state = "endQuote" THEN AddChar(buffer[it]) ELSE NoOutput
      /\ it' = it + 1 /\ unread' = unread /\ buffer' = buffer
  <2>1. Len(job.quote) = 1 /\ ~ (Len(job.quote) > 1)
    <3>1. Len(job.quote) = 1
        BY SpecialBytes
    <3> QED
        BY <3>1
  <2> QED
      BY <1>3, <2>1 DEF Quote, Matches, NextAfter, Next1
<1>5. /\ Covers(job.text, at, s, e, buffer', unread')
      /\ Stands(job.text, at, s, e, p + 1, 0, it')
  <2>1. /\ Covers(job.text, at, s, e, buffer, unread)
        /\ Stands(job.text, at, s, e, p, 0, it)
      BY DEF Reading
  <2>2. Stands(job.text, at, s, e, p + 1, 0, it + Len(Utf8[c]))
      BY <1>1, <2>1, WriterRuns, OneCharacterOn
  <2> QED
      BY <1>2, <1>4, <2>1, <2>2
<1>6. /\ StateAt(v.place) /\ FirstRows(v.row)
      /\ record = v.record /\ field = v.field /\ v.field \in Seq(Byte)
    BY <1>1, WriterFields DEF Reading, With
<1>7. rows' = rows /\ result' = result /\ FirstRows(v.row)' /\ record' = record
    BY <1>3, <1>4, <1>6 DEF AddChar, NoOutput, FirstRows
<1>8. CASE OpensQuote(job, v, c, x)
  <2>1. v.place \in {"start", "ended"} /\ x = WriterAt("quoted", v.row, v.record, v.field)
      BY <1>8 DEF OpensQuote, Goes
  <2>2. x.place = "quoted" /\ x.row = v.row /\ x.record = v.record /\ x.field = v.field
      BY <2>1, WriterAtFields
  <2>3. state' = "inQuote" /\ field' = field
      BY <1>4, <1>6, <2>1 DEF StateAt, NoOutput
  <2>4. StateAt(x.place)'
      BY <2>2, <2>3 DEF StateAt
  <2> QED
      BY <1>3, <1>5, <1>6, <1>7, <2>2, <2>3, <2>4, ArrivesBehind
<1>9. CASE ClosesQuote(job, v, c, x)
  <2>1. v.place = "quoted" /\ x = WriterAt("closed", v.row, v.record, v.field)
      BY <1>9 DEF ClosesQuote, Goes
  <2>2. x.place = "closed" /\ x.row = v.row /\ x.record = v.record /\ x.field = v.field
      BY <2>1, WriterAtFields
  <2>3. state' = "endQuote" /\ field' = field
      BY <1>4, <1>6, <2>1 DEF StateAt, NoOutput
  <2>4. StateAt(x.place)'
      BY <2>2, <2>3 DEF StateAt
  <2> QED
      BY <1>3, <1>5, <1>6, <1>7, <2>2, <2>3, <2>4, ArrivesBehind
<1>10. CASE DoublesQuote(job, v, c, x)
  <2> DEFINE bytes == v.field \o Utf8[c]
  <2>1. v.place = "closed" /\ x = WriterAt("quoted", v.row, v.record, bytes)
      BY <1>10 DEF DoublesQuote, Into
  <2>2. x.place = "quoted" /\ x.row = v.row /\ x.record = v.record /\ x.field = bytes
    <3> HIDE DEF bytes
    <3> QED
        BY <2>1, WriterAtFields
  <2>3. state' = "inQuote" /\ field' = Append(field, buffer[it])
      BY <1>4, <1>6, <2>1 DEF StateAt, AddChar
  <2>4. StateAt(x.place)'
      BY <2>2, <2>3 DEF StateAt
  <2>5. Append(field, buffer[it]) = bytes
    <3>1. /\ Append(With(v.field, c, 0), Utf8[c][0 + 1]) = With(v.field, c, 0 + 1)
          /\ With(v.field, c, Len(Utf8[c])) = v.field \o Utf8[c]
      <4>1. Utf8[c] \in Seq(Byte) /\ 0 \in Nat /\ 0 < Len(Utf8[c])
          BY <1>2, SpecialBytes
      <4> QED
          BY <1>6, <4>1, FieldGrows
    <3>2. With(v.field, c, 0) = v.field
        BY DEF With
    <3> QED
        BY <1>1, <1>2, <1>6, <3>1, <3>2
  <2> HIDE DEF bytes
  <2> QED
      BY <1>3, <1>5, <1>6, <1>7, <2>2, <2>3, <2>4, <2>5, ArrivesBehind
<1> QED
    BY <1>7, <1>8, <1>9, <1>10

\* A separator ends the field.
LEMMA ReadsSeparator ==
    ASSUME NEW w, NEW at, JobOf(w, at),
           NEW s, NEW e, NEW p, Reading(w, at, s, e, p, 0),
           it <= Len(buffer), ParseByte,
           NEW c, c = job.text[p + 1], NEW x, x = w[p + 1],
           EndsField(job, w[p], c, x)
    PROVE  /\ \E u, q, l : Reading(w, at, s, u, q, l)'
           /\ UNCHANGED <<rows, result>>
<1> DEFINE v == w[p]
<1>1. /\ p \in Nat /\ p < e /\ buffer[it] = Utf8[c][1] /\ v \in WriterType
      /\ 0 + 1 = 1
    BY ByteRead
<1>2. /\ v.place \in {"start", "ended", "plain", "closed"}
      /\ Utf8[c] = job.separator /\ buffer[it] = job.separator[1]
    BY <1>1 DEF EndsField
<1>3. /\ StateAt(v.place) /\ FirstRows(v.row) /\ state # "inQuote"
      /\ record = v.record /\ field = v.field /\ v.field \in Seq(Byte)
    BY <1>1, <1>2, WriterFields DEF Reading, With, StateAt
<1>4. Separator(buffer[it]) /\ job' = job
  <2>1. /\ ~ Quote(buffer[it]) /\ ~ LineFeed(buffer[it])
        /\ ~ CarriageReturn(buffer[it]) /\ ~ OtherByte(buffer[it])
      BY <1>2, <1>3, SpecialBytes
         DEF Quote, LineFeed, CarriageReturn, OtherByte
  <2> QED
      BY <2>1 DEF ParseByte
<1>5. /\ Covers(job.text, at, s, e, buffer, unread)
      /\ Stands(job.text, at, s, e, p + 1, 0, it + Len(job.separator))
      /\ it + Len(job.separator) <= Len(buffer) + 1
      /\ \A y \in 1..Len(job.separator) : buffer[it + y - 1] = job.separator[y]
      /\ it \in Nat \ {0} /\ Len(buffer) \in Nat
  <2>1. /\ Covers(job.text, at, s, e, buffer, unread)
        /\ Stands(job.text, at, s, e, p, 0, it)
      BY DEF Reading
  <2>2. it \in 1..Len(buffer) + 1 /\ Len(buffer) \in Nat
      BY <2>1, WriterRuns, ByteThere, LenProperties DEF Covers
  <2>3. /\ Stands(job.text, at, s, e, p + 1, 0, it + Len(Utf8[c]))
        /\ it + Len(Utf8[c]) <= Len(buffer) + 1
        /\ \A y \in 1..Len(Utf8[c]) : buffer[it + y - 1] = Utf8[c][y]
      BY <1>1, <2>1, WriterRuns, OneCharacterOn
  <2> QED
      BY <1>2, <2>1, <2>2, <2>3
<1>6. /\ Matches(job.separator)
      /\ NextAfter(job.separator) =>
           /\ it' = it + Len(job.separator)
           /\ buffer' = buffer /\ unread' = unread
  <2>1. CASE Len(job.separator) = 1
      BY <2>1 DEF Matches, NextAfter, Next1
  <2>2. CASE Len(job.separator) = 2
    <3>1. it < Len(buffer) /\ buffer[it + 1] = job.separator[2]
      <4>1. 2 \in 1..Len(job.separator) /\ it + 2 - 1 = it + 1
          BY <1>5, <2>2
      <4> QED
          BY <1>5, <2>2, <4>1
    <3>2. ~ LooksBeyond
        BY <1>5, <3>1 DEF LooksBeyond
    <3>3. LookBuffer = buffer /\ LookIt = it
        BY <3>2 DEF LookBuffer, LookIt
    <3>4. LookAhead(job.separator[2])
        BY <3>1, <3>3 DEF LookAhead
    <3>5. ASSUME NextAfter(job.separator)
          PROVE  /\ it' = it + Len(job.separator)
                 /\ buffer' = buffer /\ unread' = unread
      <4>1. NextAfterLook(Len(job.separator) - 1)
          BY <2>2, <3>5 DEF NextAfter
      <4>2. /\ it' = it + (Len(job.separator) - 1) + 1
            /\ buffer' = buffer /\ unread' = unread
          BY <3>2, <3>3, <4>1 DEF NextAfterLook
      <4> QED
          BY <1>5, <2>2, <4>2
    <3> QED
        BY <3>4, <3>5 DEF Matches
  <2> QED
      BY <2>1, <2>2, SpecialBytes
<1>7. /\ AddColumn /\ state' = "normal"
      /\ it' = it + Len(job.separator) /\ buffer' = buffer /\ unread' = unread
    BY <1>4, <1>6 DEF Separator
<1>8. /\ x.place = "start" /\ x.row = v.row /\ x.field = <<>>
      /\ x.record = Append(v.record, ColumnOf(job, v.field))
  <2> DEFINE columns == Append(v.record, ColumnOf(job, v.field))
  <2>1. x = WriterAt("start", v.row, columns, <<>>)
      BY DEF EndsField
  <2> HIDE DEF columns
  <2>2. x.place = "start" /\ x.row = v.row /\ x.field = <<>> /\ x.record = columns
      BY <2>1, WriterAtFields
  <2> QED
      BY <2>2 DEF columns
<1>9. /\ record' = x.record /\ field' = x.field
      /\ rows' = rows /\ result' = result
    BY <1>3, <1>7, <1>8 DEF AddColumn, Column, ColumnOf
<1>10. StateAt(x.place)' /\ FirstRows(x.row)'
    BY <1>3, <1>4, <1>7, <1>8, <1>9 DEF StateAt, FirstRows
<1>11. /\ Covers(job.text, at, s, e, buffer', unread')
       /\ Stands(job.text, at, s, e, p + 1, 0, it')
    BY <1>5, <1>7
<1> QED
    BY <1>4, <1>9, <1>10, <1>11, ArrivesBehind

\* A line feed ends the row.
LEMMA ReadsLineFeed ==
    ASSUME NEW w, NEW at, JobOf(w, at),
           NEW s, NEW e, NEW p, Reading(w, at, s, e, p, 0),
           it <= Len(buffer), ParseByte,
           NEW c, c = job.text[p + 1], NEW x, x = w[p + 1],
           WritesLineFeed(job, w[p], c, x)
    PROVE  /\ \E u, q, l : Reading(w, at, s, u, q, l)'
           /\ result' \in {"none", "success", "error"}
           /\ result' = "success" => Len(rows') = job.maxRecords
<1> DEFINE v == w[p]
<1>1. /\ p \in Nat /\ p < e /\ buffer[it] = Utf8[c][1] /\ v \in WriterType
      /\ 0 + 1 = 1
    BY ByteRead
<1>2. /\ v.place \in {"start", "plain", "closed", "return"}
      /\ Utf8[c] = <<LF>> /\ Len(Utf8[c]) = 1 /\ buffer[it] = LF
      /\ EndsRow(job, v, "start", x)
    BY <1>1 DEF WritesLineFeed
<1>3. StateAt(v.place) /\ state # "inQuote"
    BY <1>2 DEF Reading, StateAt
<1>4. LineFeed(buffer[it]) /\ job' = job
  <2>1. /\ ~ Quote(buffer[it]) /\ ~ Separator(buffer[it])
        /\ ~ CarriageReturn(buffer[it]) /\ ~ OtherByte(buffer[it])
      BY <1>2, <1>3, SpecialBytes
         DEF Quote, Separator, CarriageReturn, OtherByte
  <2> QED
      BY <2>1 DEF ParseByte
<1>5. /\ AddRow(AfterRow) /\ state' = "normal"
      /\ it' = it + 1 /\ unread' = unread /\ buffer' = buffer
    BY <1>4 DEF LineFeed, Next1
<1>6. /\ record' = x.record /\ field' = x.field /\ x.place = "start"
      /\ FirstRows(x.row)'
      /\ result' \in {"none", "success", "error"}
      /\ result' = "success" => Len(rows') = job.maxRecords
  <2>1. v \in WriterType /\ EndsRow(job, v, "start", x) /\ job' = job
        /\ AddRow(AfterRow)
      BY <1>1, <1>2, <1>4, <1>5
  <2>2. record' = x.record /\ field' = x.field
      BY <2>1, RowEnds
  <2>3. FirstRows(x.row)'
      BY <2>1, RowEnds
  <2>4. result' \in {"none", "success", "error"}
      BY <2>1, RowEnds
  <2>5. result' = "success" => Len(rows') = job.maxRecords
      BY <2>1, RowEnds
  <2>6. x.place = "start"
      BY <2>1, WriterAtFields DEF EndsRow
  <2> QED
      BY <2>2, <2>3, <2>4, <2>5, <2>6
<1>7. /\ Covers(job.text, at, s, e, buffer', unread')
      /\ Stands(job.text, at, s, e, p + 1, 0, it')
  <2>1. /\ Covers(job.text, at, s, e, buffer, unread)
        /\ Stands(job.text, at, s, e, p, 0, it)
      BY DEF Reading
  <2>2. Stands(job.text, at, s, e, p + 1, 0, it + Len(Utf8[c]))
      BY <1>1, <2>1, WriterRuns, OneCharacterOn
  <2> QED
      BY <1>2, <1>5, <2>1, <2>2
<1>8. StateAt(x.place)'
    BY <1>5, <1>6 DEF StateAt
<1> QED
    BY <1>4, <1>6, <1>7, <1>8, ArrivesBehind

\* What the writer may put behind a carriage return.
LEMMA AfterReturn ==
    ASSUME NEW w, NEW at, JobOf(w, at), NEW n \in 0..Len(job.text)
    PROVE  /\ w[n].place = "return" =>
                n < Len(job.text) /\ Utf8[job.text[n + 1]] = <<LF>>
           /\ w[n].place = "ended" /\ n < Len(job.text) =>
                /\ Len(Utf8[job.text[n + 1]]) = 1
                /\ Utf8[job.text[n + 1]][1] # LF
<1> DEFINE v == w[n]
           c == job.text[n + 1]
           x == w[n + 1]
<1>1. Len(job.text) \in Nat /\ n \in Nat
    BY WriterRuns
<1>2. ASSUME n < Len(job.text)
      PROVE  /\ WriteStep(job, v, c, x)
             /\ Utf8[c] \in Seq(Byte) /\ Len(Utf8[c]) \in Nat \ {0}
  <2>1. n + 1 \in 1..Len(job.text) /\ (n + 1) - 1 = n
      BY <1>1, <1>2
  <2> QED
      BY <2>1, WriterRuns, Characters
<1>3. ASSUME v.place = "return"
      PROVE  n < Len(job.text) /\ Utf8[c] = <<LF>>
  <2>1. n < Len(job.text)
    <3>1. WriteEnd(job, w[Len(job.text)])
        BY WriterRuns
    <3>2. w[Len(job.text)].place # "return"
        BY <3>1 DEF WriteEnd
    <3>3. n # Len(job.text)
        BY <1>3, <3>2
    <3> QED
        BY <1>1, <3>3
  <2>2. WriteStep(job, v, c, x)
      BY <1>2, <2>1
  <2>3. WritesLineFeed(job, v, c, x)
      BY <1>3, <2>2
         DEF WriteStep, WritesPlain, OpensQuote, WritesQuoted, ClosesQuote,
             DoublesQuote, EndsField, WritesReturn, WritesOldLineEnd
  <2> QED
      BY <2>1, <2>3 DEF WritesLineFeed
<1>4. ASSUME v.place = "ended", n < Len(job.text)
      PROVE  Len(Utf8[c]) = 1 /\ Utf8[c][1] # LF
  <2>1. WriteStep(job, v, c, x) /\ Utf8[c] \in Seq(Byte)
      BY <1>2, <1>4
  <2>2. Len(Utf8[c]) = 1
      BY <1>4, <2>1 DEF WriteStep
  <2>3. \/ WritesPlain(job, v, c, x) \/ OpensQuote(job, v, c, x)
        \/ EndsField(job, v, c, x) \/ WritesReturn(job, v, c, x)
        \/ WritesOldLineEnd(job, v, c, x)
      BY <1>4, <2>1
         DEF WriteStep, WritesQuoted, ClosesQuote, DoublesQuote,
             WritesLineFeed
  <2>4. CASE WritesPlain(job, v, c, x)
    <3>1. Utf8[c][1] \in Range(Utf8[c])
        BY <2>1, <2>2, BytesOf
    <3> QED
        BY <2>2, <2>4, <3>1 DEF WritesPlain, Special
  <2>5. CASE OpensQuote(job, v, c, x)
      BY <2>2, <2>5, SpecialBytes DEF OpensQuote
  <2>6. CASE EndsField(job, v, c, x)
      BY <2>2, <2>6, SpecialBytes DEF EndsField
  <2>7. CASE WritesReturn(job, v, c, x) \/ WritesOldLineEnd(job, v, c, x)
    <3>1. Utf8[c] = <<CR>>
        BY <2>7 DEF WritesReturn, WritesOldLineEnd
    <3> QED
        BY <2>2, <3>1, SpecialBytes
  <2> QED
      BY <2>3, <2>4, <2>5, <2>6, <2>7
<1> QED
    BY <1>3, <1>4

\* A carriage return is the first half of a line end, or all of it.
LEMMA ReadsReturn ==
    ASSUME NEW w, NEW at, JobOf(w, at),
           NEW s, NEW e, NEW p, Reading(w, at, s, e, p, 0),
           it <= Len(buffer), ParseByte,
           NEW c, c = job.text[p + 1], NEW x, x = w[p + 1],
           WritesReturn(job, w[p], c, x) \/ WritesOldLineEnd(job, w[p], c, x)
    PROVE  /\ \E u, q, l : Reading(w, at, s, u, q, l)'
           /\ result' \in {result, "none", "success", "error"}
           /\ result' = "success" /\ result = "none" =>
                Len(rows') = job.maxRecords
<1> DEFINE v == w[p]
<1>1. /\ p \in Nat /\ p < e /\ buffer[it] = Utf8[c][1] /\ v \in WriterType
      /\ 0 + 1 = 1 /\ p + 1 \in 1..Len(job.text)
    BY ByteRead
<1>2. /\ v.place \in {"start", "ended", "plain", "closed"}
      /\ Utf8[c] = <<CR>> /\ Len(Utf8[c]) = 1 /\ buffer[it] = CR
  <2>1. /\ v.place \in {"start", "ended", "plain", "closed"}
        /\ Utf8[c] = <<CR>>
      BY DEF WritesReturn, WritesOldLineEnd
  <2>2. Len(Utf8[c]) = 1 /\ Utf8[c][1] = CR
      BY <2>1
  <2> QED
      BY <1>1, <2>1, <2>2
<1>3. /\ StateAt(v.place) /\ FirstRows(v.row) /\ state # "inQuote"
      /\ record = v.record /\ field = v.field
    BY <1>2 DEF Reading, With, StateAt
<1>4. CarriageReturn(buffer[it]) /\ job' = job
  <2>1. /\ ~ Quote(buffer[it]) /\ ~ Separator(buffer[it])
        /\ ~ LineFeed(buffer[it]) /\ ~ OtherByte(buffer[it])
      BY <1>2, <1>3, SpecialBytes
         DEF Quote, Separator, LineFeed, OtherByte
  <2> QED
      BY <2>1 DEF ParseByte
<1>5. /\ IF LookAhead(LF) THEN NoOutput ELSE AddRow(AfterRow)
      /\ NextAfterLook(0) /\ state' = state
    BY <1>2, <1>4 DEF CarriageReturn
<1>6. p + 1 \in 0..Len(job.text) /\ (p + 1) + 1 = p + 2
    BY <1>1, WriterRuns
<1>7. CASE WritesReturn(job, v, c, x)
  <2>1. x = WriterAt("return", v.row, v.record, v.field)
      BY <1>7 DEF WritesReturn, Goes
  <2>2. x.place = "return" /\ x.row = v.row /\ x.record = v.record /\ x.field = v.field
      BY <2>1, WriterAtFields
  <2>3. p + 1 < Len(job.text) /\ Utf8[job.text[p + 2]] = <<LF>>
    <3>1. p + 1 < Len(job.text) /\ Utf8[job.text[(p + 1) + 1]] = <<LF>>
        BY <1>6, <2>2, AfterReturn
    <3> QED
        BY <1>6, <3>1
  <2>4. Len(Utf8[job.text[p + 2]]) = 1 /\ Utf8[job.text[p + 2]][1] = LF
      BY <2>3
  <2>5. /\ LookAhead(LF)
        /\ \E r : /\ Covers(job.text, at, s, r, buffer', unread')
                  /\ Stands(job.text, at, s, r, p + 1, 0, it')
      BY <1>2, <1>5, <2>3, <2>4, LooksAtNext
  <2>6. /\ record' = x.record /\ field' = x.field
        /\ rows' = rows /\ result' = result
      BY <1>3, <1>5, <2>2, <2>5 DEF NoOutput
  <2>7. StateAt(x.place)' /\ FirstRows(x.row)'
      BY <1>3, <1>4, <1>5, <2>2, <2>6 DEF StateAt, FirstRows
  <2> QED
      BY <1>4, <2>5, <2>6, <2>7, ArrivesBehind
<1>8. CASE WritesOldLineEnd(job, v, c, x)
  <2>1. EndsRow(job, v, "ended", x) /\ v.place \in {"start", "ended", "plain"}
      BY <1>8 DEF WritesOldLineEnd
  <2>2. x.place = "ended"
      BY <2>1, WriterAtFields DEF EndsRow
  <2>3. p + 1 < Len(job.text) =>
          Len(Utf8[job.text[p + 2]]) = 1 /\ Utf8[job.text[p + 2]][1] # LF
    <3>1. p + 1 < Len(job.text) =>
            /\ Len(Utf8[job.text[(p + 1) + 1]]) = 1
            /\ Utf8[job.text[(p + 1) + 1]][1] # LF
        BY <1>6, <2>2, AfterReturn
    <3> QED
        BY <1>6, <3>1
  <2>4. /\ ~ LookAhead(LF)
        /\ \E r : /\ Covers(job.text, at, s, r, buffer', unread')
                  /\ Stands(job.text, at, s, r, p + 1, 0, it')
      BY <1>2, <1>5, <2>3, LooksAtNext
  <2>5. v \in WriterType /\ EndsRow(job, v, "ended", x) /\ job' = job
        /\ AddRow(AfterRow)
      BY <1>1, <1>4, <1>5, <2>1, <2>4
  <2>6. record' = x.record /\ field' = x.field
      BY <2>5, RowEnds
  <2>7. FirstRows(x.row)'
      BY <2>5, RowEnds
  <2>8. result' \in {"none", "success", "error"}
      BY <2>5, RowEnds
  <2>9. result' = "success" => Len(rows') = job.maxRecords
      BY <2>5, RowEnds
  <2>10. StateAt(x.place)'
      BY <1>3, <1>5, <2>1, <2>2 DEF StateAt
  <2>11. \E u, q, l : Reading(w, at, s, u, q, l)'
      BY <1>4, <2>4, <2>6, <2>7, <2>10, ArrivesBehind
  <2> QED
      BY <2>8, <2>9, <2>11
<1> QED
    BY <1>7, <1>8

\* The parser follows the writer byte by byte.
LEMMA FollowsWriter ==
    ASSUME NEW w, NEW at, JobOf(w, at),
           NEW s, NEW e, NEW p, NEW k, Reading(w, at, s, e, p, k), ParseByte
    PROVE  /\ job' = job
           /\ \E r, u, q, l : Reading(w, at, r, u, q, l)'
           /\ result' \in {"none", "success", "error"}
           /\ result' = "success" => Len(rows') = job.maxRecords
<1> DEFINE v == w[p]
           c == job.text[p + 1]
           x == w[p + 1]
<1>1. job' = job /\ it <= Len(buffer) /\ result = "none"
    BY DEF ParseByte
<1>2. WriteStep(job, v, c, x) /\ k \in Nat
    BY <1>1, ByteRead
<1>3. CASE WritesInto(v, c, x)
    BY <1>1, <1>3, ReadsInto
<1>4. CASE ~ WritesInto(v, c, x)
  <2>1. k = 0
      BY <1>2, <1>4 DEF Reading
  <2>2. Reading(w, at, s, e, p, 0)
      BY <2>1
  <2>3. \/ OpensQuote(job, v, c, x) \/ ClosesQuote(job, v, c, x)
        \/ DoublesQuote(job, v, c, x) \/ EndsField(job, v, c, x)
        \/ WritesLineFeed(job, v, c, x) \/ WritesReturn(job, v, c, x)
        \/ WritesOldLineEnd(job, v, c, x)
      BY <1>2, <1>4 DEF WriteStep, WritesInto
  <2>4. CASE \/ OpensQuote(job, v, c, x) \/ ClosesQuote(job, v, c, x)
             \/ DoublesQuote(job, v, c, x)
      BY <1>1, <2>2, <2>4, ReadsQuote
  <2>5. CASE EndsField(job, v, c, x)
      BY <1>1, <2>2, <2>5, ReadsSeparator
  <2>6. CASE WritesLineFeed(job, v, c, x)
      BY <1>1, <2>2, <2>6, ReadsLineFeed
  <2>7. CASE WritesReturn(job, v, c, x) \/ WritesOldLineEnd(job, v, c, x)
      BY <1>1, <2>2, <2>7, ReadsReturn
  <2> QED
      BY <2>3, <2>4, <2>5, <2>6, <2>7
<1> QED
    BY <1>3, <1>4

(***************************************************************************)
(* The invariant of the parser.                                            *)
(***************************************************************************)
\* While the parser follows the writer, the rows are right.
LEMMA FirstRowsAreWritten ==
    ASSUME NEW n, FirstRows(n), job.rows \in Seq(Seq(Seq(Byte)))
    PROVE  RowsAsWritten
<1>1. /\ Len(job.rows) \in Nat /\ Len(rows) \in Nat /\ Len(rows) <= Len(job.rows)
      /\ \A i \in 1..Len(rows) : rows[i] = job.rows[i]
    BY LenProperties DEF FirstRows
<1>2. Len(rows) <= Len(job.rows) + (IF job.open THEN 1 ELSE 0)
  <2>1. CASE job.open
      BY <1>1, <2>1
  <2>2. CASE ~ job.open
      BY <1>1, <2>2
  <2> QED
      BY <2>1, <2>2
<1> QED
    BY <1>1, <1>2 DEF RowsAsWritten

\* At the start the parser is where the writer was before it wrote anything.
LEMMA ReadingStarts ==
    ASSUME Init, NEW w, WrittenBy(job, w)
    PROVE  \E at : ReadingInv(w, at)
<1> DEFINE t == job.text
<1>1. t \in Text /\ job \in Jobs
    BY CsvAssumption DEF Init, Text
<1>2. PICK at : Offsets(t, at)
    BY <1>1, OffsetsExist
<1>3. JobOf(w, at)
    BY <1>1, <1>2 DEF JobOf
<1>4. Len(t) \in Nat /\ w[0] = WriterAt("start", 0, <<>>, <<>>)
    BY <1>3, WriterRuns
<1>5. w[0].place = "start" /\ w[0].row = 0 /\ w[0].record = <<>> /\ w[0].field = <<>>
    BY <1>4, WriterAtFields
<1>6. Covers(t, at, 0, 0, buffer, unread)
  <2>1. unread = SubSeq(t, 0 + 1, Len(t))
      BY <1>1, SubSeqFull DEF Init, Text
  <2>2. buffer \in Seq(Byte) /\ Len(buffer) = at[0] - at[0]
      BY <1>2, EmptySeq DEF Init, Offsets
  <2> QED
      BY <1>4, <2>1, <2>2 DEF Covers
<1>7. Stands(t, at, 0, 0, 0, 0, it)
  <2>1. it = at[0] - at[0] + 0 + 1
      BY <1>2 DEF Init, Offsets
  <2> QED
      BY <2>1 DEF Stands
<1>8. job.rows \in Seq(Seq(Seq(Byte))) /\ Len(job.rows) \in Nat
      /\ job.open \in BOOLEAN
    BY <1>3, WriterRuns, LenProperties DEF Format
<1>9. StateAt(w[0].place) /\ FirstRows(w[0].row)
  <2>1. StateAt(w[0].place)
      BY <1>5 DEF Init, StateAt
  <2>2. rows \in Seq(Seq(Seq(Byte))) /\ Len(rows) = 0
      BY EmptySeq DEF Init
  <2> QED
      BY <1>5, <1>8, <2>1, <2>2 DEF FirstRows
<1>10. Reading(w, at, 0, 0, 0, 0)
  <2>1. record = w[0].record /\ field = With(w[0].field, t[0 + 1], 0)
      BY <1>5 DEF Init, With
  <2> QED
      BY <1>6, <1>7, <1>9, <2>1 DEF Reading
<1>11. RowsAsWritten
    BY <1>8, <1>9, FirstRowsAreWritten
<1>12. ResultIsTrue
    BY DEF Init, ResultIsTrue
<1> QED
    BY <1>3, <1>10, <1>11, <1>12 DEF ReadingInv

\* A step within a block keeps the invariant.
LEMMA BlockKept ==
    ASSUME NEW w, NEW at, ReadingInv(w, at), ParseByte
    PROVE  ReadingInv(w, at)'
<1>1. JobOf(w, at) /\ result = "none"
    BY DEF ReadingInv, ParseByte
<1>2. PICK s, e, p, k : Reading(w, at, s, e, p, k)
    BY <1>1 DEF ReadingInv
<1>3. /\ job' = job
      /\ \E r, u, q, l : Reading(w, at, r, u, q, l)'
      /\ result' \in {"none", "success", "error"}
      /\ result' = "success" => Len(rows') = job.maxRecords
    BY <1>1, <1>2, FollowsWriter
<1>4. JobOf(w, at)'
    BY <1>1, <1>3 DEF JobOf
<1>5. RowsAsWritten'
  <2>1. PICK r, u, q, l : Reading(w, at, r, u, q, l)'
      BY <1>3
  <2>2. FirstRows(w[q].row)' /\ job'.rows \in Seq(Seq(Seq(Byte)))
      BY <1>1, <1>3, <2>1, WriterRuns DEF Reading, Format
  <2>3. /\ Len(job'.rows) \in Nat /\ Len(rows') \in Nat
        /\ Len(rows') <= Len(job'.rows)
        /\ \A i \in 1..Len(rows') : rows'[i] = job'.rows[i]
      BY <2>2, LenProperties DEF FirstRows
  <2>4. Len(rows') <= Len(job'.rows) + (IF job'.open THEN 1 ELSE 0)
    <3>1. CASE job'.open
        BY <2>3, <3>1
    <3>2. CASE ~ job'.open
        BY <2>3, <3>2
    <3> QED
        BY <3>1, <3>2
  <2> QED
      BY <2>3, <2>4 DEF RowsAsWritten
<1>6. ResultIsTrue'
    BY <1>3 DEF ResultIsTrue
<1> QED
    BY <1>3, <1>4, <1>5, <1>6 DEF ReadingInv

\* A new block begins where the old one ended.
LEMMA ReadBlockKept ==
    ASSUME NEW w, NEW at, ReadingInv(w, at), ReadBlock
    PROVE  ReadingInv(w, at)'
<1>1. /\ JobOf(w, at) /\ result = "none" /\ it > Len(buffer)
      /\ unread # <<>> /\ it' = 1 /\ job' = job /\ state' = state
      /\ record' = record /\ field' = field /\ rows' = rows
      /\ result' = result
    BY DEF ReadingInv, ReadBlock, BlockDone, NoOutput
<1> DEFINE t == job.text
           size == IF job.blockSize < Len(unread) THEN job.blockSize
                                                  ELSE Len(unread)
<1>2. /\ buffer' = FlattenSeq([i \in 1..size |-> Utf8[unread[i]]])
      /\ unread' = SubSeq(unread, size + 1, Len(unread))
    BY DEF ReadBlock
<1>3. PICK s, e, p, k : Reading(w, at, s, e, p, k)
    BY <1>1 DEF ReadingInv
<1>4. /\ Covers(t, at, s, e, buffer, unread)
      /\ Stands(t, at, s, e, p, k, it)
      /\ t \in Text /\ Offsets(t, at) /\ Len(t) \in Nat
      /\ job.blockSize \in Nat \ {0}
    BY <1>1, <1>3, WriterRuns DEF Reading
<1>5. Len(unread) \in Nat \ {0}
  <2>1. /\ e \in Nat /\ e <= Len(t)
        /\ unread = SubSeq(t, e + 1, Len(t)) /\ t \in Seq(DOMAIN Utf8)
      BY <1>4 DEF Covers, Text
  <2>2. \A i \in (e + 1)..Len(t) : t[i] \in DOMAIN Utf8
      BY <1>4, <2>1, ElementOfSeq
  <2>3. e + 1 \in Int /\ Len(t) \in Int
      BY <1>4, <2>1
  <2>4. unread \in Seq(DOMAIN Utf8)
      BY <2>1, <2>2, <2>3, SubSeqProperties
  <2> QED
      BY <1>1, <2>4, EmptySeq
<1>6. size \in 1..Len(unread)
    BY <1>4, <1>5
<1>7. p = e /\ k = 0
  <2>1. /\ it \in 1..Len(buffer) + 1
        /\ it <= Len(buffer) <=> p < e
      BY <1>4, ByteThere
  <2>2. Len(buffer) \in Nat
      BY <1>4, LenProperties DEF Covers
  <2>3. ~ (p < e)
      BY <1>1, <2>1, <2>2
  <2> QED
      BY <2>3, <1>4 DEF Stands, Covers
<1>8. /\ Covers(t, at, e, e + size, buffer', unread')
      /\ Stands(t, at, e, e + size, e, 0, it')
  <2> HIDE DEF size
  <2>1. LET block == FlattenSeq([i \in 1..size |-> Utf8[unread[i]]])
        IN  /\ Covers(t, at, e, e + size, block,
                      SubSeq(unread, size + 1, Len(unread)))
            /\ Stands(t, at, e, e + size, e, 0, 1)
      BY <1>4, <1>6, NextBlock
  <2> QED
      BY <1>1, <1>2, <2>1
<1>9. PICK n : n = e + size
    OBVIOUS
<1>10. Reading(w, at, e, n, e, 0)'
  <2>1. /\ (record = w[e].record)'
        /\ (field = With(w[e].field, job.text[e + 1], 0))'
        /\ StateAt(w[e].place)' /\ FirstRows(w[e].row)'
      BY <1>1, <1>3, <1>7 DEF Reading, With, StateAt, FirstRows
  <2> HIDE DEF size
  <2>2. Covers(job.text, at, e, n, buffer, unread)'
        /\ Stands(job.text, at, e, n, e, 0, it)'
      BY <1>1, <1>8, <1>9
  <2>3. (0 > 0 => WritesInto(w[e], job.text[e + 1], w[e + 1]))'
      OBVIOUS
  <2> QED
      BY <2>1, <2>2, <2>3 DEF Reading
<1>11. JobOf(w, at)' /\ RowsAsWritten' /\ ResultIsTrue'
    BY <1>1 DEF JobOf, RowsAsWritten, ResultIsTrue, ReadingInv
<1> QED
    BY <1>10, <1>11 DEF ReadingInv

\* A parser that is cancelled has handed over rows of the job.
LEMMA CancelKept ==
    ASSUME NEW w, NEW at, ReadingInv(w, at), Cancel
    PROVE  ReadingInv(w, at)'
<1>1. /\ job' = job /\ rows' = rows /\ result' = "cancelled"
    BY DEF Cancel
<1> QED
    BY <1>1 DEF ReadingInv, JobOf, RowsAsWritten, ResultIsTrue

\* At the end of the text the row that was begun is the last one, or the text
\* ends inside quotes.
LEMMA FinishKept ==
    ASSUME NEW w, NEW at, ReadingInv(w, at), Finish
    PROVE  ReadingInv(w, at)'
<1>1. JobOf(w, at) /\ result = "none" /\ it > Len(buffer) /\ unread = <<>>
      /\ job' = job
    BY DEF ReadingInv, Finish, BlockDone
<1> DEFINE t == job.text
           outcome == IF state = "inQuote" THEN "eof" ELSE "success"
<1>2. IF record # <<>> \/ field # <<>>
      THEN AddRow(outcome)
      ELSE result' = outcome /\ UNCHANGED <<record, field, rows>>
    BY DEF Finish
<1>3. PICK s, e, p, k : Reading(w, at, s, e, p, k)
    BY <1>1 DEF ReadingInv
<1>4. p = Len(t) /\ k = 0
  <2>1. /\ Covers(t, at, s, e, buffer, unread)
        /\ Stands(t, at, s, e, p, k, it)
        /\ t \in Text /\ Offsets(t, at) /\ Len(t) \in Nat
      BY <1>1, <1>3, WriterRuns DEF Reading
  <2>2. it \in 1..Len(buffer) + 1 /\ it <= Len(buffer) <=> p < e
      BY <2>1, ByteThere
  <2>3. Len(buffer) \in Nat
      BY <2>1, LenProperties DEF Covers
  <2>4. e = Len(t)
      BY <1>1, <2>1, AllCovered
  <2>5. ~ (p < e)
      BY <1>1, <2>1, <2>2, <2>3, ByteThere
  <2> QED
      BY <2>1, <2>4, <2>5 DEF Stands, Covers
<1> DEFINE v == w[p]
<1>5. /\ record = v.record /\ field = v.field /\ StateAt(v.place)
      /\ FirstRows(v.row) /\ WriteEnd(job, v)
    BY <1>1, <1>3, <1>4, WriterRuns DEF Reading, With
<1>6. /\ rows \in Seq(Seq(Seq(Byte))) /\ v.row \in Nat /\ Len(rows) = v.row
      /\ v.row <= Len(job.rows) /\ Len(job.rows) \in Nat
      /\ \A i \in 1..v.row : rows[i] = job.rows[i]
      /\ v.record \in Seq(Seq(Byte)) /\ v.field \in Seq(Byte)
      /\ job.open \in BOOLEAN
  <2>1. v \in WriterType /\ Format(job)
      BY <1>1, <1>4, WriterRuns
  <2>2. job.rows \in Seq(Seq(Seq(Byte)))
      BY <2>1 DEF Format
  <2> QED
      BY <1>5, <2>1, <2>2, WriterFields, LenProperties DEF FirstRows, Format
<1>7. CASE ~ (record # <<>> \/ field # <<>>)
  <2>1. rows' = rows /\ result' = outcome
      BY <1>2, <1>7
  <2>2. job.open => state = "inQuote"
      BY <1>5 DEF WriteEnd, StateAt
  <2>3. ~ job.open => state # "inQuote" /\ Len(job.rows) = Len(rows)
      BY <1>5, <1>6, <1>7 DEF WriteEnd, StateAt
  <2>4. RowsAsWritten' /\ ResultIsTrue'
      BY <1>1, <1>6, <2>1, <2>2, <2>3 DEF RowsAsWritten, ResultIsTrue, ReadingInv
  <2> QED
      BY <1>1, <2>1, <2>4 DEF ReadingInv, JobOf
<1>8. CASE record # <<>> \/ field # <<>>
  <2> DEFINE last == Append(record, Column)
  <2>1. rows' = Append(rows, last) /\ result' \in {outcome, "error"}
      BY <1>2, <1>8 DEF AddRow
  <2>2. Len(rows') = v.row + 1 /\ \A i \in 1..v.row : rows'[i] = job.rows[i]
    <3>1. rows \in [1..v.row -> Seq(Seq(Byte))]
        BY <1>6, LenProperties
    <3> HIDE DEF last
    <3> QED
        BY <1>6, <2>1, <3>1
  <2>3. rows'[v.row + 1] = last
    <3> HIDE DEF last
    <3> QED
        BY <1>6, <2>1
  <2>4. job.open => state = "inQuote" /\ v.row = Len(job.rows)
      BY <1>5 DEF WriteEnd, StateAt
  <2>5. ~ job.open => /\ state # "inQuote" /\ v.row + 1 = Len(job.rows)
                      /\ job.rows[v.row + 1] = last
      BY <1>5, <1>6, <1>8 DEF WriteEnd, StateAt, Column, ColumnOf
  <2> HIDE DEF last
  <2>6. RowsAsWritten'
    <3>1. Len(rows') <= Len(job.rows) + (IF job.open THEN 1 ELSE 0)
      <4>1. CASE job.open
          BY <1>6, <2>2, <2>4, <4>1
      <4>2. CASE ~ job.open
          BY <1>6, <2>2, <2>5, <4>2
      <4> QED
          BY <4>1, <4>2
    <3>2. ASSUME NEW i \in 1..Len(rows'), i <= Len(job.rows)
          PROVE  rows'[i] = job.rows[i]
      <4>1. CASE i = v.row + 1
          BY <1>6, <2>3, <2>4, <2>5, <3>2, <4>1
      <4>2. CASE i # v.row + 1
        <5>1. i \in 1..v.row
            BY <1>6, <2>2, <4>2
        <5> QED
            BY <2>2, <5>1
      <4> QED
          BY <4>1, <4>2
    <3> QED
        BY <1>1, <3>1, <3>2 DEF RowsAsWritten
  <2>7. ResultIsTrue'
      BY <1>1, <1>6, <2>1, <2>2, <2>4, <2>5 DEF ResultIsTrue
  <2>8. result' # "none"
      BY <2>1
  <2> QED
      BY <1>1, <2>6, <2>7, <2>8 DEF ReadingInv, JobOf
<1> QED
    BY <1>7, <1>8

\* After every step of the parser the job is as its writer left it.
LEMMA ReadingKept ==
    ASSUME NEW w, NEW at, ReadingInv(w, at), [Next]_vars
    PROVE  ReadingInv(w, at)'
<1>1. CASE ParseByte
    BY <1>1, BlockKept
<1>2. CASE ReadBlock
    BY <1>2, ReadBlockKept
<1>3. CASE Cancel
    BY <1>3, CancelKept
<1>4. CASE Finish
    BY <1>4, FinishKept
<1>5. CASE UNCHANGED vars
  <2>1. /\ job' = job /\ unread' = unread /\ buffer' = buffer /\ it' = it
        /\ state' = state /\ record' = record /\ field' = field
        /\ rows' = rows /\ result' = result
      BY <1>5 DEF vars
  <2>2. JobOf(w, at)' /\ RowsAsWritten' /\ ResultIsTrue'
      BY <2>1 DEF JobOf, RowsAsWritten, ResultIsTrue, ReadingInv
  <2>3. ASSUME NEW s, NEW e, NEW p, NEW k, Reading(w, at, s, e, p, k)
        PROVE  Reading(w, at, s, e, p, k)'
    <3>1. Covers(job.text, at, s, e, buffer, unread)'
          /\ Stands(job.text, at, s, e, p, k, it)'
        BY <2>1, <2>3 DEF Reading
    <3>2. (record = w[p].record)' /\ (field = With(w[p].field, job.text[p + 1], k))'
        BY <2>1, <2>3 DEF Reading
    <3>3. StateAt(w[p].place)'
        BY <2>1, <2>3 DEF Reading, StateAt
    <3>4. FirstRows(w[p].row)'
        BY <2>1, <2>3 DEF Reading, FirstRows
    <3>5. (k > 0 => WritesInto(w[p], job.text[p + 1], w[p + 1]))'
        BY <2>1, <2>3 DEF Reading, WritesInto
    <3> QED
        BY <3>1, <3>2, <3>3, <3>4, <3>5 DEF Reading
  <2> QED
      BY <2>1, <2>2, <2>3 DEF ReadingInv
<1> QED
    BY <1>1, <1>2, <1>3, <1>4, <1>5 DEF Next

\* Every job is what some run of the writer leaves.
JobsWritten == \A j \in Jobs : \E w : WrittenBy(j, w)

\* The inductive invariant.
ReadsWhatWasWritten == \E w, at : ReadingInv(w, at)

\* The parser follows the writer of its job, whatever the job and the blocks.
LEMMA Follows ==
    ASSUME JobsWritten
    PROVE  Spec => []ReadsWhatWasWritten
<1>1. Init => ReadsWhatWasWritten
  <2> SUFFICES ASSUME Init PROVE ReadsWhatWasWritten
      OBVIOUS
  <2>1. PICK w : WrittenBy(job, w)
      BY DEF Init, JobsWritten
  <2> QED
      BY <2>1, ReadingStarts DEF ReadsWhatWasWritten
<1>2. ReadsWhatWasWritten /\ [Next]_vars => ReadsWhatWasWritten'
  <2> SUFFICES ASSUME ReadsWhatWasWritten, [Next]_vars
               PROVE  ReadsWhatWasWritten'
      OBVIOUS
  <2>1. PICK w, at : ReadingInv(w, at)
      BY DEF ReadsWhatWasWritten
  <2>2. ReadingInv(w, at)'
      BY <2>1, ReadingKept
  <2> QED
      BY <2>2 DEF ReadsWhatWasWritten
<1> QED
    BY <1>1, <1>2, PTL DEF Spec

\* The rows handed over are the rows that were written, in their order, however
\* the text is cut into blocks, whatever the limit and whenever parse is
\* cancelled or a row refused (parse, look_ahead).
THEOREM RowsCorrect ==
    ASSUME JobsWritten
    PROVE  Spec => []RowsAsWritten
<1>1. ReadsWhatWasWritten => RowsAsWritten
    BY DEF ReadsWhatWasWritten, ReadingInv
<1> QED
    BY <1>1, Follows, PTL

\* A parser that reports success has handed over all rows, or as many as were
\* asked for, and only a text that ends inside quotes ends unexpectedly (the
\* end of parse).
THEOREM ResultCorrect ==
    ASSUME JobsWritten
    PROVE  Spec => []ResultIsTrue
<1>1. ReadsWhatWasWritten => ResultIsTrue
    BY DEF ReadsWhatWasWritten, ReadingInv
<1> QED
    BY <1>1, Follows, PTL
===============================================================================
