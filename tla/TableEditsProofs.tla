--------------------------- MODULE TableEditsProofs ---------------------------
(***************************************************************************)
(* Whatever edits, loads and sorts are mixed, the view shows the table and *)
(* deleteRecord deletes the rows that were selected.                       *)
(***************************************************************************)
EXTENDS TableEdits, FiniteSetsExt, WellFoundedInduction, FiniteSetTheorems,
        TLAPS

\* Min picks the least element of a set of naturals.
LEMMA MinIsLeast ==
    ASSUME NEW T \in SUBSET Nat, T # {}
    PROVE  Min(T) \in T /\ \A k \in T : Min(T) <= k
<1>1. PICK m \in T : \A k \in T : ~ (<<k, m>> \in OpToRel(<, Nat))
    BY NatLessThanWellFounded, WFMin
<1>2. \A k \in T : ~ (k < m)
    BY <1>1 DEF OpToRel
<1>3. \E x \in T : \A y \in T : x <= y
    BY <1>2
<1> QED
    BY <1>3 DEF Min

\* Max picks the greatest element of a set of naturals with an upper bound.
LEMMA GreatestNatural ==
    ASSUME NEW T \in SUBSET Nat, NEW n \in T,
           NEW bound \in Nat, \A k \in T : k <= bound
    PROVE  Max(T) \in T /\ \A k \in T : k <= Max(T)
<1> DEFINE Upper == {b \in Nat : \A k \in T : k <= b}
<1>1. PICK m \in Upper : \A b \in Upper : ~ (<<b, m>> \in OpToRel(<, Nat))
  <2>1. bound \in Upper /\ Upper \in SUBSET Nat
      OBVIOUS
  <2> HIDE DEF Upper
  <2> QED
      BY <2>1, NatLessThanWellFounded, WFMin
<1>2. m \in Upper /\ \A b \in Upper : ~ (b < m)
    BY <1>1 DEF OpToRel
<1>3. m \in T
  <2>1. CASE m = 0
      BY <1>2, <2>1
  <2>2. CASE m # 0
    <3>1. m - 1 \in Nat /\ m - 1 < m
        BY <1>2, <2>2
    <3>2. PICK k \in T : ~ (k <= m - 1)
        BY <1>2, <3>1
    <3>3. k = m
        BY <1>2, <3>1, <3>2
    <3> QED
        BY <3>2, <3>3
  <2> QED
      BY <2>1, <2>2
<1>4. \E x \in T : \A y \in T : x >= y
    BY <1>2, <1>3
<1> QED
    BY <1>4 DEF Max

(***************************************************************************)
(* The order of the query.                                                 *)
(***************************************************************************)

\* What a table is: finitely many rowids with content that can be compared.
IsTable(rows) ==
  /\ DOMAIN rows \subseteq 1..MaxRows
  /\ \A r \in DOMAIN rows : rows[r] \in Nat

Before(rows, byContent, r) ==
  {s \in DOMAIN rows : Precedes(rows, byContent, s, r)}

\* A table is finite, and so is every part of it.
LEMMA Finite ==
  ASSUME NEW rows, IsTable(rows), NEW T \in SUBSET (DOMAIN rows)
  PROVE  /\ IsFiniteSet(DOMAIN rows) /\ Size(rows) \in Nat
         /\ IsFiniteSet(T) /\ Cardinality(T) \in Nat
         /\ Cardinality(T) <= Size(rows)
         /\ Cardinality(T) = Size(rows) => T = DOMAIN rows
<1>1. IsFiniteSet(1..MaxRows)
    BY FS_Interval, TableEditsAssumption
<1>2. IsFiniteSet(DOMAIN rows)
    BY <1>1, FS_Subset DEF IsTable
<1>3. /\ IsFiniteSet(T) /\ Cardinality(T) <= Cardinality(DOMAIN rows)
      /\ Cardinality(DOMAIN rows) = Cardinality(T) => DOMAIN rows = T
    BY <1>2, FS_Subset
<1> QED
    BY <1>2, <1>3, FS_CardinalityType DEF Size

\* The rows stand in a line, one behind the other.
LEMMA Lined ==
  ASSUME NEW rows, IsTable(rows), NEW byContent,
         NEW r \in DOMAIN rows, NEW s \in DOMAIN rows
  PROVE  /\ ~ (/\ Precedes(rows, byContent, r, s)
               /\ Precedes(rows, byContent, s, r))
         /\ r # s => \/ Precedes(rows, byContent, r, s)
                     \/ Precedes(rows, byContent, s, r)
         /\ ~ Precedes(rows, byContent, r, r)
         /\ Precedes(rows, byContent, r, s) =>
              Before(rows, byContent, r) \subseteq Before(rows, byContent, s)
<1>1. \A x \in DOMAIN rows : x \in Nat /\ rows[x] \in Nat
    BY DEF IsTable
<1>2. ASSUME NEW x \in DOMAIN rows, Precedes(rows, byContent, x, r),
             Precedes(rows, byContent, r, s)
      PROVE  Precedes(rows, byContent, x, s)
    BY <1>1, <1>2 DEF Precedes
<1>3. Precedes(rows, byContent, r, s) =>
        Before(rows, byContent, r) \subseteq Before(rows, byContent, s)
    BY <1>2 DEF Before
<1>4. /\ ~ (/\ Precedes(rows, byContent, r, s)
            /\ Precedes(rows, byContent, s, r))
      /\ r # s => \/ Precedes(rows, byContent, r, s)
                  \/ Precedes(rows, byContent, s, r)
      /\ ~ Precedes(rows, byContent, r, r)
    BY <1>1 DEF Precedes
<1> QED
    BY <1>3, <1>4

\* The position of a row is below the number of rows.
LEMMA Placed ==
  ASSUME NEW rows, IsTable(rows), NEW byContent, NEW r \in DOMAIN rows
  PROVE  /\ Place(rows, byContent, r) = Cardinality(Before(rows, byContent, r))
         /\ Place(rows, byContent, r) \in Nat
         /\ Place(rows, byContent, r) < Size(rows)
<1> DEFINE T == Before(rows, byContent, r)
<1>1. T \in SUBSET (DOMAIN rows)
    BY DEF Before
<1>2. r \notin T
    BY Lined DEF Before
<1>3. Place(rows, byContent, r) = Cardinality(T)
    BY DEF Place, Before
<1> HIDE DEF T
<1>4. /\ Size(rows) \in Nat /\ Cardinality(T) \in Nat
      /\ Cardinality(T) <= Size(rows)
      /\ Cardinality(T) = Size(rows) => T = DOMAIN rows
    BY <1>1, Finite
<1> QED
    BY <1>2, <1>3, <1>4 DEF T

\* A row that precedes another has a smaller position, and no two rows have
\* the same.
LEMMA PlacesDiffer ==
  ASSUME NEW rows, IsTable(rows), NEW byContent,
         NEW r \in DOMAIN rows, NEW s \in DOMAIN rows
  PROVE  /\ Precedes(rows, byContent, r, s) <=>
              Place(rows, byContent, r) < Place(rows, byContent, s)
         /\ Place(rows, byContent, r) = Place(rows, byContent, s) => r = s
<1>1. ASSUME NEW x \in DOMAIN rows, NEW y \in DOMAIN rows,
             Precedes(rows, byContent, x, y)
      PROVE  Place(rows, byContent, x) < Place(rows, byContent, y)
  <2> DEFINE S == Before(rows, byContent, x)
             T == Before(rows, byContent, y)
  <2>1. S \subseteq T /\ x \in T /\ x \notin S
      BY <1>1, Lined DEF Before
  <2>2. T \in SUBSET (DOMAIN rows)
      BY DEF Before
  <2>3. /\ Place(rows, byContent, x) = Cardinality(S)
        /\ Place(rows, byContent, x) \in Nat
      BY Placed
  <2>4. /\ Place(rows, byContent, y) = Cardinality(T)
        /\ Place(rows, byContent, y) \in Nat
      BY Placed
  <2> HIDE DEF S, T
  <2>5. IsFiniteSet(T)
      BY <2>2, Finite
  <2>6. Cardinality(S) <= Cardinality(T) /\ Cardinality(S) # Cardinality(T)
      BY <2>1, <2>5, FS_Subset
  <2> QED
      BY <2>3, <2>4, <2>6
<1>2. /\ Place(rows, byContent, r) \in Nat
      /\ Place(rows, byContent, s) \in Nat
    BY Placed
<1>3. r # s => \/ Precedes(rows, byContent, r, s)
               \/ Precedes(rows, byContent, s, r)
    BY Lined
<1>4. r = s => ~ Precedes(rows, byContent, r, s)
    BY Lined
<1> QED
    BY <1>1, <1>2, <1>3, <1>4

\* A row that comes in as the last one moves no other.
LEMMA AppendedPlaces ==
  ASSUME NEW rows, IsTable(rows), NEW rows2, IsTable(rows2), NEW byContent,
         NEW n, n \notin DOMAIN rows, DOMAIN rows2 = DOMAIN rows \cup {n},
         \A r \in DOMAIN rows : rows2[r] = rows[r]
  PROVE  /\ Size(rows2) = Size(rows) + 1
         /\ Place(rows2, byContent, n) = Size(rows) =>
              \A r \in DOMAIN rows :
                Place(rows2, byContent, r) = Place(rows, byContent, r)
<1>1. IsFiniteSet(DOMAIN rows) /\ Size(rows) \in Nat
    BY Finite
<1>2. Size(rows2) = Size(rows) + 1
    BY <1>1, FS_AddElement DEF Size
<1>3. ASSUME Place(rows2, byContent, n) = Size(rows), NEW r \in DOMAIN rows
      PROVE  Place(rows2, byContent, r) = Place(rows, byContent, r)
  <2>1. n \in DOMAIN rows2 /\ r \in DOMAIN rows2
      OBVIOUS
  <2> DEFINE T == Before(rows2, byContent, n)
  <2>2. T \in SUBSET (DOMAIN rows)
    <3>1. ~ Precedes(rows2, byContent, n, n)
        BY <2>1, Lined
    <3> QED
        BY <3>1 DEF Before
  <2>3. Cardinality(T) = Size(rows)
      BY <1>3, <2>1, Placed
  <2>4. T = DOMAIN rows
    <3> HIDE DEF T
    <3> QED BY <2>2, <2>3, Finite
  <2>5. Precedes(rows2, byContent, r, n)
      BY <2>4 DEF Before
  <2>6. ~ Precedes(rows2, byContent, n, r)
      BY <2>1, <2>5, Lined
  <2>7. \A s \in DOMAIN rows :
          Precedes(rows2, byContent, s, r) <=> Precedes(rows, byContent, s, r)
      BY DEF Precedes
  <2>8. Before(rows2, byContent, r) = Before(rows, byContent, r)
      BY <2>6, <2>7 DEF Before
  <2> QED
      BY <2>8 DEF Place, Before
<1> QED
    BY <1>2, <1>3

\* When a row goes, those behind it move one position up.
LEMMA RemainingPlaces ==
  ASSUME NEW rows, IsTable(rows), NEW rows2, IsTable(rows2), NEW byContent,
         NEW n \in DOMAIN rows, DOMAIN rows2 = DOMAIN rows \ {n},
         \A r \in DOMAIN rows2 : rows2[r] = rows[r]
  PROVE  /\ Size(rows2) = Size(rows) - 1
         /\ \A r \in DOMAIN rows2 :
              /\ Place(rows, byContent, r) # Place(rows, byContent, n)
              /\ Place(rows2, byContent, r) =
                   IF Place(rows, byContent, r) < Place(rows, byContent, n)
                   THEN Place(rows, byContent, r)
                   ELSE Place(rows, byContent, r) - 1
<1>1. IsFiniteSet(DOMAIN rows) /\ Size(rows) \in Nat
    BY Finite
<1>2. Size(rows2) = Size(rows) - 1
    BY <1>1, FS_RemoveElement DEF Size
<1>3. ASSUME NEW r \in DOMAIN rows2
      PROVE  /\ Place(rows, byContent, r) # Place(rows, byContent, n)
             /\ Place(rows2, byContent, r) =
                  IF Place(rows, byContent, r) < Place(rows, byContent, n)
                  THEN Place(rows, byContent, r)
                  ELSE Place(rows, byContent, r) - 1
  <2>1. r \in DOMAIN rows /\ r # n
      OBVIOUS
  <2>2. Place(rows, byContent, r) # Place(rows, byContent, n)
      BY <2>1, PlacesDiffer
  <2>3. \A s \in DOMAIN rows2 :
          Precedes(rows2, byContent, s, r) <=> Precedes(rows, byContent, s, r)
      BY DEF Precedes
  <2> DEFINE T == Before(rows, byContent, r)
  <2>4. Before(rows2, byContent, r) = T \ {n}
      BY <2>3 DEF Before
  <2>5. Place(rows2, byContent, r) = Cardinality(T \ {n})
      BY <2>4, Placed
  <2>6. Place(rows, byContent, r) = Cardinality(T)
      BY <2>1, Placed
  <2>7. n \in T <=> Precedes(rows, byContent, n, r)
      BY DEF Before
  <2>8. IsFiniteSet(T)
    <3>1. T \in SUBSET (DOMAIN rows)
        BY DEF Before
    <3> HIDE DEF T
    <3> QED
        BY <3>1, Finite
  <2>9. n \in T <=> Place(rows, byContent, n) < Place(rows, byContent, r)
      BY <2>1, <2>7, PlacesDiffer
  <2> HIDE DEF T
  <2>10. Cardinality(T \ {n}) =
           IF n \in T THEN Cardinality(T) - 1 ELSE Cardinality(T)
      BY <2>8, FS_RemoveElement
  <2>11. /\ Place(rows, byContent, r) \in Nat
         /\ Place(rows, byContent, n) \in Nat
      BY <2>1, Placed
  <2> QED
      BY <2>2, <2>5, <2>6, <2>9, <2>10, <2>11
<1> QED
    BY <1>2, <1>3

\* What a query returns is what the table holds at those positions.
LEMMA FetchedRows ==
  ASSUME NEW rows, IsTable(rows), \A r \in DOMAIN rows : rows[r] \in Contents,
         NEW byContent, NEW first \in Int, NEW last \in Int,
         NEW found, found = Fetched(rows, byContent, first, last)
  PROVE  \A p \in DOMAIN found :
           /\ p \in Nat /\ first <= p /\ p < last /\ p < Size(rows)
           /\ found[p] \in Row
           /\ found[p].rowid \in DOMAIN rows
           /\ found[p].content = rows[found[p].rowid]
           /\ Place(rows, byContent, found[p].rowid) = p
<1> SUFFICES ASSUME NEW p \in DOMAIN found
             PROVE  /\ p \in Nat /\ first <= p /\ p < last /\ p < Size(rows)
                    /\ found[p] \in Row
                    /\ found[p].rowid \in DOMAIN rows
                    /\ found[p].content = rows[found[p].rowid]
                    /\ Place(rows, byContent, found[p].rowid) = p
    OBVIOUS
<1> DEFINE At(q) == CHOOSE r \in DOMAIN rows : Place(rows, byContent, r) = q
           D == {Place(rows, byContent, r) : r \in DOMAIN rows}
                  \cap (first..(last - 1))
<1>1. found = [q \in D |-> [rowid |-> At(q), content |-> rows[At(q)]]]
    BY DEF Fetched
<1>2. p \in D
    BY <1>1
<1>3. PICK r \in DOMAIN rows : Place(rows, byContent, r) = p
    BY <1>2
<1>4. At(p) \in DOMAIN rows /\ Place(rows, byContent, At(p)) = p
    BY <1>3
<1>5. p \in first..(last - 1)
    BY <1>2
<1>6. p \in Nat /\ p < Size(rows)
    BY <1>3, Placed
<1> HIDE DEF At, D
<1>7. found[p] = [rowid |-> At(p), content |-> rows[At(p)]]
    BY <1>1, <1>2
<1>8. found[p] \in Row
    BY <1>4, <1>7 DEF Row, IsTable
<1> QED
    BY <1>4, <1>5, <1>6, <1>7, <1>8

(***************************************************************************)
(* The inductive invariant.  ShowsTable alone is not inductive: it needs   *)
(* the types, and for what deleteRecord deletes that the rows to be kept   *)
(* are those at the positions outside the selection.                       *)
(***************************************************************************)
KeptIsRest ==
  ~drifted /\ selection # {} =>
    kept = {r \in DOMAIN table : Place(table, sorted, r) \notin selection}

Types == TypeOK /\ count \in Nat

IInv == Types /\ ShowsTable /\ KeptIsRest

\* A well-typed table has finitely many rows that can be compared.
LEMMA TableIsTable ==
  ASSUME Types
  PROVE  IsTable(table) /\ \A r \in DOMAIN table : table[r] \in Contents
  BY TableEditsAssumption DEF Types, TypeOK, IsTable

\* What a query around the first rows leaves in the cache.
LEMMA FetchedFits ==
  ASSUME NEW rows, IsTable(rows), \A r \in DOMAIN rows : rows[r] \in Contents,
         NEW byContent, NEW found,
         found = Fetched(rows, byContent, 0, 2 * HalfChunk - 1)
  PROVE  /\ Size(rows) \in Nat
         /\ DOMAIN found \subseteq 0..(Size(rows) - 1)
         /\ \A p \in DOMAIN found :
              /\ found[p] \in Row
              /\ found[p].rowid \in DOMAIN rows
              /\ found[p].content = rows[found[p].rowid]
              /\ Place(rows, byContent, found[p].rowid) = p
<1>1. Size(rows) \in Nat
    BY Finite
<1>2. 0 \in Int /\ 2 * HalfChunk - 1 \in Int
    BY TableEditsAssumption
<1>3. \A p \in DOMAIN found :
        /\ p \in Nat /\ 0 <= p /\ p < 2 * HalfChunk - 1 /\ p < Size(rows)
        /\ found[p] \in Row
        /\ found[p].rowid \in DOMAIN rows
        /\ found[p].content = rows[found[p].rowid]
        /\ Place(rows, byContent, found[p].rowid) = p
    BY <1>2, FetchedRows
<1> QED
    BY <1>1, <1>3

\* updateAndRunQuery has just filled the cache.
LEMMA Initially == ASSUME Init PROVE IInv
<1>1. DOMAIN table \subseteq 1..MaxRows
      /\ \A r \in DOMAIN table : table[r] \in Contents
    BY DEF Init
<1>2. IsTable(table)
    BY <1>1, TableEditsAssumption DEF IsTable
<1>3. cache = Fetched(table, sorted, 0, 2 * HalfChunk - 1)
    BY Zenon DEF Init
<1>4. /\ Size(table) \in Nat
      /\ DOMAIN cache \subseteq 0..(Size(table) - 1)
      /\ \A p \in DOMAIN cache :
           /\ cache[p] \in Row
           /\ cache[p].rowid \in DOMAIN table
           /\ cache[p].content = table[cache[p].rowid]
           /\ Place(table, sorted, cache[p].rowid) = p
    BY <1>1, <1>2, <1>3, FetchedFits
<1>5. /\ sorted = FALSE /\ drifted = FALSE
      /\ count = Size(table) /\ selection = {}
    BY DEF Init
<1> QED
    BY <1>1, <1>4, <1>5 DEF IInv, Types, TypeOK, ShowsTable, KeptIsRest

\* sort and a refresh fetch the first rows anew.
LEMMA QueryKeeps ==
  ASSUME IInv, NEW byContent \in BOOLEAN, Query(byContent)
  PROVE  IInv'
<1>1. IsTable(table) /\ \A r \in DOMAIN table : table[r] \in Contents
    BY TableIsTable DEF IInv
<1>2. /\ table' = table /\ sorted' = byContent /\ count' = Size(table)
      /\ selection = {} /\ selection' = selection /\ drifted' = FALSE
      /\ cache' = Fetched(table, byContent, 0, 2 * HalfChunk - 1)
    BY DEF Query
<1>3. /\ Size(table) \in Nat
      /\ DOMAIN cache' \subseteq 0..(Size(table) - 1)
      /\ \A p \in DOMAIN cache' :
           /\ cache'[p] \in Row
           /\ cache'[p].rowid \in DOMAIN table
           /\ cache'[p].content = table[cache'[p].rowid]
           /\ Place(table, byContent, cache'[p].rowid) = p
    BY <1>1, <1>2, FetchedFits
<1>4. Types'
    BY <1>1, <1>2, <1>3 DEF IInv, Types, TypeOK
<1>5. ShowsTable'
    BY <1>2, <1>3 DEF ShowsTable
<1>6. KeptIsRest'
    BY <1>2 DEF KeptIsRest
<1> QED
    BY <1>4, <1>5, <1>6 DEF IInv

\* A load adds rows of the table at their positions.
LEMMA LoadKeeps ==
  ASSUME IInv, NEW row \in Int, Load(row)
  PROVE  IInv'
<1> DEFINE missing == {p \in 0..(count - 1) : /\ p \notin DOMAIN cache
                                              /\ p >= row - HalfChunk
                                              /\ p < row + HalfChunk}
           found == Fetched(table, sorted, Min(missing), Max(missing) + 1)
<1>1. IsTable(table) /\ \A r \in DOMAIN table : table[r] \in Contents
    BY TableIsTable DEF IInv
<1>2. count \in Nat
    BY DEF IInv, Types
<1>3. /\ selection = {} /\ missing # {}
      /\ cache' = [p \in DOMAIN cache \cup DOMAIN found |->
                     IF p \in DOMAIN found THEN found[p] ELSE cache[p]]
      /\ table' = table /\ sorted' = sorted /\ count' = count
      /\ drifted' = drifted /\ selection' = selection
    BY DEF Load, deleting
<1>4. missing \subseteq 0..(count - 1)
    OBVIOUS
<1> HIDE DEF missing
<1>5. /\ Min(missing) \in Nat
      /\ Max(missing) \in Nat /\ Max(missing) < count
  <2>1. missing \in SUBSET Nat /\ \A k \in missing : k <= count
      BY <1>2, <1>4
  <2>2. PICK n \in missing : TRUE
      BY <1>3
  <2>3. Min(missing) \in missing
      BY <1>3, <2>1, MinIsLeast
  <2>4. Max(missing) \in missing
      BY <1>2, <2>1, <2>2, GreatestNatural
  <2>5. \A k \in missing : k \in Nat /\ k < count
      BY <1>2, <1>4
  <2> QED
      BY <2>3, <2>4, <2>5
<1>6. \A p \in DOMAIN found :
        /\ p \in Nat /\ Min(missing) <= p /\ p < Max(missing) + 1
        /\ p < Size(table)
        /\ found[p] \in Row
        /\ found[p].rowid \in DOMAIN table
        /\ found[p].content = table[found[p].rowid]
        /\ Place(table, sorted, found[p].rowid) = p
  <2>1. Min(missing) \in Int /\ Max(missing) + 1 \in Int
      BY <1>5
  <2> QED
      BY <1>1, <2>1, FetchedRows
<1> HIDE DEF found
<1>7. DOMAIN found \subseteq 0..(count - 1)
    BY <1>2, <1>5, <1>6
<1>8. /\ DOMAIN cache' = DOMAIN cache \cup DOMAIN found
      /\ \A p \in DOMAIN cache' :
           cache'[p] = IF p \in DOMAIN found THEN found[p] ELSE cache[p]
    BY <1>3
<1>9. Types'
  <2>1. Types
      BY DEF IInv
  <2>2. \A p \in DOMAIN cache' : cache'[p] \in Row
      BY <1>6, <1>8, <2>1 DEF Types, TypeOK
  <2> QED
      BY <1>3, <1>7, <1>8, <2>1, <2>2 DEF Types, TypeOK
<1>10. ShowsTable'
    BY <1>3, <1>6, <1>8 DEF IInv, ShowsTable
<1>11. KeptIsRest'
    BY <1>3 DEF KeptIsRest
<1> QED
    BY <1>9, <1>10, <1>11 DEF IInv

\* Every caller inserts a row at the end of the view.
LEMMA InsertKeeps ==
  ASSUME IInv, InsertRow
  PROVE  IInv'
<1>0. Types
    BY DEF IInv
<1>1. IsTable(table) /\ \A r \in DOMAIN table : table[r] \in Contents
    BY TableIsTable DEF IInv
<1>2. PICK rowid \in 1..MaxRows :
        /\ rowid = 1 + Max(DOMAIN table \cup {0})
        /\ table' = [r \in DOMAIN table \cup {rowid} |->
                       IF r = rowid THEN Default ELSE table[r]]
        /\ Cache!Insert(count, [rowid |-> rowid, content |-> Default])
        /\ count' = count + 1
        /\ drifted' = (drifted \/ Place(table', sorted, rowid) # Size(table))
    BY DEF InsertRow
<1>3. selection = {} /\ sorted' = sorted /\ selection' = selection
    BY DEF InsertRow, deleting
<1> DEFINE row == [rowid |-> rowid, content |-> Default]
<1>4. row \in Row /\ row.rowid = rowid /\ row.content = Default
    BY <1>2, TableEditsAssumption DEF Row
<1> HIDE DEF row
<1>5. rowid \notin DOMAIN table
  <2> DEFINE T == DOMAIN table \cup {0}
  <2>1. T \in SUBSET Nat /\ 0 \in T /\ \A k \in T : k <= MaxRows
      BY <1>1, TableEditsAssumption DEF IsTable
  <2> HIDE DEF T
  <2>2. Max(T) \in T /\ \A k \in T : k <= Max(T)
      BY <2>1, TableEditsAssumption, GreatestNatural
  <2>3. rowid = 1 + Max(T) /\ Max(T) \in Nat
      BY <1>2, <2>1, <2>2 DEF T
  <2>4. rowid \notin T
      BY <2>2, <2>3
  <2> QED
      BY <2>4 DEF T
<1>6. /\ DOMAIN table' = DOMAIN table \cup {rowid}
      /\ table'[rowid] = Default
      /\ \A r \in DOMAIN table : table'[r] = table[r]
    BY <1>2, <1>5
<1>7. IsTable(table') /\ \A r \in DOMAIN table' : table'[r] \in Contents
    BY <1>1, <1>2, <1>6, TableEditsAssumption DEF IsTable
<1>8. /\ Size(table') = Size(table) + 1
      /\ Place(table', sorted, rowid) = Size(table) =>
           \A r \in DOMAIN table :
             Place(table', sorted, r) = Place(table, sorted, r)
    BY <1>1, <1>5, <1>6, <1>7, AppendedPlaces
<1>9. /\ DOMAIN cache' = DOMAIN cache \cup {count}
      /\ cache'[count] = row
      /\ \A p \in DOMAIN cache : p # count /\ cache'[p] = cache[p]
  <2>1. count \in Nat /\ DOMAIN cache \subseteq 0..(count - 1)
      BY <1>0 DEF Types, TypeOK
  <2> DEFINE D == {x \in DOMAIN cache : x < count} \cup {count}
                     \cup {x + 1 : x \in {y \in DOMAIN cache : y >= count}}
             e(q) == CASE q < count -> cache[q]
                       [] q = count -> row
                       [] q > count -> cache[q - 1]
  <2>2. cache' = [q \in D |-> e(q)]
      BY <1>2 DEF Cache!Insert, row
  <2>3. \A p \in DOMAIN cache : p < count /\ ~ (p >= count)
      BY <2>1
  <2>4. D = DOMAIN cache \cup {count}
      BY <2>3
  <2>5. \A p \in DOMAIN cache : e(p) = cache[p]
      BY <2>1, <2>3
  <2>6. e(count) = row
      BY <2>1
  <2>7. \A p \in DOMAIN cache : p # count
      BY <2>1
  <2> HIDE DEF D, e
  <2> QED
      BY <2>2, <2>4, <2>5, <2>6, <2>7
<1>10. Types'
  <2>1. count' \in Nat
      BY <1>0, <1>2 DEF Types
  <2>2. DOMAIN cache' \subseteq 0..(count' - 1)
      BY <1>0, <1>2, <1>9 DEF Types, TypeOK
  <2>3. \A p \in DOMAIN cache' : cache'[p] \in Row
      BY <1>0, <1>4, <1>9 DEF Types, TypeOK
  <2>4. drifted' \in BOOLEAN /\ sorted' \in BOOLEAN
    <3>1. drifted \in BOOLEAN /\ sorted \in BOOLEAN
        BY <1>0 DEF Types, TypeOK
    <3> QED
        BY <1>2, <1>3, <3>1, Zenon
  <2>5. selection' \subseteq 0..(count' - 1)
      BY <1>3
  <2>6. DOMAIN table' \subseteq 1..MaxRows
      BY <1>7 DEF IsTable
  <2> QED
      BY <1>7, <2>1, <2>2, <2>3, <2>4, <2>5, <2>6 DEF Types, TypeOK
<1>11. ShowsTable'
  <2> SUFFICES ASSUME ~ drifted'
               PROVE  /\ count' = Size(table')
                      /\ \A p \in DOMAIN cache' :
                           /\ cache'[p].rowid \in DOMAIN table'
                           /\ cache'[p].content = table'[cache'[p].rowid]
                           /\ Place(table', sorted', cache'[p].rowid) = p
      BY DEF ShowsTable
  <2>1. ~ drifted /\ Place(table', sorted, rowid) = Size(table)
      BY <1>2, Zenon
  <2>2. /\ count = Size(table)
        /\ \A p \in DOMAIN cache :
             /\ cache[p].rowid \in DOMAIN table
             /\ cache[p].content = table[cache[p].rowid]
             /\ Place(table, sorted, cache[p].rowid) = p
      BY <2>1 DEF IInv, ShowsTable
  <2>3. count' = Size(table')
      BY <1>2, <1>8, <2>2
  <2>4. ASSUME NEW p \in DOMAIN cache'
        PROVE  /\ cache'[p].rowid \in DOMAIN table'
               /\ cache'[p].content = table'[cache'[p].rowid]
               /\ Place(table', sorted, cache'[p].rowid) = p
    <3>1. CASE p = count
        BY <1>4, <1>6, <1>9, <2>1, <2>2, <3>1
    <3>2. CASE p \in DOMAIN cache
        BY <1>6, <1>8, <1>9, <2>1, <2>2, <3>2
    <3> QED
        BY <1>9, <3>1, <3>2
  <2> QED
      BY <1>3, <2>3, <2>4
<1>12. KeptIsRest'
    BY <1>3 DEF KeptIsRest
<1> QED
    BY <1>10, <1>11, <1>12 DEF IInv

\* A cell gets another content in the database and in the cache.
LEMMA SetKeeps ==
  ASSUME IInv, NEW row, NEW content \in Contents, SetTypedData(row, content)
  PROVE  IInv'
<1>0. Types
    BY DEF IInv
<1>1. IsTable(table) /\ \A r \in DOMAIN table : table[r] \in Contents
    BY TableIsTable DEF IInv
<1> DEFINE rowid == cache[row].rowid
<1>2. /\ selection = {} /\ row \in DOMAIN cache
      /\ table' = [r \in DOMAIN table |->
                     IF r = rowid THEN content ELSE table[r]]
      /\ cache' = [cache EXCEPT ![row].content = content]
      /\ drifted' = (drifted \/ \E r \in DOMAIN table :
                       Place(table', sorted, r) # Place(table, sorted, r))
      /\ sorted' = sorted /\ count' = count /\ selection' = selection
    BY DEF SetTypedData, deleting
<1>3. /\ DOMAIN table' = DOMAIN table
      /\ \A r \in DOMAIN table :
           table'[r] = IF r = rowid THEN content ELSE table[r]
    BY <1>2
<1>4. /\ DOMAIN cache' = DOMAIN cache
      /\ cache'[row] = [cache[row] EXCEPT !.content = content]
      /\ \A p \in DOMAIN cache : p # row => cache'[p] = cache[p]
    BY <1>2
<1>5. cache[row] \in Row
    BY <1>0, <1>2 DEF Types, TypeOK
<1>6. /\ cache'[row] \in Row /\ cache'[row].content = content
      /\ cache'[row].rowid = rowid
    BY <1>4, <1>5 DEF Row
<1>7. Types'
  <2>1. \A p \in DOMAIN cache' : cache'[p] \in Row
      BY <1>0, <1>4, <1>6 DEF Types, TypeOK
  <2>2. drifted' \in BOOLEAN
    <3>1. drifted \in BOOLEAN
        BY <1>0 DEF Types, TypeOK
    <3> QED
        BY <1>2, <3>1, Zenon
  <2>3. \A r \in DOMAIN table' : table'[r] \in Contents
      BY <1>1, <1>3
  <2>4. sorted' \in BOOLEAN
      BY <1>0, <1>2 DEF Types, TypeOK
  <2>5. /\ DOMAIN table' \subseteq 1..MaxRows
        /\ DOMAIN cache' \subseteq 0..(count' - 1)
        /\ selection' \subseteq 0..(count' - 1)
        /\ count' \in Nat
    <3>1. DOMAIN table \subseteq 1..MaxRows
          /\ DOMAIN cache \subseteq 0..(count - 1)
          /\ selection \subseteq 0..(count - 1)
          /\ count \in Nat
        BY <1>0 DEF Types, TypeOK
    <3>2. count' = count /\ selection' = selection
        BY <1>2
    <3> QED
        BY <1>3, <1>4, <3>1, <3>2
  <2> QED
      BY <2>1, <2>2, <2>3, <2>4, <2>5 DEF Types, TypeOK
<1>8. ShowsTable'
  <2> SUFFICES ASSUME ~ drifted'
               PROVE  /\ count' = Size(table')
                      /\ \A p \in DOMAIN cache' :
                           /\ cache'[p].rowid \in DOMAIN table'
                           /\ cache'[p].content = table'[cache'[p].rowid]
                           /\ Place(table', sorted', cache'[p].rowid) = p
      BY DEF ShowsTable
  <2>1. /\ ~ drifted
        /\ \A r \in DOMAIN table :
             Place(table', sorted, r) = Place(table, sorted, r)
      BY <1>2, Zenon
  <2>2. /\ count = Size(table)
        /\ \A p \in DOMAIN cache :
             /\ cache[p].rowid \in DOMAIN table
             /\ cache[p].content = table[cache[p].rowid]
             /\ Place(table, sorted, cache[p].rowid) = p
      BY <2>1 DEF IInv, ShowsTable
  <2>3. count' = Size(table')
      BY <1>2, <1>3, <2>2 DEF Size
  <2>4. ASSUME NEW p \in DOMAIN cache
        PROVE  /\ cache'[p].rowid \in DOMAIN table
               /\ cache'[p].content = table'[cache'[p].rowid]
               /\ Place(table', sorted, cache'[p].rowid) = p
    <3> HIDE DEF rowid
    <3>1. CASE p = row
        BY <1>2, <1>3, <1>6, <2>1, <2>2, <3>1 DEF rowid
    <3>2. CASE p # row
      <4>1. cache'[p] = cache[p]
          BY <1>4, <3>2
      <4>2. cache[p].rowid # rowid
          BY <1>2, <2>2, <3>2 DEF rowid
      <4>3. table'[cache[p].rowid] = table[cache[p].rowid]
          BY <1>3, <2>2, <4>2
      <4> QED
          BY <2>1, <2>2, <4>1, <4>3
    <3> QED
        BY <3>1, <3>2
  <2> QED
      BY <1>2, <1>3, <1>4, <2>3, <2>4
<1>9. KeptIsRest'
    BY <1>2 DEF KeptIsRest
<1> QED
    BY <1>7, <1>8, <1>9 DEF IInv

\* The user picks the rows that deleteRecord is to delete.
LEMMA DeleteKeeps ==
  ASSUME IInv, NEW rows \in SUBSET (0..(count - 1)), DeleteRecord(rows)
  PROVE  IInv'
<1>1. /\ selection' = rows
      /\ kept' = {r \in DOMAIN table : Place(table, sorted, r) \notin rows}
      /\ table' = table /\ sorted' = sorted /\ cache' = cache
      /\ count' = count /\ drifted' = drifted
    BY DEF DeleteRecord
<1>2. Types'
    BY <1>1 DEF IInv, Types, TypeOK
<1>3. ShowsTable'
    BY <1>1 DEF IInv, ShowsTable
<1>4. KeptIsRest'
    BY <1>1 DEF KeptIsRest
<1> QED
    BY <1>2, <1>3, <1>4 DEF IInv

\* A statement that fails ends the deletion.
LEMMA FailKeeps ==
  ASSUME IInv, RemoveFails
  PROVE  IInv'
<1>1. /\ selection' = {}
      /\ table' = table /\ sorted' = sorted /\ cache' = cache
      /\ count' = count /\ drifted' = drifted
    BY DEF RemoveFails
<1>2. Types'
    BY <1>1 DEF IInv, Types, TypeOK
<1>3. ShowsTable'
    BY <1>1 DEF IInv, ShowsTable
<1>4. KeptIsRest'
    BY <1>1 DEF KeptIsRest
<1> QED
    BY <1>2, <1>3, <1>4 DEF IInv

\* What one round of deleteRecord does to the view, at its first position.
Erased(first) ==
  /\ first \in selection /\ first \in 0..(count - 1)
  /\ \A p \in selection : first <= p
  /\ selection' = {p - 1 : p \in selection \ {first}}
  /\ count' = count - 1
  /\ sorted' = sorted
  /\ \A q \in Int :
       q \in DOMAIN cache' <=> \/ q < first /\ q \in DOMAIN cache
                               \/ q >= first /\ q + 1 \in DOMAIN cache
  /\ DOMAIN cache' \subseteq Int
  /\ \A q \in DOMAIN cache' :
       cache'[q] = IF q < first THEN cache[q] ELSE cache[q + 1]

\* The first selected position leaves the view and the selection.
LEMMA RemovalErases ==
  ASSUME IInv, RemoveRow
  PROVE  Erased(FirstSelected)
<1> DEFINE first == FirstSelected
<1>0. /\ count \in Nat /\ DOMAIN cache \subseteq 0..(count - 1)
      /\ selection \subseteq 0..(count - 1)
    BY DEF IInv, Types, TypeOK
<1>1. first \in selection /\ \A p \in selection : first <= p
  <2>1. selection \in SUBSET Nat /\ selection # {}
      BY <1>0 DEF RemoveRow
  <2> QED
      BY <2>1, MinIsLeast DEF FirstSelected
<1>2. first \in 0..(count - 1) /\ first \in Nat
    BY <1>0, <1>1
<1>3. /\ selection' = {p - 1 : p \in selection \ {first}}
      /\ count' = count - 1 /\ sorted' = sorted
      /\ Cache!Erase(first)
    BY DEF RemoveRow
<1> DEFINE D == {x \in DOMAIN cache : x < first}
                  \cup {x - 1 : x \in {y \in DOMAIN cache : y > first}}
<1> HIDE DEF first
<1>4. cache' = [q \in D |-> IF q < first THEN cache[q] ELSE cache[q + 1]]
    BY <1>3 DEF Cache!Erase
<1>5. ASSUME NEW q \in Int
      PROVE  q \in D <=> \/ q < first /\ q \in DOMAIN cache
                         \/ q >= first /\ q + 1 \in DOMAIN cache
  <2>1. q \in {x - 1 : x \in {y \in DOMAIN cache : y > first}} <=>
          q >= first /\ q + 1 \in DOMAIN cache
      BY <1>0, <1>2
  <2> QED
      BY <2>1
<1>6. D \subseteq Int
    BY <1>0
<1> HIDE DEF D
<1>7. /\ DOMAIN cache' = D
      /\ \A q \in DOMAIN cache' :
           cache'[q] = IF q < first THEN cache[q] ELSE cache[q + 1]
    BY <1>4
<1>8. Erased(first)
    BY <1>1, <1>2, <1>3, <1>5, <1>6, <1>7 DEF Erased
<1> QED
    BY <1>8 DEF first

\* The view stays within its bounds.
LEMMA RemovalTypes ==
  ASSUME IInv, RemoveRow
  PROVE  Types'
<1> DEFINE first == FirstSelected
<1>0. /\ count \in Nat /\ DOMAIN cache \subseteq 0..(count - 1)
      /\ selection \subseteq 0..(count - 1)
      /\ \A p \in DOMAIN cache : cache[p] \in Row
      /\ DOMAIN table \subseteq 1..MaxRows
      /\ \A r \in DOMAIN table : table[r] \in Contents
      /\ sorted \in BOOLEAN /\ drifted \in BOOLEAN
    BY DEF IInv, Types, TypeOK
<1>1. Erased(first)
    BY RemovalErases
<1>2. drifted' \in BOOLEAN
  <2>1. drifted' = (drifted \/ FirstSelected \notin DOMAIN cache)
      BY DEF RemoveRow
  <2> QED
      BY <1>0, <2>1, Zenon
<1>3. /\ DOMAIN table' \subseteq DOMAIN table
      /\ \A r \in DOMAIN table' : table'[r] = table[r]
    BY DEF RemoveRow
<1> HIDE DEF first
<1>4. count' \in Nat /\ sorted' \in BOOLEAN
    BY <1>0, <1>1 DEF Erased
<1>5. DOMAIN cache' \subseteq 0..(count' - 1)
    BY <1>0, <1>1 DEF Erased
<1>6. \A p \in DOMAIN cache' : cache'[p] \in Row
    BY <1>0, <1>1 DEF Erased
<1>7. selection' \subseteq 0..(count' - 1)
  <2> SUFFICES ASSUME NEW p \in selection \ {first}
               PROVE  p - 1 \in 0..(count' - 1)
      BY <1>1 DEF Erased
  <2>1. first <= p /\ p # first /\ p \in 0..(count - 1) /\ first \in Nat
      BY <1>0, <1>1 DEF Erased
  <2>2. count' = count - 1
      BY <1>1 DEF Erased
  <2> QED
      BY <1>0, <2>1, <2>2
<1>8. /\ DOMAIN table' \subseteq 1..MaxRows
      /\ \A r \in DOMAIN table' : table'[r] \in Contents
    BY <1>0, <1>3
<1> QED
    BY <1>2, <1>4, <1>5, <1>6, <1>7, <1>8 DEF Types, TypeOK

\* As long as the view shows the table, the row that goes is the one at the
\* first selected position, and those behind it move up with their positions.
LEMMA RemovalMoves ==
  ASSUME IInv, RemoveRow, ~ drifted'
  PROVE  \E n \in DOMAIN table :
           /\ ~ drifted
           /\ FirstSelected \in DOMAIN cache
           /\ Place(table, sorted, n) = FirstSelected
           /\ DOMAIN table' = DOMAIN table \ {n}
           /\ Size(table') = Size(table) - 1
           /\ \A r \in DOMAIN table' :
                /\ table'[r] = table[r]
                /\ Place(table, sorted, r) \in Nat
                /\ Place(table, sorted, r) # FirstSelected
                /\ Place(table', sorted, r) =
                     IF Place(table, sorted, r) < FirstSelected
                     THEN Place(table, sorted, r)
                     ELSE Place(table, sorted, r) - 1
<1>1. ~ drifted /\ FirstSelected \in DOMAIN cache
  <2>1. drifted' = (drifted \/ FirstSelected \notin DOMAIN cache)
      BY DEF RemoveRow
  <2> QED
      BY <2>1, Zenon
<1> DEFINE first == FirstSelected
           n == cache[first].rowid
<1>2. n \in DOMAIN table /\ Place(table, sorted, n) = first
    BY <1>1 DEF IInv, ShowsTable
<1>3. table' = [r \in DOMAIN table \ {n} |-> table[r]]
    BY <1>1 DEF RemoveRow
<1>4. IsTable(table) /\ IsTable(table')
  <2>1. IsTable(table)
      BY TableIsTable DEF IInv
  <2> QED
      BY <1>3, <2>1 DEF IsTable
<1> HIDE DEF first, n
<1>5. /\ DOMAIN table' = DOMAIN table \ {n}
      /\ \A r \in DOMAIN table' : table'[r] = table[r]
    BY <1>3
<1>6. /\ Size(table') = Size(table) - 1
      /\ \A r \in DOMAIN table' :
           /\ Place(table, sorted, r) # Place(table, sorted, n)
           /\ Place(table', sorted, r) =
                IF Place(table, sorted, r) < Place(table, sorted, n)
                THEN Place(table, sorted, r)
                ELSE Place(table, sorted, r) - 1
    BY <1>2, <1>4, <1>5, RemainingPlaces
<1>7. \A r \in DOMAIN table' : Place(table, sorted, r) \in Nat
    BY <1>4, <1>5, Placed
<1> QED
    BY <1>1, <1>2, <1>5, <1>6, <1>7 DEF first

\* removeRows, in the loop of deleteRecord.
LEMMA RemoveKeeps ==
  ASSUME IInv, RemoveRow
  PROVE  IInv'
<1>0. /\ count \in Nat /\ DOMAIN cache \subseteq 0..(count - 1)
      /\ selection \subseteq 0..(count - 1)
    BY DEF IInv, Types, TypeOK
<1>1. Types'
    BY RemovalTypes
<1>2. PICK first : first = FirstSelected
    OBVIOUS
<1>3. Erased(first)
    BY <1>2, RemovalErases
<1>4. first \in Nat
    BY <1>3 DEF Erased
<1> SUFFICES ASSUME ~ drifted' PROVE ShowsTable' /\ KeptIsRest'
    BY <1>1 DEF IInv, ShowsTable, KeptIsRest
<1>5. PICK n \in DOMAIN table :
        /\ ~ drifted
        /\ first \in DOMAIN cache
        /\ Place(table, sorted, n) = first
        /\ DOMAIN table' = DOMAIN table \ {n}
        /\ Size(table') = Size(table) - 1
        /\ \A r \in DOMAIN table' :
             /\ table'[r] = table[r]
             /\ Place(table, sorted, r) \in Nat
             /\ Place(table, sorted, r) # first
             /\ Place(table', sorted, r) =
                  IF Place(table, sorted, r) < first
                  THEN Place(table, sorted, r)
                  ELSE Place(table, sorted, r) - 1
    BY <1>2, RemovalMoves
<1>6. /\ count = Size(table)
      /\ \A p \in DOMAIN cache :
           /\ cache[p].rowid \in DOMAIN table
           /\ cache[p].content = table[cache[p].rowid]
           /\ Place(table, sorted, cache[p].rowid) = p
    BY <1>5 DEF IInv, ShowsTable
<1>7. count' = Size(table') /\ sorted' = sorted
    BY <1>3, <1>5, <1>6 DEF Erased
<1>8. ASSUME NEW q \in DOMAIN cache'
      PROVE  /\ cache'[q].rowid \in DOMAIN table'
             /\ cache'[q].content = table'[cache'[q].rowid]
             /\ Place(table', sorted, cache'[q].rowid) = q
  <2>1. /\ q \in Int
        /\ \/ q < first /\ q \in DOMAIN cache
           \/ q >= first /\ q + 1 \in DOMAIN cache
        /\ cache'[q] = IF q < first THEN cache[q] ELSE cache[q + 1]
      BY <1>3 DEF Erased
  <2>2. PICK p \in DOMAIN cache : /\ cache'[q] = cache[p] /\ p # first
                                  /\ p < first => p = q
                                  /\ p > first => p - 1 = q
    <3>1. CASE q < first
        BY <1>4, <2>1, <3>1
    <3>2. CASE q >= first
        BY <1>4, <2>1, <3>2
    <3> QED
        BY <1>4, <2>1, <3>1, <3>2
  <2> DEFINE r == cache[p].rowid
  <2>3. /\ r \in DOMAIN table /\ cache[p].content = table[r]
        /\ Place(table, sorted, r) = p
      BY <1>6
  <2>4. r # n
      BY <1>5, <2>2, <2>3
  <2> HIDE DEF r
  <2>5. /\ table'[r] = table[r] /\ r \in DOMAIN table'
        /\ Place(table', sorted, r) = IF p < first THEN p ELSE p - 1
      BY <1>5, <2>3, <2>4
  <2>6. p \in Nat
      BY <1>0
  <2>7. Place(table', sorted, r) = q
      BY <1>4, <2>2, <2>5, <2>6
  <2> QED
      BY <2>2, <2>3, <2>5, <2>7 DEF r
<1>9. ShowsTable'
    BY <1>7, <1>8 DEF ShowsTable
<1>10. ASSUME selection' # {}
       PROVE  kept' = {r \in DOMAIN table' :
                         Place(table', sorted', r) \notin selection'}
  <2>1. kept = {r \in DOMAIN table : Place(table, sorted, r) \notin selection}
    <3>1. selection # {}
        BY DEF RemoveRow
    <3> QED
        BY <1>5, <3>1 DEF IInv, KeptIsRest
  <2>2. kept' = kept
      BY <1>10 DEF RemoveRow
  <2>3. n \notin kept
      BY <1>3, <1>5, <2>1 DEF Erased
  <2>4. ASSUME NEW r \in DOMAIN table'
        PROVE  Place(table', sorted, r) \in selection' <=>
                 Place(table, sorted, r) \in selection
    <3> DEFINE m == Place(table, sorted, r)
               m2 == Place(table', sorted, r)
    <3>1. /\ m \in Nat /\ m # first
          /\ m2 = IF m < first THEN m ELSE m - 1
        BY <1>5
    <3> HIDE DEF m, m2
    <3>2. /\ selection' = {p - 1 : p \in selection \ {first}}
          /\ \A p \in selection : first <= p /\ p \in Nat
        BY <1>0, <1>3 DEF Erased
    <3>3. CASE m < first
      <4>1. m \notin selection
          BY <1>4, <3>1, <3>2, <3>3
      <4>2. ASSUME NEW p \in selection \ {first} PROVE p - 1 # m
          BY <1>4, <3>1, <3>2, <3>3
      <4> QED
          BY <3>1, <3>2, <3>3, <4>1, <4>2 DEF m, m2
    <3>4. CASE ~ (m < first)
      <4>1. \A p \in selection : p - 1 = m - 1 <=> p = m
          BY <3>1, <3>2
      <4> QED
          BY <3>1, <3>2, <3>4, <4>1 DEF m, m2
    <3> QED
        BY <3>3, <3>4
  <2> QED
      BY <1>5, <1>7, <2>1, <2>2, <2>3, <2>4
<1>11. KeptIsRest'
    BY <1>10 DEF KeptIsRest
<1> QED
    BY <1>9, <1>11

\* Every step keeps the invariant.
LEMMA NextKeeps == IInv /\ [Next]_vars => IInv'
<1> SUFFICES ASSUME IInv, [Next]_vars PROVE IInv'
    OBVIOUS
<1>1. CASE Sort
  <2>1. (~ sorted) \in BOOLEAN
      BY DEF IInv, Types, TypeOK
  <2> QED
      BY <1>1, <2>1, QueryKeeps DEF Sort
<1>2. CASE Refresh
  <2>1. sorted \in BOOLEAN
      BY DEF IInv, Types, TypeOK
  <2> QED
      BY <1>2, <2>1, QueryKeeps DEF Refresh
<1>3. CASE \E row \in 0..(MaxRows - 1) : Load(row)
    BY <1>3, LoadKeeps
<1>4. CASE \E row \in 0..(MaxRows - 1), content \in Contents :
             SetTypedData(row, content)
    BY <1>4, SetKeeps
<1>5. CASE InsertRow
    BY <1>5, InsertKeeps
<1>6. CASE \E rows \in SUBSET (0..(count - 1)) : DeleteRecord(rows)
    BY <1>6, DeleteKeeps
<1>7. CASE RemoveRow
    BY <1>7, RemoveKeeps
<1>8. CASE RemoveFails
    BY <1>8, FailKeeps
<1>9. CASE UNCHANGED vars
    BY <1>9 DEF vars, IInv, Types, TypeOK, ShowsTable, KeptIsRest
<1> QED
    BY <1>1, <1>2, <1>3, <1>4, <1>5, <1>6, <1>7, <1>8, <1>9 DEF Next

\* A round of deleteRecord deletes no row that is to be kept, and the last
\* one leaves no other.
LEMMA RoundDeletesSelection ==
  ASSUME IInv, [Next]_vars, selection # {}, count' < count, ~ drifted'
  PROVE  /\ kept \subseteq DOMAIN table'
         /\ selection' = {} => DOMAIN table' = kept
<1>1. RemoveRow
  <2>1. count' # count
      BY DEF IInv, Types
  <2>2. ~ Sort /\ ~ Refresh
      BY DEF Sort, Refresh, Query
  <2>3. \A row : ~ Load(row)
      BY DEF Load
  <2>4. \A row, content : ~ SetTypedData(row, content)
      BY DEF SetTypedData
  <2>5. ~ InsertRow
      BY DEF InsertRow
  <2>6. \A rows : ~ DeleteRecord(rows)
      BY DEF DeleteRecord
  <2>7. ~ RemoveFails /\ ~ UNCHANGED vars
      BY <2>1 DEF RemoveFails, vars
  <2> QED
      BY <2>2, <2>3, <2>4, <2>5, <2>6, <2>7 DEF Next
<1>2. PICK first : first = FirstSelected
    OBVIOUS
<1>3. Erased(first)
    BY <1>1, <1>2, RemovalErases
<1>4. PICK n \in DOMAIN table :
        /\ ~ drifted
        /\ first \in DOMAIN cache
        /\ Place(table, sorted, n) = first
        /\ DOMAIN table' = DOMAIN table \ {n}
        /\ Size(table') = Size(table) - 1
        /\ \A r \in DOMAIN table' :
             /\ table'[r] = table[r]
             /\ Place(table, sorted, r) \in Nat
             /\ Place(table, sorted, r) # first
             /\ Place(table', sorted, r) =
                  IF Place(table, sorted, r) < first
                  THEN Place(table, sorted, r)
                  ELSE Place(table, sorted, r) - 1
    BY <1>1, <1>2, RemovalMoves
<1>5. kept = {r \in DOMAIN table : Place(table, sorted, r) \notin selection}
    BY <1>4 DEF IInv, KeptIsRest
<1>6. kept \subseteq DOMAIN table'
    BY <1>3, <1>4, <1>5 DEF Erased
<1>7. ASSUME selection' = {} PROVE DOMAIN table' \subseteq kept
  <2>1. selection \ {first} = {}
      BY <1>3, <1>7 DEF Erased
  <2>2. \A r \in DOMAIN table' : Place(table, sorted, r) \notin selection
      BY <1>4, <2>1
  <2> QED
      BY <1>4, <1>5, <2>2
<1> QED
    BY <1>6, <1>7

\* The invariant holds in every reachable state.
LEMMA Invariant == Spec => []IInv
<1>1. Init => IInv
    BY Initially
<1> QED
    BY <1>1, NextKeeps, PTL DEF Spec

-----------------------------------------------------------------------------
(* The cache and the selection stay inside the row count, and the table    *)
(* holds what it can hold, whatever is inserted, changed, deleted, loaded  *)
(* and sorted.                                                             *)
THEOREM Typed == Spec => []TypeOK
<1>1. IInv => TypeOK
    BY DEF IInv, Types
<1> QED
    BY <1>1, Invariant, PTL

(* As long as no edit moved a row to another place of the query, the view  *)
(* counts the rows of the table, and every cached row is the one at its    *)
(* position with its present content, though insertRows, removeRows and    *)
(* setTypedData never fetch anything again.                                *)
THEOREM ViewShowsTable == Spec => []ShowsTable
<1>1. IInv => ShowsTable
    BY DEF IInv
<1> QED
    BY <1>1, Invariant, PTL

(* deleteRecord deletes rows that were selected and, if it comes to its    *)
(* end, all of them, although every row it deletes moves those behind it.  *)
THEOREM SelectionIsDeleted == Spec => DeletesSelection
<1>1. IInv /\ [Next]_vars =>
        [selection # {} /\ count' < count /\ ~drifted' =>
           /\ kept \subseteq DOMAIN table'
           /\ selection' = {} => DOMAIN table' = kept]_vars
    BY RoundDeletesSelection
<1> QED
    BY <1>1, Invariant, PTL DEF Spec, DeletesSelection
===============================================================================
