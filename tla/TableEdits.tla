------------------------------ MODULE TableEdits ------------------------------
(***************************************************************************)
(* Editing a table through SqliteTableModel.  The model addresses a row by *)
(* its position in the view, the database by its rowid, and rows that are  *)
(* not in the cache are fetched by their position in the order of the      *)
(* query.  Edits change the database, the cache and the row count together *)
(* and never fetch anything again, so the positions must keep their        *)
(* meaning.  Edits are refused while the loader reads: a load is one step. *)
(***************************************************************************)
EXTENDS Integers, FiniteSets, FiniteSetsExt

CONSTANTS
  MaxRows,   \* bound: the rowids are 1..MaxRows
  Contents,  \* what a cell can hold, numbers, which sort as such
  Default,   \* the content of a new row
  HalfChunk  \* m_chunkSize / 2

ASSUME TableEditsAssumption == /\ MaxRows \in Nat
                               /\ Contents \subseteq Nat
                               /\ Default \in Contents
                               /\ HalfChunk \in Nat \ {0}

VARIABLES
  table,      \* the rows of the database: from rowid to content
  sorted,     \* does the query order by the content?
  cache,      \* m_cache: from position to rowid and content
  count,      \* m_realRowCount, which m_currentRowCount equals here
  selection,  \* the selected positions that deleteRecord still has to delete
  kept,       \* history: the rowids that were not selected when it started
  drifted     \* history: have positions in the view lost their meaning?

vars == <<table, sorted, cache, count, selection, kept, drifted>>
deleting == <<selection, kept>>

Row == [rowid : 1..MaxRows, content : Contents]

Cache == INSTANCE SparseVector
           WITH vec <- cache, Values <- Row, MaxPos <- MaxRows

(***************************************************************************)
(* The database.                                                           *)
(***************************************************************************)
\* Does the query return row r before row s?
Precedes(rows, byContent, r, s) ==
  IF byContent /\ rows[r] # rows[s] THEN rows[r] < rows[s] ELSE r < s

\* The position of row r in the order of the query.
Place(rows, byContent, r) ==
  Cardinality({s \in DOMAIN rows : Precedes(rows, byContent, s, r)})

\* Rows first..last - 1 of the query, as far as there are any.
Fetched(rows, byContent, first, last) ==
  LET At(p) == CHOOSE r \in DOMAIN rows : Place(rows, byContent, r) = p
  IN  [p \in {Place(rows, byContent, r) : r \in DOMAIN rows}
               \cap (first..(last - 1)) |->
         [rowid |-> At(p), content |-> rows[At(p)]]]

Size(rows) == Cardinality(DOMAIN rows)

\* The cache and the selection keep inside the row count.
TypeOK ==
  /\ DOMAIN table \subseteq 1..MaxRows
  /\ \A r \in DOMAIN table : table[r] \in Contents
  /\ sorted \in BOOLEAN
  /\ DOMAIN cache \subseteq 0..(count - 1)
  /\ \A p \in DOMAIN cache : cache[p] \in Row
  /\ selection \subseteq 0..(count - 1)
  /\ drifted \in BOOLEAN

Init ==
  /\ \E rows \in SUBSET (1..MaxRows) : table \in [rows -> Contents]
  /\ sorted = FALSE
  /\ cache = Fetched(table, FALSE, 0, 2 * HalfChunk - 1)
  /\ count = Size(table)
  /\ selection = {}
  /\ kept = {}
  /\ drifted = FALSE

(***************************************************************************)
(* Loading.                                                                *)
(***************************************************************************)
\* updateAndRunQuery clears the cache and loads around HalfChunk - 1.
Query(byContent) ==
  /\ selection = {}
  /\ sorted' = byContent
  /\ cache' = Fetched(table, byContent, 0, 2 * HalfChunk - 1)
  /\ count' = Size(table)
  /\ drifted' = FALSE
  /\ UNCHANGED <<table, selection, kept>>

Sort == Query(~sorted)
Refresh == Query(sorted)

\* triggerCacheLoad: the smallest range around the row that holds all that
\* is missing.
Load(row) ==
  LET missing == {p \in 0..(count - 1) : /\ p \notin DOMAIN cache
                                         /\ p >= row - HalfChunk
                                         /\ p < row + HalfChunk}
  IN  /\ selection = {}
      /\ missing # {}
      /\ LET found == Fetched(table, sorted, Min(missing), Max(missing) + 1)
         IN  cache' = [p \in DOMAIN cache \cup DOMAIN found |->
                         IF p \in DOMAIN found THEN found[p] ELSE cache[p]]
      /\ UNCHANGED <<table, sorted, count, drifted>>
      /\ UNCHANGED deleting

(***************************************************************************)
(* Editing.                                                                *)
(***************************************************************************)
\* Mutant: the inserted row is not counted.
InsertRow_NoCount ==
  /\ selection = {}
  /\ \E rowid \in 1..MaxRows :
       /\ rowid = 1 + Max(DOMAIN table \cup {0})
       /\ LET row == [rowid |-> rowid, content |-> Default]
          IN  /\ table' = [r \in DOMAIN table \cup {rowid} |->
                             IF r = rowid THEN Default ELSE table[r]]
              /\ Cache!Insert(count, row)
              /\ drifted' = (drifted \/ Place(table', sorted, rowid) # Size(table))
  /\ UNCHANGED <<sorted, count>>
  /\ UNCHANGED deleting

\* Every caller inserts one row at the end of the view.  The database gives
\* it the next rowid and default values, which need not sort last.
InsertRow ==
  /\ selection = {}
  /\ \E rowid \in 1..MaxRows :
       /\ rowid = 1 + Max(DOMAIN table \cup {0})
       /\ LET row == [rowid |-> rowid, content |-> Default]
          IN  /\ table' = [r \in DOMAIN table \cup {rowid} |->
                             IF r = rowid THEN Default ELSE table[r]]
              /\ Cache!Insert(count, row)
              /\ count' = count + 1
              /\ drifted' = (drifted \/ Place(table', sorted, rowid) # Size(table))
  /\ UNCHANGED sorted
  /\ UNCHANGED deleting

\* Mutant: the cache keeps the old content.
SetTypedData_DbOnly(row, content) ==
  /\ selection = {}
  /\ row \in DOMAIN cache
  /\ cache[row].content # content
  /\ LET rowid == cache[row].rowid
     IN  /\ table' = [r \in DOMAIN table |->
                        IF r = rowid THEN content ELSE table[r]]
         /\ drifted' = (drifted \/ \E r \in DOMAIN table :
                          Place(table', sorted, r) # Place(table, sorted, r))
  /\ UNCHANGED <<sorted, cache, count>>
  /\ UNCHANGED deleting

\* A cell that is in the cache gets another content; it is not part of the
\* rowid.  If the view is sorted by it the row may have another place now.
SetTypedData(row, content) ==
  /\ selection = {}
  /\ row \in DOMAIN cache
  /\ cache[row].content # content
  /\ LET rowid == cache[row].rowid
     IN  /\ table' = [r \in DOMAIN table |->
                        IF r = rowid THEN content ELSE table[r]]
         /\ cache' = [cache EXCEPT ![row].content = content]
         /\ drifted' = (drifted \/ \E r \in DOMAIN table :
                          Place(table', sorted, r) # Place(table, sorted, r))
  /\ UNCHANGED <<sorted, count>>
  /\ UNCHANGED deleting

\* The user selects rows and deletes them.
DeleteRecord(rows) ==
  /\ selection = {}
  /\ rows # {}
  /\ selection' = rows
  /\ kept' = {r \in DOMAIN table : Place(table, sorted, r) \notin rows}
  /\ UNCHANGED <<table, sorted, cache, count, drifted>>

FirstSelected == Min(selection)

\* Mutant: the selection keeps its positions when rows above it go.
RemoveRow_Stay ==
  /\ selection # {}
  /\ table' = [r \in IF FirstSelected \in DOMAIN cache
                     THEN DOMAIN table \ {cache[FirstSelected].rowid}
                     ELSE DOMAIN table |-> table[r]]
  /\ Cache!Erase(FirstSelected)
  /\ count' = count - 1
  /\ selection' = selection \ {FirstSelected}
  /\ drifted' = (drifted \/ FirstSelected \notin DOMAIN cache)
  /\ kept' = IF selection' = {} THEN {} ELSE kept
  /\ UNCHANGED sorted

\* One round of its loop deletes the first row of the selection: from the
\* database if it is in the cache, and from the view.  What is left of the
\* selection moves up.
RemoveRow ==
  /\ selection # {}
  /\ table' = [r \in IF FirstSelected \in DOMAIN cache
                     THEN DOMAIN table \ {cache[FirstSelected].rowid}
                     ELSE DOMAIN table |-> table[r]]
  /\ Cache!Erase(FirstSelected)
  /\ count' = count - 1
  /\ selection' = {p - 1 : p \in selection \ {FirstSelected}}
  /\ drifted' = (drifted \/ FirstSelected \notin DOMAIN cache)
  /\ kept' = IF selection' = {} THEN {} ELSE kept
  /\ UNCHANGED sorted

\* A statement that fails changes nothing and ends the loop.
RemoveFails ==
  /\ selection # {}
  /\ selection' = {}
  /\ kept' = {}
  /\ UNCHANGED <<table, sorted, cache, count, drifted>>

Next ==
  \/ Sort
  \/ Refresh
  \/ \E row \in 0..(MaxRows - 1) :
       \/ Load(row)
       \/ \E content \in Contents : SetTypedData(row, content)
  \/ InsertRow
  \/ \E rows \in SUBSET (0..(count - 1)) : DeleteRecord(rows)
  \/ RemoveRow
  \/ RemoveFails

Spec == Init /\ [][Next]_vars

(***************************************************************************)
(* Properties.                                                             *)
(***************************************************************************)
\* As long as no edit has moved a row to another place of the query, the view
\* counts the rows of the table and shows each one at its position, whatever
\* edits, loads and sorts were mixed (insertRows, removeRows, setTypedData).
ShowsTable ==
  ~drifted =>
    /\ count = Size(table)
    /\ \A p \in DOMAIN cache :
         /\ cache[p].rowid \in DOMAIN table
         /\ cache[p].content = table[cache[p].rowid]
         /\ Place(table, sorted, cache[p].rowid) = p

\* deleteRecord deletes rows that were selected and, if it comes to its end,
\* all of them, although positions change while it runs.
DeletesSelection ==
  [][selection # {} /\ count' < count /\ ~drifted' =>
       /\ kept \subseteq DOMAIN table'
       /\ selection' = {} => DOMAIN table' = kept]_vars

===============================================================================
