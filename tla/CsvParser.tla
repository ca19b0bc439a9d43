------------------------------ MODULE CsvParser ------------------------------
(***************************************************************************)
(* CSVParser::parse, one byte at a time.  The stream is read in blocks of  *)
(* characters, which become bytes in UTF-8; look_ahead may have to read    *)
(* one more character at the end of a block.  A row that is complete goes  *)
(* to the row function of the caller, which may refuse it, and after a     *)
(* block the user may cancel.  What the rows were before they were written *)
(* to the file is part of the job (see MCCsvParser).                       *)
(***************************************************************************)
EXTENDS Integers, Sequences, SequencesExt

CONSTANTS
  Jobs,         \* what may be parsed: the rows, the text, format and limits
  Utf8,         \* the bytes of each character
  CR, LF,       \* the bytes of line ends
  Spaces,       \* the bytes that isspace accepts, CR and LF among them
  ProgressRows  \* the progress is updated after this many rows

Byte == UNION {Range(Utf8[c]) : c \in DOMAIN Utf8}

ASSUME CsvAssumption ==
  /\ {CR, LF} \subseteq Spaces
  /\ ProgressRows \in Nat \ {0}
  /\ \A c \in DOMAIN Utf8 : Utf8[c] \in Seq(Byte) \ {<<>>}
  /\ \A j \in Jobs : /\ j.text \in Seq(DOMAIN Utf8)
                     /\ j.blockSize \in Nat \ {0}
                     /\ j.maxRecords \in Nat

VARIABLES
  job,      \* the parameters of the parser and of parse
  unread,   \* the characters left in the stream
  buffer,   \* sBuffer, as bytes
  it,       \* the position in it, Len(buffer) + 1 when it is used up
  state,    \* the state of the parser
  record,   \* the finished fields of the current row
  field,    \* the bytes of the current field
  rows,     \* the rows handed to the row function
  result    \* "none" until parse returns

vars == <<job, unread, buffer, it, state, record, field, rows, result>>

\* The buffer and the stream agree with the text, and parse has not returned
\* in the middle of a row unless it failed.
TypeOK ==
  /\ IsSuffix(unread, job.text)
  /\ it \in 1..Len(buffer) + 1
  /\ state \in {"normal", "inQuote", "endQuote"}
  /\ result \in {"none", "success", "cancelled", "error", "eof"}
  /\ result \in {"success", "eof", "error"} => record = <<>> /\ field = <<>>

Init ==
  /\ job \in Jobs
  /\ unread = job.text
  /\ buffer = <<>>
  /\ it = 1
  /\ state = "normal"
  /\ record = <<>>
  /\ field = <<>>
  /\ rows = <<>>
  /\ result = "none"

(***************************************************************************)
(* Fields and rows.                                                        *)
(***************************************************************************)
\* addColumn omits the spaces at both ends.
Trim(bytes) ==
  LET solid == {i \in 1..Len(bytes) : bytes[i] \notin Spaces}
      first == CHOOSE i \in solid : \A j \in solid : i <= j
      last == CHOOSE i \in solid : \A j \in solid : j <= i
  IN  IF solid = {} THEN <<>> ELSE SubSeq(bytes, first, last)

Column == IF job.trim THEN Trim(field) ELSE field

AddChar(c) ==
  /\ field' = Append(field, c)
  /\ UNCHANGED <<record, rows, result>>

AddColumn ==
  /\ record' = Append(record, Column)
  /\ field' = <<>>
  /\ UNCHANGED <<rows, result>>

\* The last column and the row, which the row function may refuse.
AddRow(after) ==
  /\ rows' = Append(rows, Append(record, Column))
  /\ record' = <<>>
  /\ field' = <<>>
  /\ result' \in {after, "error"}

\* The limit is looked at after every byte; 0 is no limit.
AfterRow == IF Len(rows) + 1 = job.maxRecords THEN "success" ELSE "none"

NoOutput == UNCHANGED <<record, field, rows, result>>

(***************************************************************************)
(* look_ahead.  At the end of the buffer it reads one more character and   *)
(* goes back to the last byte but one, which is the present byte if that   *)
(* character is one byte.                                                  *)
(***************************************************************************)
\* Mutant: the extra character at the end of a block is never read.
LooksBeyond_Never == FALSE

LooksBeyond == it = Len(buffer) /\ unread # <<>>

LookBuffer == IF LooksBeyond THEN buffer \o Utf8[Head(unread)] ELSE buffer

LookIt == IF LooksBeyond THEN Len(LookBuffer) - 1 ELSE it

LookAhead(expected) ==
  /\ LookIt < Len(LookBuffer)
  /\ LookBuffer[LookIt + 1] = expected

\* The loop goes on to the next byte, after a look ahead or without one.
Next1 ==
  /\ it' = it + 1
  /\ UNCHANGED <<unread, buffer>>

NextAfterLook(extra) ==
  /\ it' = LookIt + extra + 1
  /\ buffer' = LookBuffer
  /\ unread' = IF LooksBeyond THEN Tail(unread) ELSE unread

\* A separator or quote of several bytes: the second one is compared.
Matches(special) == Len(special) > 1 => LookAhead(special[2])

NextAfter(special) ==
  IF Len(special) = 1 THEN Next1 ELSE NextAfterLook(Len(special) - 1)

\* The first byte without the second one is passed over.
PassOver ==
  /\ NextAfterLook(0)
  /\ NoOutput
  /\ UNCHANGED state

(***************************************************************************)
(* The states, by the byte c.                                              *)
(***************************************************************************)
Separator(c) ==
  /\ state # "inQuote"
  /\ c = job.separator[1]
  /\ IF Matches(job.separator)
     THEN /\ AddColumn
          /\ state' = "normal"
          /\ NextAfter(job.separator)
     ELSE PassOver

\* A quote in a field that has ended stands for one quote.
Quote(c) ==
  /\ c = job.quote[1]
  /\ IF Matches(job.quote)
     THEN /\ state' = IF state = "inQuote" THEN "endQuote" ELSE "inQuote"
          /\ IF state = "endQuote" THEN AddChar(c) ELSE NoOutput
          /\ NextAfter(job.quote)
     ELSE PassOver

LineFeed(c) ==
  /\ state # "inQuote"
  /\ c = LF
  /\ AddRow(AfterRow)
  /\ state' = "normal"
  /\ Next1

\* The line feed of a pair ends the row.  The state stays as it is.
CarriageReturn(c) ==
  /\ state # "inQuote"
  /\ c = CR
  /\ IF LookAhead(LF) THEN NoOutput ELSE AddRow(AfterRow)
  /\ NextAfterLook(0)
  /\ UNCHANGED state

OtherByte(c) ==
  /\ c # job.quote[1]
  /\ state # "inQuote" => c \notin {job.separator[1], CR, LF}
  /\ AddChar(c)
  /\ state' = IF state = "inQuote" THEN "inQuote" ELSE "normal"
  /\ Next1

ParseByte ==
  /\ result = "none"
  /\ it <= Len(buffer)
  /\ LET c == buffer[it]
     IN  \/ Separator(c) \/ Quote(c) \/ LineFeed(c) \/ CarriageReturn(c)
         \/ OtherByte(c)
  /\ UNCHANGED job

(***************************************************************************)
(* Blocks and the end.                                                     *)
(***************************************************************************)
BlockDone == result = "none" /\ it > Len(buffer)

\* Mutant: only full blocks are read.
ReadBlock_Full ==
  /\ BlockDone
  /\ job.blockSize <= Len(unread)
  /\ buffer' = FlattenSeq([i \in 1..job.blockSize |-> Utf8[unread[i]]])
  /\ unread' = SubSeq(unread, job.blockSize + 1, Len(unread))
  /\ it' = 1
  /\ NoOutput
  /\ UNCHANGED <<job, state>>

ReadBlock ==
  /\ BlockDone
  /\ unread # <<>>
  /\ LET size == IF job.blockSize < Len(unread) THEN job.blockSize
                                                ELSE Len(unread)
     IN  /\ buffer' = FlattenSeq([i \in 1..size |-> Utf8[unread[i]]])
         /\ unread' = SubSeq(unread, size + 1, Len(unread))
  /\ it' = 1
  /\ NoOutput
  /\ UNCHANGED <<job, state>>

\* The user cancels when the progress is updated after a block.
Cancel ==
  /\ BlockDone
  /\ buffer # <<>>
  /\ Len(rows) % ProgressRows = 0
  /\ result' = "cancelled"
  /\ UNCHANGED <<job, unread, buffer, it, state, record, field, rows>>

\* Mutant: the last row needs a line end.
Finish_NoLast ==
  /\ BlockDone
  /\ unread = <<>>
  /\ result' = IF state = "inQuote" THEN "eof" ELSE "success"
  /\ UNCHANGED <<job, unread, buffer, it, state, record, field, rows>>

\* Mutant: a quote that is still open is no error.
Finish_AnyState ==
  /\ BlockDone
  /\ unread = <<>>
  /\ IF record # <<>> \/ field # <<>>
     THEN AddRow("success")
     ELSE result' = "success" /\ UNCHANGED <<record, field, rows>>
  /\ UNCHANGED <<job, unread, buffer, it, state>>

\* A last row without a line end, and the result.
Finish ==
  /\ BlockDone
  /\ unread = <<>>
  /\ LET outcome == IF state = "inQuote" THEN "eof" ELSE "success"
     IN  IF record # <<>> \/ field # <<>>
         THEN AddRow(outcome)
         ELSE result' = outcome /\ UNCHANGED <<record, field, rows>>
  /\ UNCHANGED <<job, unread, buffer, it, state>>

Next == ParseByte \/ ReadBlock \/ Cancel \/ Finish

Spec == Init /\ [][Next]_vars /\ WF_vars(Next)

(***************************************************************************)
(* Properties.                                                             *)
(***************************************************************************)
\* The row function gets the rows that were written, in their order, however
\* the file is cut into blocks (parse, look_ahead); in a file that ends
\* inside a quote one more, unfinished row.
RowsAsWritten ==
  /\ \A i \in 1..Len(rows) : i <= Len(job.rows) => rows[i] = job.rows[i]
  /\ Len(rows) <= Len(job.rows) + (IF job.open THEN 1 ELSE 0)

\* Success means that all rows were handed over, or as many as were asked
\* for; only a file that ends inside a quote ends unexpectedly.
ResultIsTrue ==
  /\ result = "success" =>
       \/ ~job.open /\ Len(rows) = Len(job.rows)
       \/ Len(rows) = job.maxRecords
  /\ result = "eof" => job.open

\* parse returns.
Terminates == <>(result # "none")
===============================================================================
