------------------------------ MODULE CsvWriter ------------------------------
(***************************************************************************)
(* What a parser of CSV files can be asked to read: a text that was        *)
(* written character by character from the rows of a table.  The writer    *)
(* has finished `row` rows; of the next one it has the columns `record` and *)
(* the bytes `field` of one more.  It may be                               *)
(*   "start"   at the start of a field,                                    *)
(*   "plain"   in a field without quotes,                                  *)
(*   "quoted"  inside quotes,                                              *)
(*   "closed"  after a closing quote,                                      *)
(*   "return"  between the two characters of a line end, or                *)
(*   "ended"   after a line end that is a carriage return alone.           *)
(***************************************************************************)
EXTENDS CsvParser

WriterAt(place, row, columns, bytes) ==
  [place |-> place, row |-> row, record |-> columns, field |-> bytes]

WriterType ==
  [place : {"start", "plain", "quoted", "closed", "return", "ended"},
   row : Nat, record : Seq(Seq(Byte)), field : Seq(Byte)]

\* A column of a row, as it is read with or without its outer spaces.
ColumnOf(j, bytes) == IF j.trim THEN Trim(bytes) ELSE bytes

\* The writer goes to another place, with or without a character for the field.
Goes(v, place) == WriterAt(place, v.row, v.record, v.field)

Into(v, place, c) == WriterAt(place, v.row, v.record, v.field \o Utf8[c])

Special(j) == {j.separator[1], j.quote[1], CR, LF}

(***************************************************************************)
(* The steps of the writer of job j from v to w, writing the character c.  *)
(***************************************************************************)
\* No byte of a character of a plain field is one the parser looks for.
WritesPlain(j, v, c, w) ==
  /\ v.place \in {"start", "ended", "plain"}
  /\ Range(Utf8[c]) \cap Special(j) = {}
  /\ w = Into(v, "plain", c)

OpensQuote(j, v, c, w) ==
  /\ v.place \in {"start", "ended"}
  /\ Utf8[c] = j.quote
  /\ w = Goes(v, "quoted")

WritesQuoted(j, v, c, w) ==
  /\ v.place = "quoted"
  /\ j.quote[1] \notin Range(Utf8[c])
  /\ w = Into(v, "quoted", c)

ClosesQuote(j, v, c, w) ==
  /\ v.place = "quoted"
  /\ Utf8[c] = j.quote
  /\ w = Goes(v, "closed")

\* A quote inside quotes is written twice.
DoublesQuote(j, v, c, w) ==
  /\ v.place = "closed"
  /\ Utf8[c] = j.quote
  /\ w = Into(v, "quoted", c)

EndsField(j, v, c, w) ==
  /\ v.place \in {"start", "ended", "plain", "closed"}
  /\ Utf8[c] = j.separator
  /\ w = WriterAt("start", v.row, Append(v.record, ColumnOf(j, v.field)), <<>>)

\* The next row of the table is what was written since the last one.
EndsRow(j, v, place, w) ==
  /\ v.row < Len(j.rows)
  /\ j.rows[v.row + 1] = Append(v.record, ColumnOf(j, v.field))
  /\ w = WriterAt(place, v.row + 1, <<>>, <<>>)

WritesLineFeed(j, v, c, w) ==
  /\ v.place \in {"start", "plain", "closed", "return"}
  /\ Utf8[c] = <<LF>>
  /\ EndsRow(j, v, "start", w)

\* The first half of a line end of two characters ...
WritesReturn(j, v, c, w) ==
  /\ v.place \in {"start", "ended", "plain", "closed"}
  /\ Utf8[c] = <<CR>>
  /\ w = Goes(v, "return")

\* ... and a line end of the old kind.  One after a closing quote, and one
\* before a character of several bytes, are read differently (see the README).
WritesOldLineEnd(j, v, c, w) ==
  /\ v.place \in {"start", "ended", "plain"}
  /\ Utf8[c] = <<CR>>
  /\ EndsRow(j, v, "ended", w)

WriteStep(j, v, c, w) ==
  /\ v.place = "ended" => Len(Utf8[c]) = 1
  /\ \/ WritesPlain(j, v, c, w) \/ OpensQuote(j, v, c, w)
     \/ WritesQuoted(j, v, c, w) \/ ClosesQuote(j, v, c, w)
     \/ DoublesQuote(j, v, c, w) \/ EndsField(j, v, c, w)
     \/ WritesLineFeed(j, v, c, w) \/ WritesReturn(j, v, c, w)
     \/ WritesOldLineEnd(j, v, c, w)

\* The text ends after the last row, or in it if something of it is there to
\* be seen, or else inside quotes, which is an error in the file.
WriteEnd(j, v) ==
  IF j.open THEN v.place = "quoted" /\ v.row = Len(j.rows)
  ELSE /\ v.place \notin {"quoted", "return"}
       /\ IF v.record = <<>> /\ v.field = <<>>
          THEN v.place \in {"start", "ended"} /\ v.row = Len(j.rows)
          ELSE /\ v.row + 1 = Len(j.rows)
               /\ j.rows[v.row + 1] = Append(v.record, ColumnOf(j, v.field))

\* The rows are sequences of columns.  The separator has one byte or two, the
\* quote has one.
Format(j) ==
  /\ j.rows \in Seq(Seq(Seq(Byte)))
  /\ j.separator \in Seq(Byte) /\ Len(j.separator) \in {1, 2}
  /\ j.quote \in Seq(Byte) /\ Len(j.quote) = 1
  /\ j.open \in BOOLEAN /\ j.trim \in BOOLEAN
  /\ CR # LF /\ {CR, LF} \cap {j.separator[1], j.quote[1]} = {}
  /\ j.separator[1] # j.quote[1]

\* The run w of the writer has written the text of job j.
WrittenBy(j, w) ==
  /\ Format(j)
  /\ w \in [0..Len(j.text) -> WriterType]
  /\ w[0] = WriterAt("start", 0, <<>>, <<>>)
  /\ \A i \in 1..Len(j.text) : WriteStep(j, w[i - 1], j.text[i], w[i])
  /\ WriteEnd(j, w[Len(j.text)])
===============================================================================
