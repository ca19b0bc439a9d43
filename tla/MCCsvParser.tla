----------------------------- MODULE MCCsvParser -----------------------------
(***************************************************************************)
(* CsvParser on the files that a writer makes of some small tables.        *)
(***************************************************************************)
EXTENDS CsvWriter

\* Characters and bytes have the same names, but for two letters of two bytes.
MCUtf8 ==
  [c \in {"a", "b", "space", "comma", "quote", "cr", "lf", "umlaut", "section"}
     |-> CASE c = "umlaut" -> <<"C3", "BC">>
           [] c = "section" -> <<"C2", "A7">>
           [] OTHER -> <<c>>]

MCSpaces == {"space", "cr", "lf"}

Bytes(text) == FlattenSeq([i \in 1..Len(text) |-> MCUtf8[text[i]]])

(***************************************************************************)
(* The writer.  Fields are quoted when they have to be, or always.         *)
(***************************************************************************)
Fields == {<<>>, <<"a">>, <<"space", "b">>, <<"umlaut">>, <<"quote", "a">>,
           <<"a", "cr", "lf">>, <<"comma">>}

NeedsQuotes(f, separator) ==
  \E i \in 1..Len(f) : f[i] \in {"quote", "cr", "lf", separator}

Quoted(f) ==
  <<"quote">>
  \o FlattenSeq([i \in 1..Len(f) |-> IF f[i] = "quote"
                                     THEN <<"quote", "quote">>
                                     ELSE <<f[i]>>])
  \o <<"quote">>

WrittenField(f, style) ==
  IF style.quotes \/ NeedsQuotes(f, style.separator) THEN Quoted(f) ELSE f

WrittenRow(row, style) ==
  FlattenSeq([i \in 1..Len(row) |->
                (IF i > 1 THEN <<style.separator>> ELSE <<>>)
                \o WrittenField(row[i], style)])

Written(table, style) ==
  FlattenSeq([i \in 1..Len(table) |->
                WrittenRow(table[i], style)
                \o (IF i < Len(table) \/ style.final THEN style.end
                                                     ELSE <<>>)])

Styles == [separator : {"comma", "section"}, quotes : BOOLEAN,
           end : {<<"lf">>, <<"cr", "lf">>, <<"cr">>}, final : BOOLEAN]

Tables == {<<>>}
          \cup {<<<<f>>, <<g>>>> : f \in Fields, g \in Fields}
          \cup {<<<<f, g>>, <<f>>>> : f \in Fields, g \in Fields}

\* What a file can say: a last line without an end is there only if it has
\* characters.
Readable(table, style) ==
  table # <<>> /\ ~style.final => Last(table) # <<<<>>>>

\* A line end of the old kind after a quote, and one before a letter of two
\* bytes, are read differently (see the README).
OldLineEnd(table, style) ==
  style.end = <<"cr">> =>
    /\ ~style.quotes
    /\ \A i \in 1..Len(table) :
         /\ ~NeedsQuotes(Last(table[i]), style.separator)
         /\ i > 1 => Head(table[i]) \notin {<<"umlaut">>}

Expected(table, trim) ==
  [i \in 1..Len(table) |->
     [j \in 1..Len(table[i]) |->
        IF trim THEN Trim(Bytes(table[i][j])) ELSE Bytes(table[i][j])]]

Job(table, style, rest, trim, blockSize, maxRecords) ==
  [rows |-> Expected(table, trim),
   text |-> Written(table, style) \o rest,
   open |-> rest # <<>>,
   separator |-> Bytes(<<style.separator>>),
   quote |-> Bytes(<<"quote">>),
   trim |-> trim, blockSize |-> blockSize, maxRecords |-> maxRecords]

\* Without trimming and a limit every size of a block is tried.
Variants == {<<FALSE, size, 0>> : size \in 1..3}
            \cup {<<TRUE, 2, 0>>, <<FALSE, 2, 1>>}

MCJobs ==
  {Job(p[1], p[2], <<>>, p[3][1], p[3][2], p[3][3]) :
     p \in {q \in Tables \X Styles \X Variants :
               Readable(q[1], q[2]) /\ OldLineEnd(q[1], q[2])}}
  \cup
  {Job(p[1], p[2], <<"quote", "a">>, FALSE, p[3], 0) :
     p \in {q \in Tables \X {s \in Styles : s.final} \X {1, 2, 3} :
               OldLineEnd(q[1], q[2])}}

(***************************************************************************)
(* All of these files are written as CsvWriter says.                       *)
(***************************************************************************)
\* What the writer does with character i of the text, after v.
WriterAfter(j, v, i) ==
  LET c == j.text[i]
      column == ColumnOf(j, v.field)
      lineFeedNext == i < Len(j.text) /\ j.text[i + 1] = "lf"
      done(place) == WriterAt(place, v.row + 1, <<>>, <<>>)
      quote == MCUtf8[c] = j.quote
  IN  CASE v.place = "quoted" /\ quote -> Goes(v, "closed")
        [] v.place = "quoted" -> Into(v, "quoted", c)
        [] v.place = "closed" /\ quote ->
             Into(v, "quoted", c)
        [] v.place \in {"start", "ended"} /\ quote ->
             Goes(v, "quoted")
        [] c = "lf" -> done("start")
        [] c = "cr" /\ lineFeedNext -> Goes(v, "return")
        [] c = "cr" -> done("ended")
        [] MCUtf8[c] = j.separator ->
             WriterAt("start", v.row, Append(v.record, column), <<>>)
        [] OTHER -> Into(v, "plain", c)

WriterRun(j) ==
  LET w[i \in 0..Len(j.text)] ==
        IF i = 0 THEN WriterAt("start", 0, <<>>, <<>>)
                 ELSE WriterAfter(j, w[i - 1], i)
  IN  w

ASSUME JobsAreWritten == \A j \in MCJobs : WrittenBy(j, WriterRun(j))
===============================================================================
