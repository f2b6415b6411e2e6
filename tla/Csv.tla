--------------------------------- MODULE Csv ---------------------------------
(***************************************************************************)
(* An uploaded CSV file becomes a list of URLs: lib/csv.ts.  The loop of   *)
(* the parser is a state machine that turns once per character and looks   *)
(* one character ahead, so the file can be written as it is read: a writer *)
(* puts down one character at a time, and the loop turns on the character  *)
(* before it, whose successor is then known.  The writer writes a table by *)
(* RFC 4180, or any text at all.                                           *)
(*                                                                         *)
(* What the parser tells apart is a quote, a comma, the two line breaks,   *)
(* white space, and all else; the letter "u" alone stands for the header   *)
(* cell "url", in any case.                                                *)
(***************************************************************************)
EXTENDS Naturals, Sequences
LOCAL INSTANCE SequencesExt
LOCAL INSTANCE FiniteSetsExt

CONSTANTS
  CsvMax,     \* bound: rows of a table, cells of a row
  CellMax,    \* bound: characters of a cell
  TextMax     \* bound: characters of a text that is no table

VARIABLES
  sheet,      \* the table so far: its rows, the row and the cell being written
  break,      \* how this file ends its lines
  pen,        \* where in a cell the writer is, "wild" when it writes any text
  odd,        \* an odd number of quotes has been written
  wild,       \* characters of a text that is no table
  unread,     \* the last character: the loop has turned on all before it
  reader,     \* the variables of the loop
  answer      \* what readCsvUrls gave: a list of URLs or a refusal

csvVars == <<sheet, break, pen, odd, wild, unread, reader, answer>>

Plain  == {"u", "a", "space"}
Letter == Plain \cup {"quote", "comma", "lf", "cr"}

NewReader == [rows |-> <<>>, row |-> <<>>, field |-> <<>>, quoted |-> FALSE,
              content |-> FALSE, skip |-> FALSE]

EndField(s) == [s EXCEPT !.row = Append(@, s.field), !.field = <<>>]

\* Rows in which nothing was seen are left out.
EndRow(s) ==
  [NewReader EXCEPT !.rows = IF s.content THEN Append(s.rows, EndField(s).row) ELSE s.rows]

\* A doubled quote ends the field, as any other quote.
BadInside(s, ch, next) ==
  IF ch = "quote" THEN [s EXCEPT !.quoted = FALSE] ELSE [s EXCEPT !.field = Append(@, ch)]

\* Within quotes only a quote that is not doubled ends the quoting.
Inside(s, ch, next) ==
  CASE ch # "quote"                     -> [s EXCEPT !.field = Append(@, ch)]
    [] ch = "quote" /\ next = "quote"   -> [s EXCEPT !.field = Append(@, ch), !.skip = TRUE]
    [] ch = "quote" /\ next # "quote"   -> [s EXCEPT !.quoted = FALSE]

Outside(s, ch, next) ==
  CASE ch = "quote" -> [s EXCEPT !.quoted = TRUE, !.content = TRUE]
    [] ch = "comma" -> EndField([s EXCEPT !.content = TRUE])
    [] ch = "lf"    -> EndRow(s)
    [] ch = "cr"    -> [EndRow(s) EXCEPT !.skip = (next = "lf")]
    [] ch \in Plain -> [s EXCEPT !.field = Append(@, ch), !.content = @ \/ ch # "space"]

\* One turn of the loop; skip: the turn before has taken this character too.
Turned(s, ch, next) ==
  CASE s.skip               -> [s EXCEPT !.skip = FALSE]
    [] ~s.skip /\ s.quoted  -> Inside(s, ch, next)
    [] ~s.skip /\ ~s.quoted -> Outside(s, ch, next)

\* The last row may lack its line break.
ParseRows(s) == IF s.field # <<>> \/ s.row # <<>> THEN EndRow(s).rows ELSE s.rows

Trim(cell) ==
  LET ink == {i \in DOMAIN cell : cell[i] \notin {"space", "lf", "cr"}}
  IN IF ink = {} THEN <<>> ELSE SubSeq(cell, Min(ink), Max(ink))

Header(row) == {i \in DOMAIN row : Trim(row[i]) = <<"u">>}

\* The column of the first header cell, or the first column of a file without.
UrlsOf(rows) ==
  IF rows = <<>> THEN <<>>
  ELSE LET cols == Header(rows[1])
           col  == IF cols = {} THEN 1 ELSE CHOOSE i \in cols : \A j \in cols : i <= j
           data == IF cols = {} THEN rows ELSE Tail(rows)
           cell(row) == IF col \in DOMAIN row THEN Trim(row[col]) ELSE <<>>
       IN SelectSeq([i \in DOMAIN data |-> cell(data[i])], LAMBDA c : c # <<>>)

-----------------------------------------------------------------------------
(* The writer *)

Blank    == [rows |-> <<>>, row |-> <<>>, cell |-> <<>>]
NoAnswer == [given |-> FALSE, refused |-> FALSE, urls |-> <<>>]

CsvInit ==
  /\ sheet = Blank /\ break \in {"lf", "cr", "crlf"} /\ pen = "start" /\ odd = FALSE /\ wild = 0
  /\ unread = "none" /\ reader = NewReader /\ answer = NoAnswer

\* One more character, or the end of the file: the loop turns on the one before.
Put(c) ==
  /\ unread # "end" /\ unread' = c
  /\ reader' = IF unread = "none" THEN reader ELSE Turned(reader, unread, c)
  /\ odd' = (odd # (c = "quote"))
  /\ UNCHANGED <<break, answer>>

Into(c) == sheet' = [sheet EXCEPT !.cell = Append(@, c)]

Room == Len(sheet.rows) < CsvMax

WritePlain(c) ==
  /\ Room /\ pen \in {"start", "plain"} /\ Len(sheet.cell) < CellMax
  /\ Put(c) /\ Into(c) /\ pen' = "plain" /\ UNCHANGED wild

OpenQuote ==
  Room /\ pen = "start" /\ Put("quote") /\ pen' = "quoted" /\ UNCHANGED <<sheet, wild>>

WriteQuoted(c) ==
  /\ pen = "quoted" /\ Len(sheet.cell) < CellMax
  /\ Put(c) /\ Into(c) /\ UNCHANGED <<pen, wild>>

\* A quote within quotes is written twice.
HalfQuote ==
  /\ pen = "quoted" /\ Len(sheet.cell) < CellMax
  /\ Put("quote") /\ pen' = "double" /\ UNCHANGED <<sheet, wild>>

OtherHalf == pen = "double" /\ Put("quote") /\ Into("quote") /\ pen' = "quoted" /\ UNCHANGED wild

CloseQuote == pen = "quoted" /\ Put("quote") /\ pen' = "closed" /\ UNCHANGED <<sheet, wild>>

AtCellEnd == pen \in {"start", "plain", "closed"}

NextCell ==
  /\ Room /\ AtCellEnd /\ Len(sheet.row) + 1 < CsvMax
  /\ Put("comma") /\ pen' = "start" /\ UNCHANGED wild
  /\ sheet' = [sheet EXCEPT !.row = Append(@, sheet.cell), !.cell = <<>>]

\* A row is more than white space without quotes.
Seen == pen = "closed" \/ sheet.row # <<>> \/ \E i \in DOMAIN sheet.cell : sheet.cell[i] # "space"

RowsWith(is) == IF is THEN Append(sheet.rows, Append(sheet.row, sheet.cell)) ELSE sheet.rows

EndLine ==
  /\ AtCellEnd /\ Put(IF break = "lf" THEN "lf" ELSE "cr")
  /\ pen' = (IF break = "crlf" THEN "feed" ELSE "start")
  /\ sheet' = [Blank EXCEPT !.rows = RowsWith(Seen)] /\ UNCHANGED wild

LineFeed == pen = "feed" /\ Put("lf") /\ pen' = "start" /\ UNCHANGED <<sheet, wild>>

\* A last line of nothing, or of an empty cell in quotes, is no row.
EndTable ==
  /\ AtCellEnd /\ Put("end") /\ UNCHANGED <<pen, wild>>
  /\ sheet' = [Blank EXCEPT !.rows = RowsWith(Seen /\ (sheet.row # <<>> \/ sheet.cell # <<>>))]

WriteAnything(c) ==
  /\ unread = "none" \/ pen = "wild"
  /\ wild < TextMax /\ wild' = wild + 1
  /\ Put(c) /\ pen' = "wild" /\ UNCHANGED sheet

EndText == pen = "wild" /\ Put("end") /\ UNCHANGED <<sheet, pen, wild>>

\* readCsvUrls: an unterminated quoted field refuses the file.
Answer ==
  /\ unread = "end" /\ ~answer.given
  /\ answer' = [given |-> TRUE, refused |-> reader.quoted,
                urls |-> IF reader.quoted THEN <<>> ELSE UrlsOf(ParseRows(reader))]
  /\ UNCHANGED <<sheet, break, pen, odd, wild, unread, reader>>

CsvNext ==
  \/ \E c \in Plain : WritePlain(c)
  \/ OpenQuote
  \/ \E c \in Letter \ {"quote"} : WriteQuoted(c)
  \/ HalfQuote \/ OtherHalf \/ CloseQuote
  \/ NextCell \/ EndLine \/ LineFeed \/ EndTable
  \/ \E c \in Letter : WriteAnything(c)
  \/ EndText \/ Answer

CsvSpec == CsvInit /\ [][CsvNext]_csvVars

-----------------------------------------------------------------------------

\* csv.ts:4-17: a file gives the URLs of the table it was written from, however
\* cells are quoted and lines are ended, and quotes that do not pair refuse it.
CsvKeepsTable ==
  answer.given =>
    /\ answer.refused <=> odd
    /\ pen # "wild" => ~answer.refused /\ answer.urls = UrlsOf(sheet.rows)
=============================================================================
