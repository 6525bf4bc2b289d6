--------------------------------- MODULE Csv ---------------------------------
(***************************************************************************)
(* csv.h: a csv_parser reads rows from a text into one buffer; iterators   *)
(* share the parser, and a copy of an iterator takes the row with it.      *)
(* A character is one of Quote, Comma, Cr and Lf or anything else.  The    *)
(* buffer is the fields themselves: where it lies and how it grows is left *)
(* out, with the terminator it may write one behind its end (see README).  *)
(***************************************************************************)
EXTENDS Integers, Sequences, SequencesExt, FiniteSetsExt

CONSTANTS Quote, Comma, Cr, Lf

CsvAssumption == Cardinality({Quote, Comma, Cr, Lf}) = 4

\* The first position from i on that holds one of the given characters, or the end.
To(s, i, stops) == Min({j \in i..Len(s) : s[j] \in stops} \cup {Len(s) + 1})

\* Where the quoted text that starts at i is closed: two quotes in a row do not close it.
QuotedEnd(s, i) ==
  LET close[j \in i..(Len(s) + 2)] ==
        LET q == To(s, j, {Quote})
        IN IF q + 1 <= Len(s) /\ s[q + 1] = Quote THEN close[q + 2] ELSE q
  IN close[i]
Unquoted(t) ==
  LET pairs[i \in 1..(Len(t) + 2)] ==
        IF i > Len(t) THEN <<>> ELSE <<t[i]>> \o pairs[IF t[i] = Quote THEN i + 2 ELSE i + 1]
  IN pairs[1]

(***************************************************************************)
(* One field from i on: its text and the position behind it.  Behind a     *)
(* closing quote everything up to the comma or the end of the line is      *)
(* dropped, a carriage return too.  Without the closing quote the code     *)
(* reads on past the end of the text: `ok' is FALSE.                       *)
(***************************************************************************)
Field(s, i) ==
  IF i <= Len(s) /\ s[i] = Quote
  THEN LET q == QuotedEnd(s, i + 1)
       IN [text |-> Unquoted(SubSeq(s, i + 1, q - 1)), at |-> To(s, q + 1, {Comma, Lf}), ok |-> q <= Len(s)]
  ELSE LET e == To(s, i, {Comma, Cr, Lf})
       IN [text |-> SubSeq(s, i, e - 1), at |-> e, ok |-> TRUE]

\* parser_impl::next() at i: the row and where the next one begins.  A character that follows
\* a carriage return is skipped whatever it is; if there is none the code runs past the end.
Row(s, i) ==
  LET read[j \in i..(Len(s) + 1)] ==
        LET rest(f, k) ==
              IF f.at > Len(s) \/ k > Len(s) \/ s[k] = Lf
              THEN [row |-> <<>>, at |-> k + 1, ok |-> f.at > Len(s) \/ k <= Len(s)]
              ELSE read[k + 1] IN
        LET with(f, r) == [row |-> <<f.text>> \o r.row, at |-> r.at, ok |-> f.ok /\ r.ok] IN
        LET after(f) == with(f, rest(f, IF f.at <= Len(s) /\ s[f.at] = Cr THEN f.at + 1 ELSE f.at))
        IN after(Field(s, j))
  IN read[i]

\* parse_csv()
ParseCsv(s) ==
  LET from[i \in 1..(Len(s) + 2)] ==
        IF i > Len(s) THEN [rows |-> <<>>, ok |-> TRUE]
        ELSE LET with(r, rest) == [rows |-> <<r.row>> \o rest.rows, ok |-> rest.ok] IN
             LET after(r) == with(r, IF r.ok THEN from[r.at] ELSE [rows |-> <<>>, ok |-> FALSE])
             IN after(Row(s, i))
  IN from[1]

-----------------------------------------------------------------------------
(* csv_iterator: a parser is its text, its place and its row; an iterator  *)
(* ended, live (it shows the parser's row) or has a row of its own.        *)

Live == [kind |-> "live"]
Parser(s) == [text |-> s, at |-> 1, row |-> <<>>]

\* operator++, and the constructor from a parser, which is one ++
Advanced(p) ==
  IF p.at > Len(p.text) THEN [parser |-> [p EXCEPT !.row = <<>>], iter |-> [kind |-> "end"]]
  ELSE LET to(r) == [parser |-> [p EXCEPT !.row = r.row, !.at = r.at], iter |-> Live]
       IN to(Row(p.text, p.at))

\* Fault: a copy goes on showing the parser's row.
CopyOf_Live(p) == Live

\* The copy constructor takes the row the parser is at, whatever row the original shows.
CopyOf(p) == [kind |-> "cached", row |-> p.row]
\* operator*
Shows(p, iter) == IF iter.kind = "live" THEN p.row ELSE iter.row

\* The copies that `it++' leaves behind from the first row to the end, and the parser then.
PostIncrements(s) ==
  LET run[n \in 0..(Len(s) + 1)] ==
        IF n = 0 THEN [now |-> Advanced(Parser(s)), left |-> <<>>]
        ELSE LET before == run[n - 1]
             IN IF before.now.iter.kind = "end" THEN before
                ELSE [now |-> Advanced(before.now.parser),
                      left |-> Append(before.left, CopyOf(before.now.parser))]
  IN run[Len(s) + 1]

-----------------------------------------------------------------------------
\* A table as a program writes it: fields quoted at need, one line for each row.
Special == {Quote, Comma, Cr, Lf}
Doubled(t) == FlattenSeq([i \in DOMAIN t |-> IF t[i] = Quote THEN <<Quote, Quote>> ELSE <<t[i]>>])
WriteField(t) ==
  IF \E i \in DOMAIN t : t[i] \in Special THEN <<Quote>> \o Doubled(t) \o <<Quote>> ELSE t
WriteRow(r) ==
  FlattenSeq([i \in DOMAIN r |-> (IF i > 1 THEN <<Comma>> ELSE <<>>) \o WriteField(r[i])])
WriteCsv(rows, newline) == FlattenSeq([i \in DOMAIN rows |-> WriteRow(rows[i]) \o newline])

(* Whatever rows of fields are written are the rows that are read, with    *)
(* either end of line; and the last line needs none unless it is empty.    *)
RowsKept(rows) ==
  /\ \A newline \in {<<Lf>>, <<Cr, Lf>>} :
       ParseCsv(WriteCsv(rows, newline)) = [rows |-> rows, ok |-> TRUE]
  /\ rows # <<>> /\ WriteRow(Last(rows)) # <<>> =>
       ParseCsv(WriteCsv(Front(rows), <<Lf>>) \o WriteRow(Last(rows))) = [rows |-> rows, ok |-> TRUE]

(* The copies that a loop of `it++' leaves keep their rows: read after the *)
(* last increment they are the rows of the text, in order.                 *)
CopiesKeepRows(s) ==
  LET end == PostIncrements(s)
  IN ParseCsv(s).ok =>
       [i \in DOMAIN end.left |-> Shows(end.now.parser, end.left[i])] = ParseCsv(s).rows
==============================================================================
