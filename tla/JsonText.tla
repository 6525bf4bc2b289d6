------------------------------ MODULE JsonText -------------------------------
(***************************************************************************)
(* pfi::text::json: json_parser (parser.h, parser.cpp) and the printers of *)
(* base.h.  A text is a sequence of code points, as chars_to_uchar() gives *)
(* them (Ustring).  The parser reads one character ahead, cbuf: a state is *)
(* its position, whether the character there has been taken from the       *)
(* stream, and the exception it has thrown, "" for none.                   *)
(* Values are records: a float is m * 10 ^ e, exactly.                     *)
(***************************************************************************)
EXTENDS Integers, Sequences, FiniteSets, SequencesExt, FiniteSetsExt, TLC

CONSTANT LongMax  \* LLONG_MAX; LLONG_MIN is one more below zero

JsonTextAssumption == LongMax \in Nat

Quote == 34
Backslash == 92
Slash == 47
Comma == 44
Colon == 58
Minus == 45
Plus == 43
Dot == 46
Zero == 48
OpenArray == 91
CloseArray == 93
OpenObject == 123
CloseObject == 125
Newline == 10
Blank == 32
LowerE == 101
LowerU == 117
Space == 9..13 \cup {32}
Digit == 48..57
True == <<116, 114, 117, 101>>
False == <<102, 97, 108, 115, 101>>
Null == <<110, 117, 108, 108>>

Integer(n) == [type |-> "integer", n |-> n]
Bool(b) == [type |-> "bool", b |-> b]
NullValue == [type |-> "null"]
String(s) == [type |-> "string", s |-> s]
Array(a) == [type |-> "array", a |-> a]
Object(m) == [type |-> "object", m |-> m]
NoMembers == [k \in {} |-> NullValue]

\* A float without trailing zeros in m.
RECURSIVE Float(_, _)
Float(m, e) == IF m = 0 THEN [type |-> "float", m |-> 0, e |-> 0]
               ELSE IF m % 10 = 0 THEN Float(m \div 10, e + 1)
               ELSE [type |-> "float", m |-> m, e |-> e]

-----------------------------------------------------------------------------
(* Characters *)

Start(p) == [p |-> p, cached |-> FALSE, err |-> ""]
\* it == end
AtEnd(t, st) == IF st.cached THEN st.p >= Len(t) ELSE st.p > Len(t)
Peek(t, st) == IF st.p > Len(t) THEN -1 ELSE t[st.p]
Loaded(t, p) == [p |-> p, cached |-> p <= Len(t), err |-> ""]
Throw(st, err) == [st EXCEPT !.err = err]
\* What a read of a character throws when there is none.
Missing(t, st) == Throw(st, IF st.p > Len(t) THEN "end_of_data" ELSE "parse_error")

Span(t, p, set) == CHOOSE q \in p..(Len(t) + 1) : /\ q > Len(t) \/ t[q] \notin set
                                                  /\ \A i \in p..(q - 1) : t[i] \in set

\* ss(): a last character that is cached already is not skipped.
Ss(t, st) == IF st.err # "" \/ AtEnd(t, st) THEN st ELSE Loaded(t, Span(t, st.p, Space))

\* match() and smatch()
Match(t, st, c) ==
  IF st.err # "" THEN st ELSE IF Peek(t, st) = c THEN Start(st.p + 1) ELSE Missing(t, st)
Smatch(t, st, c) == Match(t, Ss(t, st), c)

-----------------------------------------------------------------------------
(* Numbers *)

Value(t, from, to) == FoldLeft(LAMBDA n, c : n * 10 + (c - Zero), 0, SubSeq(t, from, to - 1))

\* Where the digits from p on end; none are read when the stream is at its end, though one
\* may be cached.
Digits(t, st) == IF AtEnd(t, st) THEN st ELSE Loaded(t, Span(t, st.p, Digit))

ParseNumber(t, st) ==
  LET minus == t[st.p] = Minus IN
  LET ints == IF minus THEN st.p + 1 ELSE st.p IN
  LET s1 == Loaded(t, Span(t, ints, Digit)) IN
  LET dot == ~AtEnd(t, s1) /\ t[s1.p] = Dot IN
  LET s2 == IF dot THEN Digits(t, Start(s1.p + 1)) ELSE s1 IN
  LET exp == ~AtEnd(t, s2) /\ t[s2.p] \in {LowerE, LowerE - 32} IN
  LET sign == exp /\ t[s2.p + 1] \in {Plus, Minus} IN
  LET s3 == IF sign THEN Start(s2.p + 2) ELSE IF exp THEN Loaded(t, s2.p + 1) ELSE s2 IN
  LET s4 == Digits(t, s3) IN
  LET m == Value(t, ints, s1.p) * 10 ^ (IF dot THEN s2.p - s1.p - 1 ELSE 0)
           + (IF dot THEN Value(t, s1.p + 1, s2.p) ELSE 0) IN
  LET e == IF exp THEN (IF sign /\ t[s2.p + 1] = Minus THEN -1 ELSE 1) * Value(t, s3.p, s4.p)
           ELSE 0 IN
  LET n == IF minus THEN -m ELSE m IN
  IF dot \/ exp THEN [st |-> s4, v |-> Float(n, e - (IF dot THEN s2.p - s1.p - 1 ELSE 0))]
  ELSE IF n > LongMax \/ n < -LongMax - 1 THEN [st |-> Throw(s4, "parse_error"), v |-> NullValue]
  ELSE [st |-> s4, v |-> Integer(n)]

-----------------------------------------------------------------------------
(* Strings *)

Escaped == {Quote, Backslash, Slash, 8, 12, 10, 13, 9}
\* The letter after the backslash for each of them.
Letter(c) == CASE c = 8 -> 98 [] c = 12 -> 102 [] c = 10 -> 110 [] c = 13 -> 114 [] c = 9 -> 116
               [] OTHER -> c
HexValue(c) == IF c \in Digit THEN c - Zero
               ELSE IF c \in 65..70 THEN c - 55 ELSE IF c \in 97..102 THEN c - 87 ELSE -1

\* Four times parse_hex().
Hex4(t, st) ==
  LET bad == {i \in 0..3 : st.p + i > Len(t) \/ HexValue(t[st.p + i]) < 0} IN
  IF st.err # "" THEN [st |-> st, u |-> 0]
  ELSE IF bad # {} THEN [st |-> Missing(t, Start(st.p + Min(bad))), u |-> 0]
  ELSE [st |-> Start(st.p + 4),
        u |-> FoldLeft(LAMBDA n, c : n * 16 + HexValue(c), 0, SubSeq(t, st.p, st.p + 3))]

\* Fault: what follows a high surrogate is taken for a low one unseen.
LowSurrogate_Unchecked(l) == TRUE

LowSurrogate(l) == l \in 56320..57343

\* What comes after "\u": a surrogate must be the first of a pair.
ParseUnicode(t, st) ==
  LET h == Hex4(t, st) IN
  LET l == Hex4(t, Match(t, Match(t, h.st, Backslash), LowerU)) IN
  IF h.u \in 56320..57343 THEN [st |-> Throw(h.st, "parse_error"), u |-> 0]
  ELSE IF h.u \notin 55296..56319 THEN h
  ELSE IF l.st.err = "" /\ ~LowSurrogate(l.u) THEN [st |-> Throw(l.st, "parse_error"), u |-> 0]
  ELSE [st |-> l.st, u |-> 65536 + (h.u - 55296) * 1024 + (l.u - 56320)]

\* parse_string_prim() after its first quote.
RECURSIVE StringRest(_, _, _)
StringRest(t, st, str) ==
  LET c == Peek(t, st) IN
  LET x == Peek(t, [st EXCEPT !.p = @ + 1]) IN
  LET plain == {k \in Escaped : Letter(k) = x} IN
  LET u == ParseUnicode(t, Start(st.p + 2)) IN
  IF st.err # "" THEN [st |-> st, v |-> String(str)]
  ELSE IF c = Quote THEN [st |-> Start(st.p + 1), v |-> String(str)]
  ELSE IF c = Backslash /\ plain # {}
  THEN StringRest(t, Start(st.p + 2), Append(str, CHOOSE k \in plain : TRUE))
  ELSE IF c = Backslash /\ x = LowerU THEN StringRest(t, u.st, Append(str, u.u))
  ELSE IF c >= 32 /\ c # Backslash THEN StringRest(t, Start(st.p + 1), Append(str, c))
  ELSE [st |-> Missing(t, IF c = Backslash THEN Start(st.p + 1) ELSE st), v |-> NullValue]

ParseString(t, st) == StringRest(t, Match(t, st, Quote), <<>>)

-----------------------------------------------------------------------------
(* Values; json_builder *)

Word(t, st, word, v) == [st |-> FoldLeft(LAMBDA s, c : Match(t, s, c), st, word), v |-> v]

RECURSIVE ParseImpl(_, _), Members(_, _, _, _), Elements(_, _, _)

ParseImpl(t, st0) ==
  LET st == Ss(t, st0) IN
  LET c == Peek(t, st) IN
  IF st.err # "" THEN [st |-> st, v |-> NullValue]
  ELSE CASE c = OpenObject -> Members(t, Smatch(t, st, OpenObject), NoMembers, TRUE)
         [] c = OpenArray -> Elements(t, Smatch(t, st, OpenArray), <<>>)
         [] c \in Digit \cup {Minus} -> ParseNumber(t, st)
         [] c = Quote -> ParseString(t, st)
         [] c = False[1] -> Word(t, st, False, Bool(FALSE))
         [] c = Null[1] -> Word(t, st, Null, NullValue)
         [] c = True[1] -> Word(t, st, True, Bool(TRUE))
         [] OTHER -> [st |-> Missing(t, st), v |-> NullValue]

\* parse_object() and end_object(): a member that comes again replaces the first.
Members(t, st0, m, first) ==
  LET st == Ss(t, st0) IN
  LET member(key, val) == IF val.st.err # "" THEN [st |-> val.st, v |-> NullValue]
                          ELSE Members(t, val.st, (key.v.s :> val.v) @@ m, FALSE) IN
  LET named(key) == member(key, ParseImpl(t, Smatch(t, key.st, Colon))) IN
  IF st.err # "" THEN [st |-> st, v |-> NullValue]
  ELSE IF Peek(t, st) = CloseObject THEN [st |-> Start(st.p + 1), v |-> Object(m)]
  ELSE named(ParseString(t, Ss(t, IF first THEN st ELSE Smatch(t, st, Comma))))

\* parse_array() and end_array()
Elements(t, st0, a) ==
  LET st == Ss(t, st0) IN
  LET element(val) == IF val.st.err # "" THEN [st |-> val.st, v |-> NullValue]
                      ELSE Elements(t, val.st, Append(a, val.v)) IN
  IF st.err # "" THEN [st |-> st, v |-> NullValue]
  ELSE IF Peek(t, st) = CloseArray THEN [st |-> Start(st.p + 1), v |-> Array(a)]
  ELSE element(ParseImpl(t, IF a = <<>> THEN st ELSE Smatch(t, st, Comma)))

\* parse(): the next value, or "end_of_data".
Parse(t, st) ==
  LET s == Ss(t, st) IN
  IF ~s.cached /\ AtEnd(t, s) THEN [st |-> Throw(s, "end_of_data"), v |-> NullValue]
  ELSE ParseImpl(t, s)

\* operator>>: a parser of its own per value, whose cached character is lost with it.
Extract(t, p) ==
  LET result(r) == [err |-> r.st.err, v |-> r.v, next |-> r.st.p + (IF r.st.cached THEN 1 ELSE 0)]
  IN result(Parse(t, Start(p)))

-----------------------------------------------------------------------------
(* Printing *)

ToHex(n) == IF n < 10 THEN Zero + n ELSE 55 + n
U4(c) == <<Backslash, LowerU>> \o [i \in 1..4 |-> ToHex((c \div 16 ^ (4 - i)) % 16)]
IsCntrl(c) == c \in 0..31 \cup {127}

\* print_char_without_escape(), and print_char() up to U+007F
PrintAscii(c) == IF c \in Escaped THEN <<Backslash, Letter(c)>>
                 ELSE IF IsCntrl(c) THEN U4(c) ELSE <<c>>

PrintChar(c, escape) ==
  IF c < 128 \/ ~escape THEN PrintAscii(c)
  ELSE IF c < 65536 THEN U4(c)
  ELSE U4(55296 + (c - 65536) \div 1024) \o U4(56320 + ((c - 65536) % 1024))

\* json_string::print(): it ends at a NUL.
PrintString(s, escape) ==
  LET upto == CHOOSE n \in 0..Len(s) : /\ n = Len(s) \/ s[n + 1] = 0
                                       /\ \A i \in 1..n : s[i] # 0
  IN <<Quote>> \o FoldLeft(LAMBDA out, c : out \o PrintChar(c, escape), <<>>, SubSeq(s, 1, upto))
     \o <<Quote>>

RECURSIVE Decimal(_)
Decimal(n) == IF n < 0 THEN <<Minus>> \o Decimal(-n)
              ELSE IF n < 10 THEN <<Zero + n>>
              ELSE Decimal(n \div 10) \o <<Zero + (n % 10)>>

\* json_float::print() of at most 12 digits: fixed, or scientific for a large exponent.
PrintFloat(m, e) ==
  LET d == Decimal(IF m < 0 THEN -m ELSE m) IN
  LET x == Len(d) - 1 + e IN
  LET zeros(n) == [i \in 1..n |-> Zero] IN
  LET point(s, n) == IF n >= Len(s) THEN s ELSE SubSeq(s, 1, n) \o <<Dot>> \o SubSeq(s, n + 1, Len(s)) IN
  (IF m < 0 THEN <<Minus>> ELSE <<>>) \o
  IF x < -4 \/ x >= 12
  THEN point(d, 1) \o <<LowerE, IF x < 0 THEN Minus ELSE Plus>>
       \o (IF x \in -9..9 THEN <<Zero>> ELSE <<>>) \o Decimal(IF x < 0 THEN -x ELSE x)
  ELSE IF x < 0 THEN <<Zero, Dot>> \o zeros(-x - 1) \o d
  ELSE IF e >= 0 THEN d \o zeros(e)
  ELSE point(d, x + 1)

Joined(parts, sep) ==
  FoldLeft(LAMBDA out, i : out \o (IF i > 1 THEN sep ELSE <<>>) \o parts[i], <<>>, [i \in DOMAIN parts |-> i])

\* print() at level < 0, pretty() at the others.
RECURSIVE PrintValue(_, _, _)
PrintValue(v, escape, level) ==
  LET line(l) == IF level < 0 THEN <<>> ELSE <<Newline>> \o [i \in 1..(2 * l) |-> Blank] IN
  LET inner == IF level < 0 THEN level ELSE level + 1 IN
  LET body(open, parts, close) ==
        <<open>> \o (IF parts = <<>> THEN <<>> ELSE line(level + 1))
        \o Joined(parts, <<Comma>> \o line(level + 1)) \o line(level) \o <<close>> IN
  LET colon == IF level < 0 THEN <<Colon>> ELSE <<Colon, Blank>> IN
  CASE v.type = "null" -> Null
    [] v.type = "bool" -> IF v.b THEN True ELSE False
    [] v.type = "integer" -> Decimal(v.n)
    [] v.type = "float" -> PrintFloat(v.m, v.e)
    [] v.type = "string" -> PrintString(v.s, escape)
    [] v.type = "array" -> body(OpenArray, [i \in DOMAIN v.a |-> PrintValue(v.a[i], escape, inner)], CloseArray)
    [] v.type = "object" ->
       LET keys == SetToSeq(DOMAIN v.m)
       IN body(OpenObject,
               [i \in DOMAIN keys |-> PrintString(keys[i], escape) \o colon
                                      \o PrintValue(v.m[keys[i]], escape, inner)],
               CloseObject)

\* json_oarchive::put()
Put(v, pretty, escape) == PrintValue(v, escape, IF pretty THEN 0 ELSE -1) \o <<Newline>>

-----------------------------------------------------------------------------
(* equals() *)

AsFloat(v) == IF v.type = "integer" THEN Float(v.n, 0) ELSE v

RECURSIVE Equals(_, _)
Equals(x, y) ==
  LET numbers == {x.type, y.type} = {"integer", "float"} IN
  IF numbers THEN AsFloat(x) = AsFloat(y)
  ELSE /\ x.type = y.type
       /\ CASE x.type = "array" -> /\ Len(x.a) = Len(y.a)
                                   /\ \A i \in DOMAIN x.a : Equals(x.a[i], y.a[i])
            [] x.type = "object" -> /\ DOMAIN x.m = DOMAIN y.m
                                    /\ \A k \in DOMAIN x.m : Equals(x.m[k], y.m[k])
            [] OTHER -> x = y

-----------------------------------------------------------------------------
(* What reading and writing promise *)

RECURSIVE ReadAll(_, _)
ReadAll(t, p) ==
  LET onward(r) == IF r.err # "" THEN <<r.err>> ELSE <<r.v>> \o ReadAll(t, r.next)
  IN onward(Extract(t, p))

\* Values written one after the other, each plain or pretty and with characters beyond ASCII
\* escaped or not, are read back one by one by operator>>, equal to what was written, up to
\* the end of the data; with escape, only ASCII was written.
StreamIsRead(items) ==
  LET texts == [i \in DOMAIN items |-> Put(items[i].v, items[i].pretty, items[i].escape)] IN
  LET allEqual(r) == /\ Len(r) = Len(items) + 1 /\ Last(r) = "end_of_data"
                     /\ \A i \in DOMAIN items : Equals(r[i], items[i].v) /\ Equals(items[i].v, r[i]) IN
  /\ allEqual(ReadAll(FlattenSeq(texts), 1))
  /\ \A i \in DOMAIN items : items[i].escape => \A k \in DOMAIN texts[i] : texts[i][k] < 128

\* Of the text of an array, an object, a string, true, false or null, no part that ends
\* earlier is accepted.
CutIsRefused(item) ==
  LET text == Put(item.v, item.pretty, item.escape) IN
  item.v.type \notin {"integer", "float"} =>
    \A n \in 0..(Len(text) - 2) : Parse(SubSeq(text, 1, n), Start(1)).st.err # ""

\* Code units written as escapes are read as UTF-16: refused if a surrogate stands alone,
\* else each pair as one character.
EscapesAreUtf16(units) ==
  LET high(i) == i \in DOMAIN units /\ units[i] \in 55296..56319 IN
  LET low(i) == i \in DOMAIN units /\ units[i] \in 56320..57343 IN
  LET text == <<Quote>> \o FlattenSeq([i \in DOMAIN units |-> U4(units[i])]) \o <<Quote, Newline>> IN
  LET chars == FoldLeft(LAMBDA out, i : IF low(i) THEN out
                                        ELSE Append(out, IF high(i) THEN (units[i] - 55296) * 1024 + units[i + 1] + 9216
                                                         ELSE units[i]),
                        <<>>, [i \in DOMAIN units |-> i]) IN
  LET asUtf16(r) == IF \A i \in 1..Len(units) : (high(i) <=> low(i + 1)) /\ (low(i) => high(i - 1))
                    THEN r.st.err = "" /\ r.v = String(chars)
                    ELSE r.st.err # ""
  IN asUtf16(Parse(text, Start(1)))

\* number = [ minus ] int [ frac ] [ exp ] of RFC 4627: where its parts may end.
IsInt(s) == s # <<>> /\ ToSet(s) \subseteq Digit /\ (s[1] = Zero => Len(s) = 1)
IsFrac(s) == s = <<>> \/ (s[1] = Dot /\ Len(s) > 1 /\ ToSet(Tail(s)) \subseteq Digit)
ExpDigits(s) == IF Len(s) > 1 /\ s[2] \in {Plus, Minus} THEN SubSeq(s, 3, Len(s)) ELSE Tail(s)
IsExp(s) == s = <<>> \/ (/\ s[1] = LowerE /\ ExpDigits(s) # <<>> /\ ToSet(ExpDigits(s)) \subseteq Digit)
NumberParts(s) ==
  {c \in (0..1) \X (0..Len(s)) \X (0..Len(s)) :
     /\ c[1] <= c[2] /\ c[2] <= c[3] /\ (c[1] = 1 => s # <<>> /\ s[1] = Minus)
     /\ IsInt(SubSeq(s, c[1] + 1, c[2])) /\ IsFrac(SubSeq(s, c[2] + 1, c[3])) /\ IsExp(SubSeq(s, c[3] + 1, Len(s)))}
NumberOf(s) ==
  LET c == CHOOSE x \in NumberParts(s) : TRUE IN
  LET digits == SubSeq(s, c[1] + 1, c[2]) \o SubSeq(s, c[2] + 2, c[3]) IN
  LET m == Value(digits, 1, Len(digits) + 1) * (IF c[1] = 1 THEN -1 ELSE 1) IN
  LET frac == IF c[3] > c[2] THEN c[3] - c[2] - 1 ELSE 0 IN
  LET exp == SubSeq(s, c[3] + 1, Len(s)) IN
  LET power == IF exp = <<>> THEN 0
               ELSE Value(ExpDigits(exp), 1, Len(ExpDigits(exp)) + 1) * (IF exp[2] = Minus THEN -1 ELSE 1)
  IN IF c[2] = Len(s) THEN Integer(m) ELSE Float(m, power - frac)

\* A number of the grammar is read as its value: in an array, so that something follows it...
NumberIsRead(s) ==
  NumberParts(s) # {} =>
    LET isNumber(r) == r.st.err = "" /\ r.v = Array(<<NumberOf(s)>>)
    IN isNumber(Parse(<<OpenArray>> \o s \o <<CloseArray>>, Start(1)))

\* ... and at the end of the text.
LastNumberIsRead(s) ==
  NumberParts(s) # {} =>
    LET isNumber(r) == r.st.err = "" /\ r.v = NumberOf(s) IN isNumber(Parse(s, Start(1)))

=============================================================================
