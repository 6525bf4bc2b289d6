--------------------------------- MODULE Uri ---------------------------------
(***************************************************************************)
(* pfi::network::uri (uri.cpp): the recursive descent over a string, as    *)
(* operators from a position to the position after what was recognised, or *)
(* Fail; and uri_encode(), uri_decode().                                   *)
(* A string is a sequence of characters, one-letter strings; At(s, p) past *)
(* its end is the terminating "".                                          *)
(***************************************************************************)
EXTENDS Integers, Sequences, FiniteSets, SequencesExt, FiniteSetsExt

CONSTANTS Alpha, Digit, Hex  \* isalpha, isdigit and isxdigit of the locale

SubDelims == {"!", "$", "&", "'", "(", ")", "*", "+", ",", ";", "="}
Unreserved == Alpha \cup Digit \cup {"-", ".", "_", "~"}

Fail == 0
At(s, p) == IF p <= Len(s) THEN s[p] ELSE ""
Text(s, from, to) == SubSeq(s, from, to - 1)

\* The end of the longest run of characters of set from p on.
Span(s, p, set) == CHOOSE e \in p..(Len(s) + 1) : /\ At(s, e) \notin set
                                                  /\ \A q \in p..(e - 1) : s[q] \in set

Pct(s, p) == At(s, p) = "%" /\ At(s, p + 1) \in Hex /\ At(s, p + 2) \in Hex

\* The same with percent-encoded characters, each of which takes the reader step on.
SpanPct(s, p, set, step) ==
  LET end[q \in p..(Len(s) + step)] == IF At(s, q) \in set THEN end[q + 1]
                                       ELSE IF Pct(s, q) THEN end[q + step]
                                       ELSE q
  IN end[p]

PChar == Unreserved \cup SubDelims \cup {":", "@"}

-----------------------------------------------------------------------------
(* Hosts *)

\* The first of two forms that fits.
Or(first, second) == IF first # Fail THEN first ELSE second

\* Does s have character c at p, and then what the rest recognises?
Lit(s, p, c) == IF p # Fail /\ At(s, p) = c THEN p + 1 ELSE Fail

H16(s, p) == IF p # Fail /\ \A i \in 0..3 : At(s, p + i) \in Hex THEN p + 4 ELSE Fail

DecOctet(s, p) ==
  LET d(i) == At(s, p + i) IN
  LET three == \/ d(0) = "2" /\ d(1) = "5" /\ d(2) \in {"0", "1", "2", "3", "4", "5"}
               \/ d(0) = "2" /\ d(1) \in {"0", "1", "2", "3", "4"} /\ d(2) \in Digit
               \/ d(0) = "1" /\ d(1) \in Digit /\ d(2) \in Digit IN
  LET two == d(0) \in Digit \ {"0"} /\ d(1) \in Digit IN
  IF p = Fail \/ d(0) \notin Digit THEN Fail
  ELSE IF three THEN p + 3 ELSE IF two THEN p + 2 ELSE p + 1

Ipv4Address(s, p) ==
  LET dot(q) == Lit(s, DecOctet(s, q), ".") IN DecOctet(s, dot(dot(dot(p))))

\* n times h16 and a colon.
Groups(s, p, n) ==
  LET after[i \in 0..n] == IF i = 0 THEN p ELSE Lit(s, H16(s, after[i - 1]), ":") IN after[n]

Ls32(s, p) ==
  Or(Ipv4Address(s, p), H16(s, Groups(s, p, 1)))

\* parse_ipv6_1() to parse_ipv6_9(): "::" may come first or after k - 3 groups and one
\* more h16, exactly as many as the form has.
Ipv6(s, p, k) ==
  LET prefix == IF k < 3 THEN Fail ELSE H16(s, Groups(s, p, k - 3)) IN
  LET colons == Lit(s, Lit(s, IF prefix = Fail THEN p ELSE prefix, ":"), ":") IN
  CASE k = 1 -> Ls32(s, Groups(s, p, 6))
    [] k \in 2..7 -> Ls32(s, Groups(s, colons, 7 - k))
    [] k = 8 -> H16(s, colons)
    [] k = 9 -> colons

\* The first of the nine forms that fits.
Ipv6Address(s, p) ==
  LET fits == {k \in 1..9 : Ipv6(s, p, k) # Fail}
  IN IF fits = {} THEN Fail ELSE Ipv6(s, p, Min(fits))

\* parse_ipvfuture() stops before the first character after the dot: its loop goes on
\* over what may not be there.
IpvFuture(s, p) ==
  LET v == Lit(s, p, "v") IN
  LET dot == IF v # Fail /\ At(s, v) \in Hex THEN Lit(s, Span(s, v, Hex), ".") ELSE Fail IN
  IF dot # Fail /\ At(s, dot) \in Unreserved \cup SubDelims \cup {":"} THEN dot ELSE Fail

IpLiteral(s, p) ==
  LET open == Lit(s, p, "[")
  IN Lit(s, Or(Ipv6Address(s, open), IpvFuture(s, open)), "]")

\* parse_host(): the first that fits, a prefix that looks like an IPv4 address included.
Host(s, p) ==
  Or(IpLiteral(s, p), Or(Ipv4Address(s, p), SpanPct(s, p, Unreserved \cup SubDelims, 3)))

-----------------------------------------------------------------------------
(* The parts; each returns where it ends and the fields it sets *)

NoParts == [scheme |-> <<>>, userinfo |-> <<>>, host |-> <<>>, port |-> <<>>,
            path |-> <<>>, query |-> <<>>, fragment |-> <<>>]

\* parse_userinfo() steps over a percent-encoded character twice.
Userinfo(s, p) == SpanPct(s, p, Unreserved \cup SubDelims \cup {":"}, 6)

Authority(s, p, parts) ==
  LET upTo(h, e, f) ==
        [end |-> f,
         parts |-> [parts EXCEPT !.userinfo = IF h > p THEN Text(s, p, h - 1) ELSE <<>>,
                                 !.host = Text(s, h, e),
                                 !.port = IF f > e THEN Text(s, e + 1, f) ELSE <<>>]] IN
  LET hostTo(h, e) == upTo(h, e, IF At(s, e) = ":" THEN Span(s, e + 1, Digit) ELSE e) IN
  LET hostAt(h) == hostTo(h, Host(s, h)) IN
  LET userinfoTo(at) == hostAt(IF At(s, at) = "@" THEN at + 1 ELSE p)
  IN userinfoTo(Userinfo(s, p))

\* parse_path_abempty(): segments, each after a slash.
AbEmpty(s, p) == IF At(s, p) = "/" THEN SpanPct(s, p, PChar \cup {"/"}, 3) ELSE p

SegmentNz(s, p, set) == IF SpanPct(s, p, set, 3) = p THEN Fail ELSE SpanPct(s, p, set, 3)

\* parse_hier_part() and parse_relative_part(): first is what their first segment without
\* a slash may consist of.
HierPart(s, p, parts, first) ==
  LET path(e) == [end |-> e, parts |-> [parts EXCEPT !.path = Text(s, p, e)]] IN
  IF At(s, p) = "/" /\ At(s, p + 1) = "/"
  THEN LET pathOf(a) == [end |-> AbEmpty(s, a.end),
                         parts |-> [a.parts EXCEPT !.path = Text(s, a.end, AbEmpty(s, a.end))]]
       IN pathOf(Authority(s, p + 2, parts))
  ELSE IF At(s, p) = "/"
  THEN IF SegmentNz(s, p + 1, PChar) = Fail THEN path(p + 1)
       ELSE path(AbEmpty(s, SegmentNz(s, p + 1, PChar)))
  ELSE IF SegmentNz(s, p, first) # Fail
  THEN path(AbEmpty(s, SegmentNz(s, p, first)))
  ELSE path(p)

\* An optional part after its mark.
After(s, p, mark) == IF At(s, p) = mark THEN SpanPct(s, p + 1, PChar \cup {"/", "?"}, 3) ELSE p

Tail2(s, h) ==
  LET q == After(s, h.end, "?") IN
  LET f == After(s, q, "#") IN
  [end |-> f,
   parts |-> [h.parts EXCEPT !.query = IF q = h.end THEN @ ELSE Text(s, h.end + 1, q),
                             !.fragment = IF f = q THEN @ ELSE Text(s, q + 1, f)]]

\* parse_uri() and parse_relative_ref(); [end |-> Fail] if they do not fit the whole.
Whole(s, r) == IF r.end # Fail /\ r.end = Len(s) + 1 THEN r ELSE [r EXCEPT !.end = Fail]

Scheme(s) == IF At(s, 1) \in Alpha THEN Span(s, 1, Alpha \cup Digit \cup {"+", "-", "."}) ELSE Fail

ParseUri(s, older) ==
  LET e == Scheme(s) IN
  LET parts == IF e = Fail THEN older ELSE [older EXCEPT !.scheme = Text(s, 1, e)] IN
  IF e = Fail \/ At(s, e) # ":" THEN [end |-> Fail, parts |-> parts]
  ELSE Whole(s, Tail2(s, HierPart(s, e + 1, parts, PChar)))

\* Fault: the parts that an attempt has set are kept.
Cleared_Kept(parts) == parts

\* clear(), before either attempt and after both have failed.
Cleared(parts) == NoParts

ParseRelativeRef(s, parts) == Whole(s, Tail2(s, HierPart(s, 1, parts, PChar \ {":"})))

\* uri::parse() of a uri that has older parts.
Parse(s, older) ==
  LET orNone(relative) == IF relative.end # Fail THEN relative
                          ELSE [relative EXCEPT !.parts = Cleared(@)] IN
  LET orRelative(absolute) == IF absolute.end # Fail THEN absolute
                              ELSE orNone(ParseRelativeRef(s, Cleared(absolute.parts)))
  IN orRelative(ParseUri(s, Cleared(older)))

\* authority() and operator<<
AuthorityText(u) ==
  (IF u.userinfo = <<>> THEN <<>> ELSE u.userinfo \o <<"@">>) \o u.host
  \o IF u.port = <<>> THEN <<>> ELSE <<":">> \o u.port
Printed(u) ==
  LET marked(mark, part) == IF part = <<>> THEN <<>> ELSE <<mark>> \o part
  IN (IF u.scheme = <<>> THEN <<>> ELSE u.scheme \o <<":", "/", "/">>) \o AuthorityText(u)
     \o (IF u.path = <<>> THEN <<"/">> ELSE u.path) \o marked("?", u.query) \o marked("#", u.fragment)

-----------------------------------------------------------------------------
(* uri_encode() and uri_decode(), on bytes *)

Byte == 0..255
AlnumByte == 48..57 \cup 65..90 \cup 97..122
KeptByte == AlnumByte \cup {45, 95, 46, 126}
Percent == 37
Plus == 43
Space == 32

HexDigit(n) == IF n < 10 THEN 48 + n ELSE 65 + n - 10
HexValue(c) == IF c \in 48..57 THEN c - 48
               ELSE IF c \in 65..70 THEN c - 55
               ELSE IF c \in 97..102 THEN c - 87
               ELSE 0

UriEncode(s) ==
  FoldLeft(LAMBDA out, c : out \o IF c \in KeptByte THEN <<c>>
                                  ELSE IF c = Space THEN <<Plus>>
                                  ELSE <<Percent, HexDigit(c \div 16), HexDigit(c % 16)>>,
           <<>>, s)

UriDecode(s) ==
  LET from[i \in 1..(Len(s) + 1)] ==
        IF i > Len(s) THEN <<>>
        ELSE IF s[i] = Percent /\ i + 2 <= Len(s)
        THEN <<HexValue(s[i + 1]) * 16 + HexValue(s[i + 2])>> \o from[i + 3]
        ELSE <<IF s[i] = Plus THEN Space ELSE s[i]>> \o from[i + 1]
  IN from[1]

-----------------------------------------------------------------------------
(* What a parse promises *)

\* The split of RFC 3986, appendix B: ^(([^:/?#]+):)?(//([^/?#]*))?([^?#]*)(\?([^#]*))?(#(.*))?
\* of which the code makes a descent with two attempts that set the same fields.
Without(set, s, p) == CHOOSE e \in p..(Len(s) + 1) : /\ At(s, e) \in set \cup {""}
                                                     /\ \A q \in p..(e - 1) : s[q] \notin set
RfcSplit(s) ==
  LET c == Without({":", "/", "?", "#"}, s, 1) IN
  LET has == c > 1 /\ At(s, c) = ":" IN
  LET b == IF has THEN c + 1 ELSE 1 IN
  LET net == At(s, b) = "/" /\ At(s, b + 1) = "/" IN
  LET a == IF net THEN b + 2 ELSE b IN
  LET p == IF net THEN Without({"/", "?", "#"}, s, a) ELSE b IN
  LET q == Without({"?", "#"}, s, p) IN
  LET f == IF At(s, q) = "?" THEN Without({"#"}, s, q) ELSE q IN
  [scheme |-> IF has THEN Text(s, 1, c) ELSE <<>>, authority |-> Text(s, a, p),
   path |-> Text(s, p, q),
   query |-> IF f > q THEN Text(s, q + 1, f) ELSE <<>>,
   fragment |-> IF f <= Len(s) THEN Text(s, f + 1, Len(s) + 1) ELSE <<>>]

\* What is accepted is split into the parts that RFC 3986 says, none left over from an
\* earlier text or an attempt that failed, what is not accepted leaves no part at all,
\* and the authority is split into what is before its first "@", the host, and the digits after
\* the colon behind the host.  (Not for percent-encoded characters in the authority:
\* parse_userinfo(), tried on the host too, steps over them twice.)
SplitsAs(u, r) ==
  LET a == r.authority IN
  LET at == SelectInSeq(a, LAMBDA c : c = "@") IN
  IF u.end = Fail THEN u.parts = NoParts
  ELSE "%" \notin ToSet(a) =>
    /\ \A f \in {"scheme", "path", "query", "fragment"} : u.parts[f] = r[f]
    /\ u.parts.userinfo = SubSeq(a, 1, at - 1)
    /\ \E colon \in {<<>>, <<":">>} :
         /\ SubSeq(a, at + 1, Len(a)) = u.parts.host \o colon \o u.parts.port
         /\ colon = <<>> => u.parts.port = <<>>
SplitAsRfc(s, older) == SplitsAs(Parse(s, older), RfcSplit(s))

\* A uri with a scheme and a host that is printed is parsed again to the same parts, an
\* empty path having become "/".  (operator<< puts "://" and "/" where others have none.)
\* Authorities with percent-encoded characters are left out again.
PrintedIsParsed(s) ==
  LET sameParts(r, u) == /\ r.end # Fail
                         /\ r.parts = [u EXCEPT !.path = IF @ = <<>> THEN <<"/">> ELSE @] IN
  LET again(r, u) ==
        r.end # Fail /\ u.scheme # <<>> /\ u.host # <<>> => sameParts(Parse(Printed(u), NoParts), u) IN
  LET parsed(r) == again(r, r.parts)
  IN "%" \notin ToSet(RfcSplit(s).authority) => parsed(Parse(s, NoParts))

\* uri_decode() undoes uri_encode(), which leaves nothing in the text that a form or a query
\* could take for a separator.
CodeInverse(s) ==
  /\ UriDecode(UriEncode(s)) = s
  /\ ToSet(UriEncode(s)) \subseteq KeptByte \cup {Plus, Percent}

=============================================================================
