-------------------------------- MODULE Http ---------------------------------
(***************************************************************************)
(* network/http: the header and its reader, request::send and the reading  *)
(* of a request from a socket, the bodies of a given length and in chunks. *)
(* response differs in its first line only.  A socket is the sequence of   *)
(* bytes still to come; the first line is words between blanks, the parts  *)
(* of the uri in it being the matter of Uri.                               *)
(***************************************************************************)
EXTENDS Integers, Sequences, SequencesExt, FiniteSetsExt

CONSTANTS BufSize,    \* buf_size, 4096 in the code
          LineLimit   \* line_limit, 4096 in the code

HttpAssumption == BufSize \in Nat \ {0} /\ LineLimit \in Nat \ {0}

Cr == 13
Lf == 10
Blank == 32
Colon == 58
Crlf == <<Cr, Lf>>
Eof == 255             \* the byte that is the int EOF once it is kept as a char
IsSpace(c) == c \in (9..13) \cup {Blank}
Lower(c) == IF c \in 65..90 THEN c + 32 ELSE c
Upper(c) == IF c \in 97..122 THEN c - 32 ELSE c
Take(s, n) == SubSeq(s, 1, Min({n, Len(s)}))
Drop(s, n) == SubSeq(s, n + 1, Len(s))

\* stream_socket::getline(): up to a line feed, the limit or the end; getc() gives every
\* byte as a number from 0 on, so that no byte reads as the end.
GetLine(sock) ==
  LET stops == {i \in DOMAIN sock : sock[i] = Lf} \cup {Len(sock) + 1, LineLimit + 1}
      end == Min(stops)
      str == SubSeq(sock, 1, end - 1)
      line == end <= Len(sock) /\ end <= LineLimit /\ sock[end] = Lf
  IN [ok |-> line \/ str # <<>>,
      line |-> IF line /\ str # <<>> /\ Last(str) = Cr THEN Front(str) ELSE str,
      rest |-> Drop(sock, IF end <= LineLimit THEN Min({end, Len(sock)}) ELSE LineLimit)]

-----------------------------------------------------------------------------
(* header: entries in the order of their insertion *)

Cicmp(s, t) == Len(s) = Len(t) /\ \A i \in DOMAIN s : Lower(s[i]) = Lower(t[i])

Positions(dat, key) == {i \in DOMAIN dat : Cicmp(dat[i].key, key)}
HasKey(dat, key) == Positions(dat, key) # {}
\* What a header is once operator[] has looked for key: an entry that was missing is there.
Looked(dat, key) == IF HasKey(dat, key) THEN dat ELSE Append(dat, [key |-> key, val |-> <<>>])
\* The value that get() and either operator[] refer to.
Get(dat, key) == IF HasKey(dat, key) THEN dat[Min(Positions(dat, key))].val ELSE <<>>
\* set(), and operator[] with an assignment: the key keeps the letters it came in with.
Set(dat, key, val) ==
  LET found == Looked(dat, key) IN [found EXCEPT ![Min(Positions(found, key))].val = val]
Erase(dat, key) ==
  IF HasKey(dat, key) THEN RemoveAt(dat, Min(Positions(dat, key))) ELSE dat

HeaderBytes(dat) ==
  FlattenSeq([i \in DOMAIN dat |-> dat[i].key \o <<Colon, Blank>> \o dat[i].val \o Crlf]) \o Crlf

TrimRight(s) == SubSeq(s, 1, Max({0} \cup {i \in DOMAIN s : ~IsSpace(s[i])}))
TrimLeft(s) == Drop(s, Min({Len(s)} \cup {i - 1 : i \in {j \in DOMAIN s : ~IsSpace(s[j])}}))

\* The name before the first colon; without one the whole line, blanks and all.
Name(line) ==
  LET colons == {i \in DOMAIN line : line[i] = Colon}
  IN IF colons = {} THEN line ELSE TrimRight(SubSeq(line, 1, Min(colons) - 1))
Value(line) ==
  LET colons == {i \in DOMAIN line : line[i] = Colon} IN IF colons = {} THEN <<>> ELSE Drop(line, Min(colons))
\* A continuation line: blanks that follow blanks are dropped.
Continued(val, line) ==
  FoldLeft(LAMBDA v, c : IF v # <<>> /\ IsSpace(Last(v)) /\ IsSpace(c) THEN v ELSE Append(v, c), val, line)

\* read_header(): fields until an empty line or the end.
Stops(l) == ~l.ok \/ l.line = <<>> \/ l.line = <<Cr>>
RECURSIVE Fields(_, _, _, _)
Fields(dat, key, val, sock) ==
  LET l == GetLine(sock)
  IN IF ~Stops(l) /\ IsSpace(l.line[1]) THEN Fields(dat, key, Continued(val, l.line), l.rest)
     ELSE LET more == Set(dat, key, TrimLeft(val))
          IN IF Stops(l) THEN [ok |-> TRUE, dat |-> more, rest |-> l.rest]
             ELSE Fields(more, Name(l.line), Value(l.line), l.rest)
ReadHeader(sock) ==
  LET l == GetLine(sock)
  IN IF ~l.ok THEN [ok |-> FALSE]
     ELSE IF l.line = <<>> THEN [ok |-> TRUE, dat |-> <<>>, rest |-> l.rest]
     ELSE Fields(<<>>, Name(l.line), Value(l.line), l.rest)

-----------------------------------------------------------------------------
(* Bodies: what is read until the stream says it ends, and the socket then *)

Read(data, rest) == [ok |-> TRUE, data |-> data, rest |-> rest]
UpTo(s, stop) == SubSeq(s, 1, Min({i \in DOMAIN s : s[i] = stop} \cup {Len(s) + 1}) - 1)

\* basic_httpbody_streambuf: one getc() for each byte, the end where the count reaches
\* zero.  A length that is not positive is counted down for ever: everything is body.
LengthBody(sock, length) == IF length <= 0 THEN Read(sock, <<>>) ELSE Read(Take(sock, length), Drop(sock, length))

HexDigit == [c \in (48..57) \cup (97..102) \cup (65..70) |->
               IF c <= 57 THEN c - 48 ELSE (IF c >= 97 THEN c - 87 ELSE c - 55)]
HexValue(s) ==
  FoldLeft(LAMBDA v, c : 16 * v + HexDigit[c], 0,
           SubSeq(s, 1, Min({i \in DOMAIN s : s[i] \notin DOMAIN HexDigit} \cup {Len(s) + 1}) - 1))

RECURSIVE SkipTrailer(_)
SkipTrailer(sock) ==
  LET l == GetLine(sock) IN IF l.ok /\ l.line # <<>> THEN SkipTrailer(l.rest) ELSE l.rest

\* The footer of a chunk: CR LF or LF alone.
FooterLength(sock) ==
  CASE sock # <<>> /\ sock[1] = Lf -> 1
    [] Len(sock) >= 2 /\ sock[1] = Cr /\ sock[2] = Lf -> 2
    [] OTHER -> 0

\* Fault: the footer is expected after every buffer and not after every chunk.
ChunkRest_Zero(chunk_rest, cur) == 0

ChunkRest(chunk_rest, cur) == chunk_rest - cur

(***************************************************************************)
(* basic_httpbody_chunked_streambuf: fill() takes at most a buffer of the  *)
(* chunk.  A block that comes short is dropped with the socket; a wrong    *)
(* footer throws, which the stream turns into a failure.  The buffer is of *)
(* char: a byte 0xff in it reads as the end.                               *)
(***************************************************************************)
RECURSIVE Fill(_, _, _)
Fill(data, sock, chunk_rest) ==
  LET l == GetLine(sock)
      size == IF chunk_rest > 0 THEN chunk_rest ELSE IF l.ok THEN HexValue(TrimLeft(l.line)) ELSE 0
      from == IF chunk_rest > 0 THEN sock ELSE l.rest
      cur == Min({size, BufSize})
      block == SubSeq(from, 1, cur)
      after == Drop(from, cur)
      rest == ChunkRest(size, cur)
      foot == FooterLength(after)
  IN IF size = 0 THEN Read(data, IF l.ok THEN SkipTrailer(from) ELSE from)
     ELSE IF Len(block) < cur THEN Read(data, after)
     ELSE IF rest = 0 /\ foot = 0 THEN [ok |-> FALSE]
     ELSE IF Contains(block, Eof) THEN Read(data \o UpTo(block, Eof), Drop(after, IF rest = 0 THEN foot ELSE 0))
     ELSE Fill(data \o block, Drop(after, IF rest = 0 THEN foot ELSE 0), rest)
ChunkedBody(sock) == Fill(<<>>, sock, 0)

-----------------------------------------------------------------------------
(* request *)

\* lexical_cast to a string, n < 100; and from one, as "%d" reads too: the number that a
\* text begins with, and what follows it.
Digits(n) == IF n < 10 THEN <<48 + n>> ELSE <<48 + (n \div 10), 48 + (n % 10)>>
ScanInt(s) ==
  LET signed == s # <<>> /\ s[1] \in {43, 45}
      number == IF signed THEN Drop(s, 1) ELSE s
      n == Min({i \in DOMAIN number : number[i] \notin 48..57} \cup {Len(number) + 1}) - 1
      value == FoldLeft(LAMBDA v, c : 10 * v + (c - 48), 0, Take(number, n))
  IN [ok |-> n > 0, n |-> IF signed /\ s[1] = 45 THEN -value ELSE value, rest |-> Drop(number, n)]

ContentLength == <<67, 111, 110, 116, 101, 110, 116, 45, 76, 101, 110, 103, 116, 104>>
TransferEncoding == <<84, 114, 97, 110, 115, 102, 101, 114, 45, 69, 110, 99, 111, 100, 105, 110, 103>>
Chunked == <<99, 104, 117, 110, 107, 101, 100>>
HttpSlash == <<72, 84, 84, 80, 47>>
Dot == <<46>>

\* request::send(): the length of a body is added unless the program gave one.
WithLength(dat, body) ==
  IF ~HasKey(dat, ContentLength) /\ body # <<>> THEN Set(dat, ContentLength, Digits(Len(body))) ELSE dat
Send(req) ==
  req.method \o <<Blank>> \o req.uri \o <<Blank>>
    \o HttpSlash \o Digits(req.version[1]) \o Dot \o Digits(req.version[2]) \o Crlf
    \o HeaderBytes(WithLength(req.dat, req.body)) \o req.body

\* A version in letters of any case, whatever follows its second number.
Version(word) ==
  LET major == ScanInt(Drop(word, 5))
      minor == ScanInt(Drop(major.rest, 1))
  IN [ok |-> /\ [i \in DOMAIN Take(word, 5) |-> Upper(word[i])] = HttpSlash
             /\ major.ok /\ Take(major.rest, 1) = Dot /\ minor.ok,
      version |-> <<major.n, minor.n>>]

\* The words of a line; a missing one is read as none.
Word(line, k) ==
  LET cuts == {i \in DOMAIN line : ~IsSpace(line[i]) /\ (i = 1 \/ IsSpace(line[i - 1]))}
      from(i) == Drop(line, i - 1)
      word(s) == Take(s, Min({i \in DOMAIN s : IsSpace(s[i])} \cup {Len(s) + 1}) - 1)
  IN IF k > Cardinality(cuts) THEN <<>>
     ELSE word(from(CHOOSE i \in cuts : Cardinality({j \in cuts : j < i}) = k - 1))

\* The header once the body has been chosen by it: "Transfer-Encoding" has been looked
\* for, and "Content-Length" unless the body comes in chunks.
IsChunked(dat) == Cicmp(Get(dat, TransferEncoding), Chunked)
LookedUp(dat) ==
  IF IsChunked(dat) THEN dat ELSE Looked(Looked(dat, TransferEncoding), ContentLength)

\* The body by the header: chunked before a length, the socket itself without either; a
\* length that is no number throws.
Length(dat) == ScanInt(TrimLeft(Get(dat, ContentLength)))
LengthThrows(dat) == ~IsChunked(dat) /\ Get(dat, ContentLength) # <<>> /\ ~Length(dat).ok
Body(dat, sock) ==
  IF IsChunked(dat) THEN ChunkedBody(sock)
  ELSE IF Get(dat, ContentLength) # <<>> THEN LengthBody(sock, Length(dat).n)
  ELSE Read(sock, <<>>)

\* request(sock); that there was a first line is not looked at.
Receive(sock) ==
  LET request(line, ver, h) ==
        IF ~(ver.ok /\ h.ok) \/ LengthThrows(h.dat) THEN [ok |-> FALSE]
        ELSE [ok |-> TRUE, method |-> Word(line, 1), uri |-> Word(line, 2), version |-> ver.version,
              dat |-> LookedUp(h.dat), body |-> Body(h.dat, h.rest)]
      after(l) == request(l.line, Version(Word(l.line, 3)), ReadHeader(l.rest))
  IN after(GetLine(sock))

-----------------------------------------------------------------------------
(* header::operator[] as the documentation describes it (http.rst): keys   *)
(* are found in any case, kept in the case they were inserted with, one    *)
(* entry each, and the order stays that of the insertions.                 *)
HeaderLaws(sets) ==
  LET dat == FoldLeft(LAMBDA d, e : Set(d, e.key, e.val), <<>>, sets)
      same(e, f) == [i \in DOMAIN e.key |-> Lower(e.key[i])] = [i \in DOMAIN f.key |-> Lower(f.key[i])]
      of(e) == {i \in DOMAIN sets : same(sets[i], e)}
      firsts == SelectSeq([i \in DOMAIN sets |-> i], LAMBDA i : i = Min(of(sets[i])))
  IN /\ dat = [n \in DOMAIN firsts |->
                 [key |-> sets[firsts[n]].key, val |-> sets[Max(of(sets[firsts[n]]))].val]]
     /\ \A e \in Range(sets) : \A f \in Range(Erase(dat, e.key)) : ~same(e, f)

(* A request of any version and header arrives as it was sent, with the    *)
(* length of its body added, and what follows it on the connection is left *)
(* there; without a body, what follows is read as one, until the end, as   *)
(* the length is missing or "0".  The reader's header has empty entries    *)
(* for the two keys it was asked for, behind those that were sent.  The    *)
(* header that a program gives must not be wrong about the body: another   *)
(* length, or "chunked", which send() does not do.                         *)
RequestArrives(req, next) ==
  LET sent == WithLength(req.dat, req.body)
      asked == SelectSeq(<<TransferEncoding, ContentLength>>, LAMBDA key : ~HasKey(sent, key))
      arrived(got) ==
        /\ got.ok /\ got.method = req.method /\ got.uri = req.uri /\ got.version = req.version
        /\ got.dat = sent \o [i \in DOMAIN asked |-> [key |-> asked[i], val |-> <<>>]]
        /\ got.body = IF req.body = <<>> THEN Read(next, <<>>) ELSE Read(req.body, next)
      wrong == \/ IsChunked(req.dat)
               \/ HasKey(req.dat, ContentLength) /\ Get(req.dat, ContentLength) # Digits(Len(req.body))
  IN ~wrong => arrived(Receive(Send(req) \o next))

Hex(n) == IF n < 16 THEN <<IF n < 10 THEN 48 + n ELSE 87 + n>> ELSE <<49, 48 + n - 16>>
ChunkBytes(c) == Hex(Len(c.data)) \o c.ext \o Crlf \o c.data \o c.foot

(* A body sent in chunks of any sizes, shorter or longer than the buffer,  *)
(* with extensions, either footer and a trailer, is read as the chunks in  *)
(* order, and the reading stops behind the trailer.                        *)
ChunksJoin(chunks, trailer, next) ==
  ChunkedBody(FlattenSeq([i \in DOMAIN chunks |-> ChunkBytes(chunks[i])])
                \o Hex(0) \o Crlf \o trailer \o Crlf \o next)
    = Read(FlattenSeq([i \in DOMAIN chunks |-> chunks[i].data]), next)
==============================================================================
