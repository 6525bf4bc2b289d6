------------------------------ MODULE MCFormats ------------------------------
(* TLC's inputs for the components that are functions of their input: a      *)
(* state is a subject and an input for it, which a step makes one item       *)
(* longer; the invariants say what the functions do with each input.         *)
EXTENDS Integers, Sequences, FiniteSets, SequencesExt, FiniteSetsExt, TLC

VARIABLES subject, in

U == INSTANCE Uri WITH Alpha <- {"a", "v"}, Digit <- {"1", "2"}, Hex <- {"a", "1", "2"}
W == INSTANCE Ustring
J == INSTANCE JsonCast WITH LongMax <- 1000000, IntMax <- 7
S == INSTANCE Strings WITH Chars <- 3
H == INSTANCE Http WITH BufSize <- 2, LineLimit <- 40
B == INSTANCE Serialization
M == INSTANCE Codes

ASSUME /\ J!JsonTextAssumption /\ J!JsonCastAssumption
       /\ S!StringsAssumption /\ H!HttpAssumption

UpToTwo(set) == {<<>>} \cup {<<x>> : x \in set} \cup {<<x, y>> : x, y \in set}

-----------------------------------------------------------------------------
(* The items of the inputs. *)

UriTokens ==
  {<<"a">>, <<"1">>, <<":">>, <<"/">>, <<"?">>, <<"#">>, <<"@">>, <<"%", "1", "a">>,
   <<"a", ":", "/", "/", "a">>, <<"[", ":", ":", "]">>, <<"1", ".", "1", ".", "1", ".", "1">>,
   <<"[", "v", "1", ".", "a", "]">>}

\* What a uri holds that has been parsed before.
OlderParts == [f \in DOMAIN U!NoParts |-> <<"v">>]

Utf8Bytes ==
  {0, 31, 32, 127, 128, 143, 144, 159, 160, 189, 190, 191, 192, 193, 194, 223, 224, 225,
   237, 239, 240, 241, 244, 245, 248, 252, 254}
WidthChars == {45, 65, 65383, 65398, 65418, 65395, 65382, 65438, 65439, 12454, 65313}

JsonLeaves ==
  {J!Integer(0), J!Integer(-12), J!Float(15, -1), J!Float(-3, 0), J!Float(5, 20), J!Float(7, -6),
   J!Float(123, -4), J!Bool(TRUE), J!NullValue, J!String(<<>>), J!String(<<34, 92, 47, 10, 127, 233>>),
   J!String(<<97, 65536, 127775, 8232>>), J!Array(<<>>), J!Object(J!NoMembers)}
JsonElements ==
  {J!Integer(3), J!Float(15, 3),
   J!Object((<<97>> :> J!Bool(FALSE)) @@ (<<34, 9>> :> J!Array(<<J!Integer(7)>>)))}
JsonItems ==
  [v : JsonLeaves \cup {J!Array(<<x, y>>) : x, y \in JsonElements}, pretty : BOOLEAN, escape : BOOLEAN]
EscapeUnits == {65, 55295, 55296, 56319, 56320, 57343, 57344}
NumberChars == {J!Minus, J!Plus, J!Zero, 53, J!Dot, J!LowerE}

Member(name, type) == [name |-> name, type |-> type]
Class(type) ==
  J!ClassType(<<Member(<<97>>, type), Member(<<98>>, J!OptionalType(J!IntType)), Member(<<99>>, J!BoolType)>>)
CastTypes ==
  {J!VectorType(J!OptionalType(J!IntType)), J!MapType(J!VectorType(J!DoubleType)),
   J!OptionalType(Class(J!StringType)), J!VectorType(Class(J!IntType)), Class(Class(J!LongType)),
   J!OptionalType(J!JsonType), J!IntType}

\* A few values of a type.
RECURSIVE ValuesOf(_)
ValuesOf(t) ==
  CASE t.kind = "int" -> {-8, 3}
    [] t.kind = "long" -> {20}
    [] t.kind = "double" -> {J!Float(15, -1)}
    [] t.kind = "string" -> {<<>>, <<97>>}
    [] t.kind = "bool" -> {TRUE}
    [] t.kind = "json" -> {J!Integer(1), J!Bool(TRUE)}
    [] t.kind = "vector" -> LET set == ValuesOf(t.of) IN
                            {<<>>} \cup {<<x>> : x \in set} \cup {<<x, x>> : x \in set}
    [] t.kind = "map" -> {<<>>} \cup UNION {{k :> x, (k :> x) @@ (<<98>> :> x)} :
                                            k \in {<<97>>, <<99>>}, x \in ValuesOf(t.of)}
    [] t.kind = "optional" -> {<<>>} \cup {<<x>> : x \in ValuesOf(t.of)}
    [] t.kind = "class" -> {<<x, y, z>> : x \in ValuesOf(t.members[1].type),
                                          y \in ValuesOf(t.members[2].type), z \in BOOLEAN}

\* What such types write, and integers that fit no int.
CastTexts == UNION {{J!ToJson(t, x) : x \in ValuesOf(t)} : t \in CastTypes} \cup {J!Integer(20), J!NullValue}

HeaderEntries ==
  [key : {<<97, 98>>, <<65, 66>>, <<97>>}, val : {<<>>, <<49>>, <<49, 32, 58>>}]
HttpVersions == {<<1, 1>>, <<2, 10>>}
\* No entry for the body, or a length that the program gave, or another encoding than "chunked".
OwnEntries(body) ==
  {<<>>, <<[key |-> <<99>> \o Tail(H!ContentLength), val |-> H!Digits(Len(body))]>>,
   <<[key |-> H!TransferEncoding, val |-> <<120>>]>>}
Chunks == [data : {<<1>>, <<1, 2>>, <<13, 10, 3, 4, 5>>}, ext : {<<>>, <<59, 97>>}, foot : {<<10>>, <<13, 10>>}]

Byte1 == B!Number(1)
\* Streams with such data at each of their positions, which are one in a file.
Streams(joint, set) ==
  {s \in [data : set, get : 0..3, put : 0..3] :
     s.get <= Len(s.data) /\ s.put <= Len(s.data) /\ (joint => s.get = s.put)}
ArchiveCases ==
  [t : {B!Number(2)}, v : {0, 258}, old : {7}]
  \cup [t : {B!String}, v : {<<>>, <<255, 0>>}, old : {<<1>>, <<1, 2, 3>>}]
  \cup [t : {B!Vector(B!String)}, v : {<<>>, <<<<1>>, <<>>>>}, old : {<<>>, <<<<2, 3>>>>}]
  \cup [t : {B!Array(B!Pair(Byte1, B!Vector(Byte1)), 2)}, v : {<<<<1, <<2>>>>, <<3, <<>>>>>>},
        old : {<<<<9, <<9, 9>>>>, <<9, <<>>>>>>}]
  \cup [t : {B!Map(B!Vector(Byte1))}, v : {<<>>, (1 :> <<2>>) @@ (255 :> <<>>)}, old : {<<>>, 7 :> <<7>>}]
  \cup [t : {B!Set}, v : {{}, {0, 255}}, old : {{1}}]
  \cup UNION {[t : {B!Pair(B!Stream(joint), B!Number(2))}, v : Streams(joint, UpToTwo({0, 255})) \X {513},
               old : Streams(joint, {<<>>, <<1>>, <<1, 2, 3>>}) \X {0}] : joint \in BOOLEAN}

CodeItems ==
  [op : {"word"}, v : {5}, k : {3}] \cup [op : {"word"}, v : {255}, k : {8}]
  \cup [op : {"gamma"}, v : {1, 9}, k : {0}] \cup [op : {"delta"}, v : {1, 5}, k : {0}]
  \cup [op : {"rice"}, v : {0, 5}, k : {2}] \cup [op : {"prefix"}, v : {0, 127, 128, 300}, k : {0}]
  \cup [op : {"byte"}, v : {200}, k : {0}]
MatrixRows == UNION {[columns -> {1, 255}] : columns \in SUBSET {0, 2, 130}}

\* The items of each subject, and how many an input has at most.
Subjects ==
  [uri      |-> [items |-> UriTokens, max |-> 5],
   utf8     |-> [items |-> Utf8Bytes, max |-> 4],
   widths   |-> [items |-> WidthChars, max |-> 4],
   json     |-> [items |-> JsonItems, max |-> 2],
   escapes  |-> [items |-> EscapeUnits, max |-> 4],
   number   |-> [items |-> NumberChars, max |-> 6],
   cast     |-> [items |-> CastTypes, max |-> 1],
   strings  |-> [items |-> 0..2, max |-> 8],
   header   |-> [items |-> HeaderEntries, max |-> 3],
   chunks   |-> [items |-> Chunks, max |-> 3],
   archive  |-> [items |-> ArchiveCases, max |-> 1],
   base64   |-> [items |-> {0, 3, 64, 128, 255}, max |-> 5],
   codes    |-> [items |-> CodeItems, max |-> 3],
   padding  |-> [items |-> {7}, max |-> 130],
   matrix   |-> [items |-> MatrixRows, max |-> 3]]

\* Where an input that is long enough may not go on in every way.
MayFollow(c) ==
  CASE subject = "utf8" -> Len(in) = 3 => in[1] >= 237 /\ in[2] >= 128 /\ c >= 128
    [] subject = "matrix" -> Len(in) = 2 => \A r \in {in[1], in[2], c} : 130 \notin DOMAIN r
    [] OTHER -> TRUE

Init == subject \in DOMAIN Subjects /\ in = <<>>

Next ==
  /\ Len(in) < Subjects[subject].max
  /\ \E c \in Subjects[subject].items : MayFollow(c) /\ in' = Append(in, c)
  /\ UNCHANGED subject

Spec == Init /\ [][Next]_<<subject, in>>

-----------------------------------------------------------------------------

\* A uri is split as RFC 3986 says and what is printed is parsed to the same
\* parts (network/uri.cpp).
UriExact ==
  subject = "uri" => LET s == FlattenSeq(in) IN U!SplitAsRfc(s, OlderParts) /\ U!PrintedIsParsed(s)

\* What check_utf8() accepts is the one encoding of its characters, what
\* sanitize_utf8() gives is accepted, and the conversions of widths give no
\* half-width form (data/string/ustring.cpp); uri_decode() undoes uri_encode().
TextExact ==
  /\ subject = "utf8" => W!Utf8Exact(in) /\ U!CodeInverse(in)
  /\ subject = "widths" => W!WidthsExact(in)

\* Json values written one after the other are read back one by one, a text
\* that was cut short is refused, escapes are read as UTF-16, and a number of
\* the grammar that something follows is read as its value
\* (text/json/parser.cpp, base.h).
JsonReadExact ==
  /\ subject = "json" => J!StreamIsRead(in) /\ \A i \in DOMAIN in : J!CutIsRefused(in[i])
  /\ subject = "escapes" => J!EscapesAreUtf16(in)
  /\ subject = "number" => J!NumberIsRead(in)

\* "Streams follow the format of JSON": a number is read at the end too.
LastNumberIsRead == subject = "number" => J!LastNumberIsRead(in)

\* from_json() undoes to_json(), and a cast that throws leaves the variable as
\* it was but for the members of a class that fitted (text/json/cast.h).
CastExact ==
  subject = "cast" => \A t \in ToSet(in) :
    \A old \in ValuesOf(t) : /\ \A x \in ValuesOf(t) : J!CastInverse(t, x, old, 5)
                             /\ \A js \in CastTexts : J!CastFails(t, js, old, 5)

\* Splitting and joining, the dynamic programs, and the searches are exact
\* (data/string).
StringsExact ==
  subject = "strings" =>
    LET parts == S!Split(in, <<0>>) IN
    /\ S!SearchesExact(Front(parts), Last(parts))
    /\ Len(parts) = 2 => S!TablesExact(parts[1], parts[2])
    /\ Len(parts) = 3 => S!SplitExact(parts[1], parts[2], parts[3])

\* The header keeps its order and finds its keys in any case; a request and a
\* body in chunks arrive as they were sent (network/http/base.cpp).
HttpExact ==
  /\ subject = "header" =>
       /\ H!HeaderLaws(in)
       /\ \A body \in {<<>>, <<10>>, <<1, 255, 3>>}, next \in {<<>>, <<71, 255, 10>>} :
            \A version \in HttpVersions, own \in OwnEntries(body) :
              H!RequestArrives([method |-> <<71>>, uri |-> <<47>>, version |-> version, body |-> body,
                                dat |-> FoldLeft(LAMBDA d, e : H!Set(d, e.key, e.val), <<>>, own \o in)], next)
  /\ subject = "chunks" =>
       \A trailer \in {<<>>, <<97, 58, 49, 13, 10>>}, next \in {<<>>, <<71, 10>>} : H!ChunksJoin(in, trailer, next)

\* What is archived, encoded or written to a matrix is read back
\* (data/serialization, data/code, base64.cpp, md5.h, data/sparse_matrix).
EncodingsExact ==
  /\ subject = "archive" => \A c \in ToSet(in) : /\ B!CutIsSeen(c.t, c.v, c.old)
                                                 /\ \A next \in {<<>>, <<0>>} : B!ReadsBack(c.t, c.v, c.old, next)
  /\ subject = "base64" => M!Base64Inverse(in)
  /\ subject = "codes" => M!CodesInverse(in)
  /\ subject = "padding" => M!PaddingExact(in)
  /\ subject = "matrix" => /\ M!RowsReadBack(in)
                           /\ ((\A r \in ToSet(in) : 130 \notin DOMAIN r) => M!TransposeExact(in, {0, 2, 100}))
=============================================================================
