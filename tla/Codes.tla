-------------------------------- MODULE Codes --------------------------------
(***************************************************************************)
(* base64.cpp, the bit codes of data/code/code.cpp, the message that md5.h *)
(* cuts into blocks, and data/sparse_matrix, files of rows in the codes.   *)
(* Bytes are 0..255; a base64 character is its value 0..63, '=' is Pad and *)
(* any other character is an error.                                        *)
(***************************************************************************)
EXTENDS Integers, Sequences, SequencesExt, FiniteSetsExt

Pad == -1
Byte(x) == x % 256
Pow2(n) == 2 ^ n

-----------------------------------------------------------------------------
(* base64 *)

\* base64_encode(): three bytes are four characters; what remains is filled up with '='.
Base64Encode(s) ==
  LET at(i) == IF i <= Len(s) THEN s[i] ELSE 0
      quad(i) == LET val == at(i) * 65536 + at(i + 1) * 256 + at(i + 2)
                     remain == Len(s) - i + 1
                 IN <<val \div 262144, (val \div 4096) % 64,
                      IF remain = 1 THEN Pad ELSE (val \div 64) % 64,
                      IF remain <= 2 THEN Pad ELSE val % 64>>
      blocks == (Len(s) + 2) \div 3
  IN FlattenSeq([k \in 1..blocks |-> quad(3 * k - 2)])

Invalid == [ok |-> FALSE]
Decoded(bytes) == [ok |-> TRUE, bytes |-> bytes]

DecodeQuad(q) ==
  <<Byte(q[1] * 4 + q[2] \div 16)>>
    \o IF q[3] = Pad THEN <<>>
       ELSE <<Byte(q[2] * 16 + q[3] \div 4)>> \o IF q[4] = Pad THEN <<>> ELSE <<Byte(q[3] * 64 + q[4])>>

\* base64_decode(): the first '=' in the third or fourth place ends one block only in
\* the sense that the loop breaks: everything behind it is not looked at, not even checked.
Base64Decode(s) ==
  LET quads == [k \in 1..(Len(s) \div 4) |-> SubSeq(s, 4 * k - 3, 4 * k)]
      broken == {k \in DOMAIN quads : quads[k][3] = Pad \/ quads[k][4] = Pad}
      last == IF broken = {} THEN Len(quads) ELSE Min(broken)
  IN IF Len(s) % 4 # 0 \/ \E k \in 1..last : quads[k][1] = Pad \/ quads[k][2] = Pad THEN Invalid
     ELSE Decoded(FlattenSeq([k \in 1..last |-> DecodeQuad(quads[k])]))

-----------------------------------------------------------------------------
(* The encoder and the decoder of bit codes.  The encoder is its bytes and *)
(* the number of bits of the last one that are taken (0 for all); the      *)
(* decoder a position in them.  Bits go from the lowest up.                *)

Empty == [bytes |-> <<>>, bit |-> 0]

PutByte(e, v) == [bytes |-> Append(e.bytes, v), bit |-> 0]

\* word_with_length(): the low len bits of v, one after the other.
PutBit(e, b) ==
  LET bytes == IF e.bit = 0 THEN Append(e.bytes, 0) ELSE e.bytes
  IN [bytes |-> [bytes EXCEPT ![Len(bytes)] = @ + b * Pow2(e.bit)], bit |-> (e.bit + 1) % 8]
PutWord(e, v, len) ==
  FoldLeft(LAMBDA x, i : PutBit(x, (v \div Pow2(i - 1)) % 2), e, [i \in 1..len |-> i])

\* The position of the highest bit: get_len(v) - 1, which has no value for 0.
Top(v) == CHOOSE p \in 0..30 : Pow2(p) <= v /\ v < 2 * Pow2(p)

PutGamma(e, v) ==
  LET pmsf == Top(v)
  IN PutWord(PutWord(PutWord(e, 0, pmsf), 1, 1), v - Pow2(pmsf), pmsf)
PutDelta(e, v) == LET pmsf == Top(v) IN PutWord(PutGamma(e, pmsf + 1), v - Pow2(pmsf), pmsf)
PutRice(e, v, k) == PutWord(PutDelta(e, (v \div Pow2(k)) + 1), v % Pow2(k), k)
\* prefix_code(): seven bits a byte, the last byte marked; starts at a new byte.
PutPrefix(e, v) ==
  LET more[x \in 0..v] == IF x < 128 THEN <<x + 128>> ELSE <<x % 128>> \o more[x \div 128]
  IN [bytes |-> e.bytes \o more[v], bit |-> 0]

\* What the decoder gives: a value and where it stands then.
BitAt(bytes, p) == IF (p \div 8) + 1 > Len(bytes) THEN 0   \* attach() appends eight zeros
                   ELSE (bytes[(p \div 8) + 1] \div Pow2(p % 8)) % 2
GetWord(bytes, at, len) ==
  [v |-> MapThenSumSet(LAMBDA i : Pow2(i) * BitAt(bytes, at + i), 0..(len - 1)), at |-> at + len]
GetGamma(bytes, at) ==
  LET pmsf == CHOOSE i \in 0..31 : BitAt(bytes, at + i) = 1 /\ \A j \in 0..(i - 1) : BitAt(bytes, at + j) = 0
      res == GetWord(bytes, at + pmsf + 1, pmsf)
  IN [res EXCEPT !.v = @ + Pow2(pmsf)]
GetDelta(bytes, at) ==
  LET g == GetGamma(bytes, at)
      res == GetWord(bytes, g.at, g.v - 1)
  IN [res EXCEPT !.v = @ + Pow2(g.v - 1)]
GetRice(bytes, at, k) ==
  LET d == GetDelta(bytes, at)
      res == GetWord(bytes, d.at, k)
  IN [res EXCEPT !.v = @ + (d.v - 1) * Pow2(k)]

Aligned(at) == 8 * ((at + 7) \div 8)
GetPrefix(bytes, at) ==
  LET first == Aligned(at) \div 8 + 1
      last == Min({i \in first..Len(bytes) : bytes[i] >= 128})
  IN [v |-> MapThenSumSet(LAMBDA i : (bytes[i] % 128) * Pow2(7 * (i - first)), first..last), at |-> 8 * last]
\* byte(): takes the byte the decoder is in and steps on, keeping its bit.
GetByte(bytes, at) == [v |-> bytes[at \div 8 + 1], at |-> at + 8]

\* A program of either side: the operations in order, each with its value and parameter.
Put(e, item) ==
  CASE item.op = "word" -> PutWord(e, item.v, item.k)
    [] item.op = "gamma" -> PutGamma(e, item.v)
    [] item.op = "delta" -> PutDelta(e, item.v)
    [] item.op = "rice" -> PutRice(e, item.v, item.k)
    [] item.op = "prefix" -> PutPrefix(e, item.v)
    [] item.op = "byte" -> PutByte(e, item.v)
Take(bytes, at, item) ==
  CASE item.op = "word" -> GetWord(bytes, at, item.k)
    [] item.op = "gamma" -> GetGamma(bytes, at)
    [] item.op = "delta" -> GetDelta(bytes, at)
    [] item.op = "rice" -> GetRice(bytes, at, item.k)
    [] item.op = "prefix" -> GetPrefix(bytes, at)
    [] item.op = "byte" -> GetByte(bytes, at)

-----------------------------------------------------------------------------
(* md5.h: itr_buf turns the bytes of a range into blocks of sixteen words  *)
(* and pads the last.  A block is its 64 bytes; `ovr' is the byte that     *)
(* follows the message, 128 once and 0 from then on.                       *)

Zeros(n) == [i \in 1..n |-> 0]
LengthBytes(cnt) == [i \in 1..8 |-> IF i <= 3 THEN ((8 * cnt) \div Pow2(8 * (i - 1))) % 256 ELSE 0]

\* n times get_byte()
GetBytes(rest, ovr, n) ==
  LET own == Min({n, Len(rest)})
      pad == n - own
  IN [bytes |-> SubSeq(rest, 1, own) \o (IF pad = 0 THEN <<>> ELSE <<ovr>> \o Zeros(pad - 1)),
      rest |-> SubSeq(rest, own + 1, Len(rest)), ovr |-> IF pad = 0 THEN ovr ELSE 0]

AtEnd(g) == g.rest = <<>> /\ g.ovr = 0
RECURSIVE BlocksFrom(_, _, _)
BlocksFrom(rest, ovr, cnt) ==
  LET g == GetBytes(rest, ovr, 56)
      h == GetBytes(g.rest, g.ovr, 8)
  IN IF AtEnd(g) THEN <<g.bytes \o LengthBytes(cnt)>>
     ELSE <<g.bytes \o h.bytes>> \o BlocksFrom(h.rest, h.ovr, cnt)
Blocks(msg) == BlocksFrom(msg, 128, Len(msg))

-----------------------------------------------------------------------------
(* data/sparse_matrix: a matrix is two files: fn, `mat' here, has the rows *)
(* one after the other in these codes; fn.offset has the number of         *)
(* elements and of bytes of each row.  A row is a function from its        *)
(* columns to values; the columns, from 0 on, are coded as differences.    *)

Columns(row) == SetToSortSeq(DOMAIN row, LAMBDA x, y : x < y)

\* Fault: the difference is taken from the first column of the row.
Previous_First(cols, i) == IF i = 1 THEN -1 ELSE cols[1]

Previous(cols, i) == IF i = 1 THEN -1 ELSE cols[i - 1]

\* sparse_matrix_writer::append_row()
RowBytes(row) ==
  LET cols == Columns(row)
  IN FoldLeft(LAMBDA e, i : PutByte(PutPrefix(e, cols[i] - Previous(cols, i)), row[cols[i]]),
              Empty, [i \in DOMAIN cols |-> i]).bytes

\* The files after one append_row() for each row.
Written(rows) ==
  [mat |-> FlattenSeq([r \in DOMAIN rows |-> RowBytes(rows[r])]),
   offset |-> [r \in DOMAIN rows |->
                 [num |-> Cardinality(DOMAIN rows[r]), size |-> Len(RowBytes(rows[r]))]]]

\* matrix_offsets::open() for reading: rows begin where the sizes before them add up to.
Offset(files, r) == MapThenSumSet(LAMBDA i : files.offset[i].size, 1..(r - 1))
RowNum(files) == Len(files.offset)

\* sparse_matrix_reader::get_row() into a map, which is not cleared first.
GetRow(files, r, data) ==
  LET put(s, col, b) ==
        [col |-> col, at |-> b.at,
         data |-> [c \in DOMAIN s.data \cup {col} |-> IF c = col THEN b.v ELSE s.data[c]]]
      step(s, p) == put(s, s.col + p.v, GetByte(files.mat, p.at))
  IN FoldLeft(LAMBDA s, i : step(s, GetPrefix(files.mat, s.at)),
              [col |-> -1, at |-> 8 * Offset(files, r), data |-> data],
              [i \in 1..files.offset[r].num |-> i]).data
ReadRow(files, r) == GetRow(files, r, <<>>)

-----------------------------------------------------------------------------
(* matrix_transpose(): the columns are split where they have had as many   *)
(* elements as the free memory allows, and the rows are read once for each *)
(* part.                                                                   *)

Rows(files) == [r \in 1..RowNum(files) |-> ReadRow(files, r)]
TermNum(rows) == Max({0} \cup {c + 1 : c \in UNION {DOMAIN rows[r] : r \in DOMAIN rows}})
TermCount(rows, c) == Cardinality({r \in DOMAIN rows : c \in DOMAIN rows[r]})

\* Where the parts end.
Boundary(rows, limit) ==
  LET step(s, c) ==
        LET sum == s.sum + TermCount(rows, c)
        IN IF sum >= limit THEN [sum |-> 0, at |-> Append(s.at, c + 1)] ELSE [s EXCEPT !.sum = sum]
      all == FoldLeft(step, [sum |-> 0, at |-> <<>>], [i \in 1..TermNum(rows) |-> i - 1])
  IN IF all.sum > 0 THEN Append(all.at, TermNum(rows)) ELSE all.at

Transposed(files, limit) ==
  LET hash(rows, c) == [d \in {r - 1 : r \in {q \in DOMAIN rows : c \in DOMAIN rows[q]}} |-> rows[d + 1][c]]
      part(rows, st, end) == [k \in 1..(end - st) |-> hash(rows, st + k - 1)]
      parts(rows, ends) ==
        FlattenSeq([i \in DOMAIN ends |-> part(rows, IF i = 1 THEN 0 ELSE ends[i - 1], ends[i])])
      inParts(rows) == Written(parts(rows, Boundary(rows, limit)))
  IN inParts(Rows(files))

-----------------------------------------------------------------------------
(* Decoding gives back what was encoded, and the text is as long as base64 *)
(* makes it.                                                               *)
Base64Inverse(s) ==
  /\ Base64Decode(Base64Encode(s)) = Decoded(s)
  /\ Len(Base64Encode(s)) = 4 * ((Len(s) + 2) \div 3)

(* What one encoder writes with any mix of the codes one decoder reads     *)
(* back in the same order, provided byte() is used at the border of a      *)
(* byte only: the encoder starts a new byte for it, the decoder does not.  *)
CodesInverse(items) ==
  LET states == [i \in 0..Len(items) |-> FoldLeft(Put, Empty, SubSeq(items, 1, i))]
      bytes == states[Len(items)].bytes
      read[i \in 0..Len(items)] ==
        IF i = 0 THEN [v |-> 0, at |-> 0] ELSE Take(bytes, read[i - 1].at, items[i])
  IN (\A i \in DOMAIN items : items[i].op = "byte" => states[i - 1].bit = 0)
       => \A i \in DOMAIN items : read[i].v = items[i].v

(* The blocks are the padded message of RFC 1321: the message, one marker, *)
(* zeros up to 8 bytes before the end of a block, the length in bits.      *)
PaddingExact(msg) ==
  LET zeros == (55 - Len(msg)) % 64
  IN FlattenSeq(Blocks(msg)) = msg \o <<128>> \o Zeros(zeros) \o LengthBytes(Len(msg))

(* Every row is read as it was written, whatever the rows before it.       *)
RowsReadBack(rows) == Rows(Written(rows)) = rows

(* The transposed matrix has each element at its mirror place, however     *)
(* little memory splits the work, and transposing again gives the matrix   *)
(* back but for empty rows at its end.                                     *)
Mirrored(rows) == [c \in 1..TermNum(rows) |->
                     [d \in {r - 1 : r \in {q \in DOMAIN rows : c - 1 \in DOMAIN rows[q]}} |-> rows[d + 1][c - 1]]]
TransposeExact(rows, limits) ==
  LET transpose(m, limit) == Rows(Transposed(Written(m), limit))
      mirrors(t, again) == /\ t = Mirrored(rows)
                           /\ again = SubSeq(rows, 1, Len(again))
                           /\ \A r \in (Len(again) + 1)..Len(rows) : rows[r] = <<>>
      twice(t, limit) == mirrors(t, transpose(t, limit))
  IN \A limit \in limits : twice(transpose(rows, limit), limit)
==============================================================================
