---------------------------- MODULE Serialization ----------------------------
(***************************************************************************)
(* data/serialization: the binary archives and the types they know.  A     *)
(* type is a record; numbers are natural, of w bytes.  An archive that is  *)
(* read is [in, good]: the bytes to come and whether the stream is good.   *)
(* deque and list are written and read as vector.  The unordered           *)
(* containers differ from map and set in the order of what they write,     *)
(* that of their buckets, which is left out.  A stream is [data, get, put] *)
(* with its two positions, which a file (joint) keeps equal; nothing has   *)
(* failed on it before.                                                    *)
(***************************************************************************)
EXTENDS Integers, Sequences, SequencesExt, FiniteSetsExt

Number(w) == [kind |-> "int", w |-> w]
String == [kind |-> "string"]
Vector(t) == [kind |-> "vector", elem |-> t]
Array(t, n) == [kind |-> "array", elem |-> t, n |-> n]
Pair(a, b) == [kind |-> "pair", first |-> a, second |-> b]
Map(b) == [kind |-> "map", second |-> b]     \* keys are numbers of one byte
Set == [kind |-> "set"]                      \* of such keys
Stream(joint) == [kind |-> "stream", joint |-> joint]

Little(n, w) == [i \in 1..w |-> IF i <= 3 THEN (n \div (256 ^ (i - 1))) % 256 ELSE 0]
FromLittle(b) == FoldRight(LAMBDA x, v : x + 256 * v, b, 0)
Keys(m) == SetToSortSeq(m, LAMBDA x, y : x < y)

\* What a stream still gives to its reader; writing it to an archive takes all of it.
Coming(stream) == SubSeq(stream.data, stream.get + 1, Len(stream.data))

\* iostream.h: 0xff is doubled, and 0xff 0 is the end.
Escape(c) == IF c = 255 THEN <<255, 255>> ELSE <<c>>

\* What binary_oarchive writes.
RECURSIVE Written(_, _)
Written(t, v) ==
  CASE t.kind = "int" -> Little(v, t.w)
    [] t.kind = "string" -> Little(Len(v), 4) \o v
    [] t.kind = "vector" -> Little(Len(v), 4) \o FlattenSeq([i \in DOMAIN v |-> Written(t.elem, v[i])])
    [] t.kind = "array" -> FlattenSeq([i \in 1..t.n |-> Written(t.elem, v[i])])
    [] t.kind = "pair" -> Written(t.first, v[1]) \o Written(t.second, v[2])
    [] t.kind = "set" -> Little(Cardinality(v), 4) \o Keys(v)
    [] t.kind = "map" ->
         LET ks == Keys(DOMAIN v)
         IN Little(Len(ks), 4) \o FlattenSeq([i \in DOMAIN ks |-> <<ks[i]>> \o Written(t.second, v[ks[i]])])
    [] t.kind = "stream" -> FlattenSeq([i \in DOMAIN Coming(v) |-> Escape(Coming(v)[i])]) \o <<255, 0>>

-----------------------------------------------------------------------------
(* Reading.  A result is the value, the archive after it and whether the   *)
(* reader never comes back.                                                *)

Got(v, ar) == [v |-> v, ar |-> ar, stuck |-> FALSE]

\* A number keeps its old value when its bytes do not come.
ReadInt(w, ar, old) ==
  IF ar.good /\ Len(ar.in) >= w
  THEN Got(FromLittle(SubSeq(ar.in, 1, w)), [ar EXCEPT !.in = SubSeq(@, w + 1, Len(@))])
  ELSE Got(old, [in |-> <<>>, good |-> FALSE])

(***************************************************************************)
(* The reader of a stream looks at no error: when the bytes end early it   *)
(* goes on with the last one it got, for ever, unless that was the first   *)
(* 0xff, behind which its second byte is still the 0 it began with.        *)
(***************************************************************************)
StreamBytes(ar) ==
  LET ends == {i \in 1..(Len(ar.in) - 1) :
                 /\ ar.in[i] = 255 /\ ar.in[i + 1] = 0
                 /\ Cardinality({j \in 1..i : \A k \in j..i : ar.in[k] = 255}) % 2 = 1}
      unescape(s) ==
        LET from[i \in 1..(Len(s) + 1)] ==
              IF i > Len(s) THEN <<>> ELSE <<s[i]>> \o from[IF s[i] = 255 THEN Min({i + 2, Len(s) + 1}) ELSE i + 1]
        IN from[1]
      ffs == {i \in DOMAIN ar.in : ar.in[i] = 255}
  IN IF ends # {} THEN Got(unescape(SubSeq(ar.in, 1, Min(ends) - 1)),
                           [ar EXCEPT !.in = SubSeq(@, Min(ends) + 2, Len(@))])
     ELSE IF ffs = {Len(ar.in)} THEN Got(Front(ar.in), [in |-> <<>>, good |-> FALSE])
     ELSE [v |-> <<>>, ar |-> [in |-> <<>>, good |-> FALSE], stuck |-> TRUE]

\* The bytes go where the stream would write next, over older contents, which nothing
\* clears; what is read then begins at the first byte of all.
ReadStream(t, ar, old) ==
  LET r == StreamBytes(ar)
      put == old.put + Len(r.v)
  IN [r EXCEPT !.v = [data |-> SubSeq(old.data, 1, old.put) \o @ \o SubSeq(old.data, put + 1, Len(old.data)),
                      get |-> 0, put |-> IF t.joint THEN 0 ELSE put]]

\* T(); what set reads into is not initialised, and 0 stands for anything there.
RECURSIVE Default(_)
Default(t) ==
  CASE t.kind = "int" -> 0
    [] t.kind = "array" -> [i \in 1..t.n |-> Default(t.elem)]
    [] t.kind = "pair" -> <<Default(t.first), Default(t.second)>>
    [] t.kind = "set" -> {}
    [] t.kind = "stream" -> [data |-> <<>>, get |-> 0, put |-> 0]
    [] OTHER -> <<>>

\* n elements of type t one after the other, the i-th over what old has there.
RECURSIVE ReadAs(_, _, _)
RECURSIVE ReadEach(_, _, _, _)
ReadEach(t, n, ar, old) ==
  IF n = 0 THEN Got(<<>>, ar)
  ELSE LET r == ReadEach(t, n - 1, ar, old)
           e == ReadAs(t, r.ar, IF n \in DOMAIN old THEN old[n] ELSE Default(t))
       IN [v |-> Append(r.v, e.v), ar |-> e.ar, stuck |-> r.stuck \/ e.stuck]

\* serialize() of binary_iarchive into a variable that holds old.  Containers take the
\* length as it comes, or keep theirs, and fill up with what reading over gives.
ReadAs(t, ar, old) ==
  LET size == ReadInt(4, ar, CASE t.kind \in {"string", "vector"} -> Len(old)
                               [] t.kind = "map" -> Cardinality(DOMAIN old)
                               [] t.kind = "set" -> Cardinality(old)
                               [] OTHER -> 0)
      n == size.v
  IN CASE t.kind = "int" -> ReadInt(t.w, ar, old)
       [] t.kind = "string" -> ReadEach(Number(1), n, size.ar, old)
       [] t.kind = "vector" -> ReadEach(t.elem, n, size.ar, old)
       [] t.kind = "array" -> ReadEach(t.elem, t.n, ar, old)
       [] t.kind = "pair" ->
            LET a == ReadAs(t.first, ar, old[1])
                b == ReadAs(t.second, a.ar, old[2])
            IN [v |-> <<a.v, b.v>>, ar |-> b.ar, stuck |-> a.stuck \/ b.stuck]
       [] t.kind = "set" ->
            LET r == ReadEach(Number(1), n, size.ar, <<>>) IN [r EXCEPT !.v = Range(@)]
       [] t.kind = "map" ->
            LET r == ReadEach(Pair(Number(1), t.second), n, size.ar, <<>>)
                first(k) == Min({i \in DOMAIN r.v : r.v[i][1] = k})
            IN [r EXCEPT !.v = [k \in {@[i][1] : i \in DOMAIN @} |-> r.v[first(k)][2]]]
       [] t.kind = "stream" -> ReadStream(t, ar, old)

-----------------------------------------------------------------------------
(* What is written is read back over any older value of the type, and      *)
(* exactly its bytes are taken, so values can follow one another; and if   *)
(* the bytes end early the archive says so, or a stream is read for ever.  *)
(* A stream object that held something is not replaced: it has what was    *)
(* sent from its put position on, its own bytes in every other place, and  *)
(* is read from the first, so that only a stream which was empty, or       *)
(* stood at its beginning with no more bytes than come, gives what was     *)
(* sent.                                                                   *)
RECURSIVE Brought(_, _, _, _)
Brought(t, v, old, new) ==
  LET sent == Coming(v)
      place == (old.put + 1)..(old.put + Len(sent))
  IN CASE t.kind = "stream" ->
            /\ \A i \in place : new.data[i] = sent[i - old.put]
            /\ \A i \in DOMAIN new.data \ place : new.data[i] = old.data[i]
            /\ Len(new.data) = Max({Len(old.data), old.put + Len(sent)})
            /\ new.get = 0
            /\ old.put = 0 /\ Len(old.data) <= Len(sent) => Coming(new) = sent
       [] t.kind = "pair" -> Brought(t.first, v[1], old[1], new[1]) /\ Brought(t.second, v[2], old[2], new[2])
       [] OTHER -> new = v

ReadsBack(t, v, old, next) ==
  LET r == ReadAs(t, [in |-> Written(t, v) \o next, good |-> TRUE], old)
  IN Brought(t, v, old, r.v) /\ r.ar = [in |-> next, good |-> TRUE] /\ ~r.stuck

RECURSIVE HasStream(_)
HasStream(t) ==
  CASE t.kind = "stream" -> TRUE
    [] t.kind \in {"vector", "array"} -> HasStream(t.elem)
    [] t.kind = "map" -> HasStream(t.second)
    [] t.kind = "pair" -> HasStream(t.first) \/ HasStream(t.second)
    [] OTHER -> FALSE

CutIsSeen(t, v, old) ==
  \A n \in 0..(Len(Written(t, v)) - 1) :
    LET r == ReadAs(t, [in |-> SubSeq(Written(t, v), 1, n), good |-> TRUE], old)
    IN ~r.ar.good /\ (r.stuck => HasStream(t))
==============================================================================
