------------------------------- MODULE Ustring -------------------------------
(***************************************************************************)
(* pfi::data::string, ustring.h and ustring.cpp: the UTF-8 decoder, the    *)
(* encoder, and sanitize_utf8(), which goes by tests of its own; and the   *)
(* conversions of half-width characters.                                   *)
(* A string is a sequence of bytes, a ustring a sequence of code points.   *)
(***************************************************************************)
EXTENDS Integers, Sequences, FiniteSets, SequencesExt

Continuation == 128..191
Surrogate == 55296..57343
MaxUchar == 1114111

-----------------------------------------------------------------------------
(* Decoding and encoding *)

\* The bytes that the first byte c of a character asks for: head_masks, flag_bits.
Bytes(c) == CASE c < 224 -> 2 [] c < 240 -> 3 [] c < 248 -> 4 [] c < 252 -> 5 [] OTHER -> 6

Mins == <<0, 128, 2048, 65536>>
Maxs == <<0, 2047, 65535, 2097151>>

\* Fault: overlong encodings pass.
Fits_Overlong(uc, n) == n < 5 /\ uc <= MaxUchar /\ uc \notin Surrogate

\* Is uc a code point that n bytes should encode?
Fits(uc, n) == n < 5 /\ uc \in Mins[n]..Maxs[n] /\ uc <= MaxUchar /\ uc \notin Surrogate

Bad(p) == [ok |-> FALSE, next |-> p, uc |-> 0]

\* chars_to_uchar_impl(): the character at p, or how much of s is skipped as invalid.
CharsToUchar(s, p) ==
  LET c == s[p] IN
  LET n == Bytes(c) IN
  LET broken == {i \in 1..(n - 1) : p + i > Len(s) \/ s[p + i] \notin Continuation} IN
  LET uc == FoldLeft(LAMBDA r, b : (r * 64) + (b % 64), c % 2 ^ (7 - n), SubSeq(s, p + 1, p + n - 1)) IN
  IF c < 128 THEN [ok |-> TRUE, next |-> p + 1, uc |-> c]
  ELSE IF c < 192 \/ c > 253 THEN Bad(p + 1)
  ELSE IF broken # {} THEN Bad(p + (CHOOSE i \in broken : \A j \in broken : i <= j))
  ELSE IF ~Fits(uc, n) THEN Bad(p + n)
  ELSE [ok |-> TRUE, next |-> p + n, uc |-> uc]

\* string_to_ustring() with fallback(): what replaces invalid bytes.
Decoded(s, fallback) ==
  LET from[p \in 1..(Len(s) + 1)] ==
        IF p > Len(s) THEN <<>>
        ELSE LET r == CharsToUchar(s, p)
             IN (IF r.ok THEN <<r.uc>> ELSE <<fallback>>) \o from[r.next]
  IN from[1]

Replacement == 65533
StringToUstring(s) == Decoded(s, Replacement)

\* check_utf8(): does no character need the fallback?
CheckUtf8(s) == -1 \notin ToSet(Decoded(s, -1))

\* uchar_to_chars()
UcharToChars(c) ==
  LET tail(k) == 128 + ((c \div 64 ^ k) % 64) IN
  IF c < 128 THEN <<c>>
  ELSE IF c < 2048 THEN <<192 + c \div 64, tail(0)>>
  ELSE IF c < 65536 THEN <<224 + c \div 4096, tail(1), tail(0)>>
  ELSE <<240 + c \div 262144, tail(2), tail(1), tail(0)>>

UstringToString(us) == FoldLeft(LAMBDA s, c : s \o UcharToChars(c), <<>>, us)

-----------------------------------------------------------------------------
(* sanitize_utf8() *)

\* utf8_skip(): how many bytes follow, -1 for what cannot be a first byte.
Utf8Skip(c) ==
  CASE c \in 1..127 -> 0 [] c \in 192..223 -> 1 [] c \in 224..239 -> 2 [] c \in 240..247 -> 3
    [] OTHER -> -1

Utf8Invalid2(b) == b[1] < 194 \/ b[2] \notin Continuation

Utf8Invalid3(b) ==
  \/ b[3] < 128
  \/ IF b[1] = 239 /\ b[2] = 191 THEN b[3] > 189 ELSE b[3] >= 192
  \/ CASE b[1] = 224 -> b[2] < 160 \/ b[2] >= 192
       [] b[1] = 237 -> b[2] < 128 \/ b[2] > 159
       [] OTHER -> b[2] \notin Continuation

Utf8Invalid4(b) ==
  \/ b[3] \notin Continuation \/ b[4] \notin Continuation
  \/ CASE b[1] = 240 -> b[2] < 144 \/ b[2] >= 192
       [] b[1] = 244 -> b[2] < 128 \/ b[2] > 143
       [] OTHER -> b[2] \notin Continuation

\* The second test, which is asked for 2, 3 and 4 bytes after the first.
Known(b) ==
  CASE Len(b) = 2 -> b[1] \in 194..223 /\ b[2] \in Continuation
    [] Len(b) = 3 -> /\ b[3] \in Continuation
                     /\ \/ b[1] = 224 /\ b[2] \in 160..191
                        \/ b[1] = 237 /\ b[2] \in 128..159
                        \/ b[1] \in 225..236 \cup 238..239 /\ b[2] \in Continuation
    [] OTHER -> /\ b[3] \in Continuation /\ b[4] \in Continuation
                /\ \/ b[1] = 240 /\ b[2] \in 144..191
                   \/ b[1] \in 241..243 /\ b[2] \in Continuation
                   \/ b[1] = 244 /\ b[2] \in 128..143

\* Are these bytes, a first byte and as many as it asks for, kept?
Kept(b) ==
  CASE Len(b) = 1 -> b[1] >= 32
    [] Len(b) = 2 -> ~Utf8Invalid2(b) /\ Known(b)
    [] Len(b) = 3 -> ~Utf8Invalid3(b) /\ Known(b)
    [] OTHER -> ~Utf8Invalid4(b) /\ Known(b)

SanitizeUtf8(s) ==
  LET from[p \in 1..(Len(s) + 1)] ==
        IF p > Len(s) THEN <<>>
        ELSE LET skip == Utf8Skip(s[p]) IN
             LET stops == {i \in 1..skip : p + i > Len(s) \/ s[p + i] \notin Continuation} IN
             IF skip < 0 THEN from[p + 1]
             ELSE IF stops # {} THEN from[p + (CHOOSE i \in stops : \A j \in stops : i <= j)]
             ELSE LET b == SubSeq(s, p, p + skip)
                  IN (IF Kept(b) THEN b ELSE <<>>) \o from[p + skip + 1]
  IN from[1]

-----------------------------------------------------------------------------
(* Half-width characters *)

IsBasicLatin(c) == c < 128

IsHankaku(c) == c \in 65376..65439
HankakuBar == 45
ZenkakuBar == 12540
HankakuDakuten == 65438
ZenkakuDakuten == 12441
HankakuHandakuten == 65439
ZenkakuHandakuten == 12442

\* take_dakuten_tbl and take_handakuten_tbl, as sets.
TakesDakuten ==
  {12454, 12530} \cup {12459 + 2 * i : i \in 0..11} \cup {12484, 12486, 12488}
  \cup {12495 + 3 * i : i \in 0..4}
TakesHandakuten ==
  {12461 + 2 * i : i \in 0..10} \cup {12484, 12486, 12488} \cup {12495 + 3 * i : i \in 0..4}

HankakuZenkaku ==
  <<0, 12290, 12300, 12301, 12289, 12539, 12530, 12449, 12451, 12453, 12455, 12457, 12515,
    12517, 12519, 12483, 12540, 12450, 12452, 12454, 12456, 12458, 12459, 12461, 12463, 12465,
    12467, 12469, 12471, 12473, 12475, 12477, 12479, 12481, 12484, 12486, 12488, 12490, 12491,
    12492, 12493, 12494, 12495, 12498, 12501, 12504, 12507, 12510, 12511, 12512, 12513, 12514,
    12516, 12518, 12520, 12521, 12522, 12523, 12524, 12525, 12527, 12531, 12441, 12442>>

\* What the character before becomes when a mark joins it.
WithDakuten(c) == CASE c = 12454 -> 12532 [] c = 12530 -> 12538 [] OTHER -> c + 1

\* hankaku_to_zenkaku(): a mark joins the character that res ends with, if it can.
HankakuToZenkaku(us) ==
  LET step(res, c) ==
        LET last == IF res = <<>> THEN -1 ELSE res[Len(res)] IN
        LET but == SubSeq(res, 1, Len(res) - 1) IN
        CASE c = HankakuDakuten -> IF last \in TakesDakuten THEN Append(but, WithDakuten(last))
                                   ELSE Append(res, ZenkakuDakuten)
          [] c = HankakuHandakuten -> IF last \in TakesHandakuten THEN Append(but, last + 2)
                                      ELSE Append(res, ZenkakuHandakuten)
          [] IsHankaku(c) -> Append(res, HankakuZenkaku[c - 65375])
          [] c = HankakuBar -> Append(res, IF last # -1 /\ ~IsBasicLatin(last) THEN ZenkakuBar ELSE c)
          [] OTHER -> Append(res, c)
  IN FoldLeft(step, <<>>, us)

ZenkakuLatin(c) == CASE c \in 33..126 -> c - 32 + 65280 [] c = 32 -> 12288 [] OTHER -> c
BasicLatin(c) == CASE c \in 65281..65374 -> c - 65280 + 32 [] c = 12288 -> 32 [] OTHER -> c

-----------------------------------------------------------------------------
(* What the conversions promise *)

\* Of any bytes: what check_utf8() accepts is one and the only encoding of its characters,
\* that is, decoding and encoding give it back; sanitize_utf8() makes text that is accepted
\* and that it leaves alone, and takes from accepted text only the control characters and
\* the two noncharacters.
Utf8Exact(s) ==
  LET valid == CheckUtf8(s) IN
  LET clean == SanitizeUtf8(s) IN
  LET kept(c) == c >= 32 /\ c \notin {65534, 65535} IN
  /\ valid => UstringToString(StringToUstring(s)) = s
  /\ CheckUtf8(clean)
  /\ SanitizeUtf8(clean) = clean
  /\ valid => StringToUstring(clean) = SelectSeq(StringToUstring(s), kept)

\* Of any characters: what hankaku_to_zenkaku() gives has no half-width form left and is
\* what it gives again, so a mark is joined at most once; and the conversions of ASCII and
\* of its full-width forms undo each other.
WidthsExact(us) ==
  LET wide == HankakuToZenkaku(us) IN
  /\ \A i \in DOMAIN wide : ~IsHankaku(wide[i])
  /\ HankakuToZenkaku(wide) = wide
  /\ \A i \in DOMAIN us : IsBasicLatin(us[i]) => BasicLatin(ZenkakuLatin(us[i])) = us[i]

=============================================================================
