------------------------------- MODULE Strings -------------------------------
(***************************************************************************)
(* pfi::data::string: split, join, strip and replace (utility.h), the      *)
(* dynamic programs of algorithm.h, and the searches of kmp.h and          *)
(* aho_corasick.cpp.  Strings are sequences; positions and the ids that    *)
(* the code counts from 0 are counted from 1, results as the code gives    *)
(* them.                                                                   *)
(***************************************************************************)
EXTENDS Integers, Sequences, FiniteSets, SequencesExt, FiniteSetsExt, TLC

CONSTANT Chars  \* unsigned char is 0..Chars - 1, 256 in the code; 0 ends a C string

StringsAssumption == Chars \in Nat \ {0, 1}

Npos == -1
IsAt(s, x, p) == p + Len(x) - 1 <= Len(s) /\ SubSeq(s, p, p + Len(x) - 1) = x

\* std::search(): where x first occurs from p on, the end if nowhere.
Search(s, x, p) ==
  LET at == {q \in p..Len(s) : IsAt(s, x, q)} IN IF at = {} THEN Len(s) + 1 ELSE Min(at)

-----------------------------------------------------------------------------
(* utility.h *)

\* split() by a separator, a character being one of length 1; an empty one gives nothing.
Split(s, sep) ==
  LET from[bef \in 1..(Len(s) + 1)] ==
        LET cur == Search(s, sep, bef)
        IN <<SubSeq(s, bef, cur - 1)>> \o IF cur > Len(s) THEN <<>> ELSE from[cur + Len(sep)]
  IN IF sep = <<>> THEN <<>> ELSE from[1]

\* join()
Join(strs, sep) ==
  FoldLeft(LAMBDA ret, i : ret \o (IF i > 1 THEN sep ELSE <<>>) \o strs[i], <<>>, [i \in DOMAIN strs |-> i])

\* replace()
Replace(s, x, to) ==
  LET from[bef \in 1..(Len(s) + 1)] ==
        LET cur == Search(s, x, bef)
        IN SubSeq(s, bef, cur - 1) \o IF cur > Len(s) THEN <<>> ELSE to \o from[cur + Len(x)]
  IN IF x = <<>> THEN s ELSE from[1]

Lstrip(s, space) ==
  LET kept == {i \in DOMAIN s : s[i] \notin space}
  IN IF kept = {} THEN <<>> ELSE SubSeq(s, Min(kept), Len(s))
Rstrip(s, space) ==
  LET kept == {i \in DOMAIN s : s[i] \notin space}
  IN IF kept = {} THEN <<>> ELSE SubSeq(s, 1, Max(kept))
\* strip(): the spaces in front are gone when it looks for those behind.
Strip(s, space) == Rstrip(Lstrip(s, space), space)

StartsWith(s, prefix) == Len(prefix) <= Len(s) /\ \A i \in DOMAIN prefix : prefix[i] = s[i]
EndsWith(s, suffix) ==
  Len(suffix) <= Len(s) /\ \A i \in DOMAIN suffix : suffix[i] = s[Len(s) - Len(suffix) + i]

-----------------------------------------------------------------------------
(* algorithm.h: tables filled row by row *)

EditDistance(a, b) ==
  LET tbl[i \in 0..Len(a), j \in 0..Len(b)] ==
        IF i = 0 THEN j ELSE IF j = 0 THEN i
        ELSE Min({tbl[i - 1, j - 1] + (IF a[i] # b[j] THEN 1 ELSE 0),
                  tbl[i - 1, j] + 1, tbl[i, j - 1] + 1})
  IN tbl[Len(a), Len(b)]

LongestCommonSubsequence(a, b) ==
  LET tbl[i \in 0..Len(a), j \in 0..Len(b)] ==
        IF i = 0 \/ j = 0 THEN 0
        ELSE Max({tbl[i - 1, j - 1] + (IF a[i] = b[j] THEN 1 ELSE 0), tbl[i - 1, j], tbl[i, j - 1]})
  IN tbl[Len(a), Len(b)]

\* tbl[k] is the least end of an increasing subsequence of length k so far; id the length of
\* the one that ends here, by lower_bound().
LongestIncreasingSubsequence(a) ==
  LET step(r, x) ==
        LET id == Cardinality({k \in DOMAIN r.tbl : r.tbl[k] < x}) + 1
        IN [tbl |-> IF id > Len(r.tbl) THEN Append(r.tbl, x) ELSE [r.tbl EXCEPT ![id] = x],
            ids |-> r.ids \cup {id}]
  IN IF a = <<>> THEN 0 ELSE Max(FoldLeft(step, [tbl |-> <<>>, ids |-> {}], a).ids)

-----------------------------------------------------------------------------
(* kmp.h *)

\* How far the query matches after c, having matched t characters of it.
RECURSIVE Fall(_, _, _, _)
Fall(query, next, t, c) ==
  IF t > 0 /\ c # query[t + 1] THEN Fall(query, next, next[t], c)
  ELSE IF c = query[t + 1] THEN t + 1 ELSE 0

\* The constructor; query is not empty.
KmpNext(query) ==
  FoldLeft(LAMBDA next, i : Append(next, Fall(query, next, next[i - 1], query[i])),
           <<0>>, [i \in 1..(Len(query) - 1) |-> i + 1])

\* find()
KmpFind(query, text, offset) ==
  LET next == KmpNext(query) IN
  LET at[i \in offset..Len(text), t \in 0..Len(query)] ==
        IF t = Len(query) THEN i - Len(query)
        ELSE IF i = Len(text) THEN Npos
        ELSE at[i + 1, Fall(query, next, t, text[i + 1])]
  IN IF offset >= Len(text) THEN Npos ELSE at[offset, 0]

-----------------------------------------------------------------------------
(* aho_corasick.cpp *)

\* words in the order of sort(): pairs of a word and its place.
RECURSIVE Before(_, _)
Before(v, w) ==
  IF w = <<>> THEN FALSE ELSE IF v = <<>> THEN TRUE
  ELSE v[1] < w[1] \/ (v[1] = w[1] /\ Before(Tail(v), Tail(w)))
Sorted(words) ==
  SortSeq([i \in DOMAIN words |-> [word |-> words[i], id |-> i - 1]],
          LAMBDA v, w : Before(v.word, w.word) \/ (v.word = w.word /\ v.id < w.id))

\* nodes are counted from 0 and kept in a sequence.
Node == [base |-> 0, check |-> -1, fail |-> -1, output |-> -1]
At(nodes, pos) == nodes[pos + 1]
RECURSIVE Resized(_, _)
Resized(nodes, n) == IF Len(nodes) >= n THEN nodes ELSE Resized(Append(nodes, Node), n)

\* The double array trie, depth first: top is the node for words ix to ix + n - 1, which
\* agree in their first dep characters.
RECURSIVE Trie(_, _, _, _)
Trie(words, nodes, ss, bef_base) ==
  LET top == ss[Len(ss)] IN
  LET char(i) == IF top.dep < Len(words[i].word) THEN words[i].word[top.dep + 1] ELSE 0 IN
  LET mine == top.ix..(top.ix + top.n - 1) IN
  LET children == SetToSortSeq({char(i) : i \in mine} \ {0}, <) IN
  LET of(c) == {i \in mine : char(i) = c} IN
  LET output == IF Len(words[top.ix].word) = top.dep THEN words[top.ix].id ELSE At(nodes, top.pos).output IN
  LET free(b) == \A k \in DOMAIN children : At(nodes, b + children[k]).check < 0 IN
  LET start == Max({1, bef_base - Chars \div 8}) IN
  LET base == CHOOSE b \in start..Len(nodes) : free(b) /\ \A a \in start..(b - 1) : ~free(a) IN
  LET grown == Resized(nodes, Max({base + children[k] + Chars : k \in DOMAIN children} \cup {0})) IN
  LET based == [grown EXCEPT ![top.pos + 1].base = base, ![top.pos + 1].output = output] IN
  LET linked == FoldLeft(LAMBDA ns, c : [ns EXCEPT ![base + c + 1].check = top.pos], based, children) IN
  LET pushed == [k \in DOMAIN children |->
                   [pos |-> base + children[k], dep |-> top.dep + 1,
                    ix |-> Min(of(children[k])), n |-> Cardinality(of(children[k]))]] IN
  IF ss = <<>> THEN nodes ELSE Trie(words, linked, Front(ss) \o pushed, base)

Child(nodes, pos, c) == At(nodes, pos).base + c
Goes(nodes, pos, c) == At(nodes, Child(nodes, pos, c)).check = pos

\* The nearest of pos and its fail links that goes on with c; -1 or 0 if none does.
RECURSIVE Fails(_, _, _)
Fails(nodes, pos, c) ==
  IF pos <= 0 \/ Goes(nodes, pos, c) THEN pos ELSE Fails(nodes, At(nodes, pos).fail, c)

\* Fault: a node without a word of its own gives nothing.
Output_OwnOnly(nodes, pos) == At(nodes, pos).output

\* A node without a word of its own is marked -2 if its fail links lead to one.
Output(nodes, pos) ==
  LET own == At(nodes, pos).output
  IN IF pos > 0 /\ own = -1 /\ At(nodes, At(nodes, pos).fail).output # -1 THEN -2 ELSE own

\* The fail links, breadth first.
RECURSIVE Links(_, _)
Links(nodes, q) ==
  LET pos == Head(q) IN
  LET marked == [nodes EXCEPT ![pos + 1].output = Output(nodes, pos)] IN
  LET kids == SetToSortSeq({c \in 0..(Chars - 1) : Goes(nodes, pos, c)}, <) IN
  LET m(c) == IF pos = 0 THEN -1 ELSE Fails(marked, At(nodes, pos).fail, c) IN
  LET link(c) == IF m(c) >= 0 /\ Goes(marked, m(c), c) THEN Child(marked, m(c), c) ELSE 0 IN
  LET linked == FoldLeft(LAMBDA ns, c : [ns EXCEPT ![Child(nodes, pos, c) + 1].fail = link(c)], marked, kids)
  IN IF q = <<>> THEN nodes
     ELSE Links(linked, Tail(q) \o [k \in DOMAIN kids |-> Child(nodes, pos, kids[k])])

\* The constructor.
AhoCorasick(words) ==
  IF words = <<>> THEN <<>>
  ELSE Links(Trie(Sorted(words), Resized(<<>>, Chars + 1),
                  <<[pos |-> 0, dep |-> 0, ix |-> 1, n |-> Len(words)]>>, 1),
             <<0>>)

RECURSIVE Outputs(_, _, _)
Outputs(nodes, cur, end) ==
  IF cur = 0 THEN {}
  ELSE (IF At(nodes, cur).output >= 0 THEN {<<At(nodes, cur).output, end>>} ELSE {})
       \cup Outputs(nodes, At(nodes, cur).fail, end)

\* search(): word ids and the ends of their occurrences; the order is left out.
AhoSearch(nodes, s) ==
  LET step(r, i) ==
        LET from == Fails(nodes, r.pos, s[i]) IN
        LET goes == Goes(nodes, from, s[i]) IN
        LET pos == IF goes THEN Child(nodes, from, s[i]) ELSE from
        IN [pos |-> pos,
            res |-> r.res \cup IF goes /\ At(nodes, pos).output # -1 THEN Outputs(nodes, pos, i) ELSE {}]
  IN IF nodes = <<>> THEN {}
     ELSE FoldLeft(step, [pos |-> 0, res |-> {}], [i \in DOMAIN s |-> i]).res

-----------------------------------------------------------------------------
(* What the searches and the tables promise *)

\* Splitting loses nothing, and replacing is splitting and joining with something else;
\* strip() takes the spaces at both ends and no others; what starts or ends with the
\* separator has an empty part there.
SplitExact(s, sep, to) ==
  /\ sep # <<>> => Join(Split(s, sep), sep) = s
  /\ (sep # <<>> /\ s # <<>>) => /\ StartsWith(s, sep) <=> Head(Split(s, sep)) = <<>>
                                 /\ EndsWith(s, sep) \/ Last(Split(s, sep)) # <<>>
  /\ Replace(s, sep, to) = IF sep = <<>> THEN s ELSE Join(Split(s, sep), to)
  /\ LET space == ToSet(sep) IN
     LET kept == Strip(s, space) IN
     /\ \E i, j \in 0..Len(s) : /\ s = SubSeq(s, 1, i) \o kept \o SubSeq(s, j + 1, Len(s))
                                /\ ToSet(SubSeq(s, 1, i) \o SubSeq(s, j + 1, Len(s))) \subseteq space
     /\ kept # <<>> => kept[1] \notin space /\ Last(kept) \notin space

\* The automaton finds every occurrence of every word, overlapping ones and words within
\* words included, and nothing else: of equal words the first is found, of the empty word
\* nothing.  kmp finds the first occurrence from an offset on.
SearchesExact(words, text) ==
  LET found(i, e) ==
        LET w == words[i]
        IN w # <<>> /\ Len(w) <= e /\ IsAt(text, w, e - Len(w) + 1) /\ w \notin ToSet(SubSeq(words, 1, i - 1))
  IN /\ AhoSearch(AhoCorasick(words), text) =
          {<<p[1] - 1, p[2]>> : p \in {q \in (DOMAIN words) \X (DOMAIN text) : found(q[1], q[2])}}
     /\ \A i \in DOMAIN words : words[i] # <<>> =>
          \A offset \in 0..Len(text) :
            LET q == Search(text, words[i], offset + 1)
            IN KmpFind(words[i], text, offset) = IF q > Len(text) THEN Npos ELSE q - 1

\* The ways to pair characters of two strings in order, as the sets of their places.
Pairings(a, b) == {p \in (SUBSET (DOMAIN a)) \X (SUBSET (DOMAIN b)) : Cardinality(p[1]) = Cardinality(p[2])}
Chosen(a, places) ==
  FoldLeft(LAMBDA out, i : IF i \in places THEN Append(out, a[i]) ELSE out, <<>>, [i \in DOMAIN a |-> i])

\* What the tables compute step by step is the best of all pairings: the fewest characters
\* left alone or paired with another; the most paired with their equals; and the most of one
\* string that increase.
TablesExact(a, b) ==
  LET unequal(p) ==
        LET x == Chosen(a, p[1]) IN
        LET y == Chosen(b, p[2]) IN Cardinality({k \in DOMAIN x : x[k] # y[k]}) IN
  LET cost(p) == Len(a) + Len(b) - 2 * Cardinality(p[1]) + unequal(p) IN
  LET increases(x) == \A k \in 1..(Len(x) - 1) : x[k] < x[k + 1] IN
  /\ EditDistance(a, b) = Min({cost(p) : p \in Pairings(a, b)})
  /\ LongestCommonSubsequence(a, b) =
       Max({Cardinality(p[1]) : p \in {q \in Pairings(a, b) : unequal(q) = 0}})
  /\ LongestIncreasingSubsequence(a) =
       Max({Cardinality(s) : s \in {t \in SUBSET (DOMAIN a) : increases(Chosen(a, t))}})

=============================================================================
