------------------------------- MODULE DataProofs -------------------------------
(***************************************************************************)
(* Proofs about the components of MCStores that are read recursively, for  *)
(* any bounds: the sums of a fenwick_tree, what a json shares, and the     *)
(* functions of the fractions, the vectors and the values and rows of a    *)
(* database.  Those of the csv parser are in StoresProofs, with the        *)
(* induction and the recursion that both rest on.                          *)
(***************************************************************************)
EXTENDS MCStores, StoresProofs, Integers, Sequences, FiniteSetTheorems, WellFoundedInduction, TLAPS

-----------------------------------------------------------------------------
(* Fenwick                                                                 *)

Pos == Nat \ {0}
LowOf(f) == [y \in Pos |-> IF y % 2 = 1 THEN 1 ELSE 2 * f[y \div 2]]

\* Halves of numbers
LEMMA Halves ==
  ASSUME NEW y \in Pos
  PROVE  /\ y % 2 = 1 \/ y % 2 = 0
         /\ y % 2 = 0 => y \div 2 \in Pos /\ y \div 2 < y /\ y = 2 * (y \div 2)
  BY DEF Pos

\* The functions that find the lowest bit of the numbers below n, for every n
LEMMA LowBelow ==
  \A n \in Nat : \E g : \A y \in Pos : y < n => g[y] = LowOf(g)[y]
<1> DEFINE T == {n \in Nat : \E g : \A y \in Pos : y < n => g[y] = LowOf(g)[y]}
<1>1. 0 \in T BY DEF Pos
<1>2. ASSUME NEW n \in Nat, n \in T PROVE n + 1 \in T
  <2>1. PICK g : \A y \in Pos : y < n => g[y] = LowOf(g)[y] BY <1>2
  <2> DEFINE gg == [y \in Pos |-> IF y = n THEN LowOf(g)[n] ELSE g[y]]
  <2>2. ASSUME NEW y \in Pos, y < n + 1 PROVE gg[y] = LowOf(gg)[y]
    <3>1. y % 2 = 0 => y \div 2 \in Pos /\ y \div 2 < n BY <2>2, Halves DEF Pos
    <3>2. ASSUME y % 2 = 0 PROVE gg[y \div 2] = g[y \div 2]
      <4> DEFINE z == y \div 2
      <4>1. z \in Pos /\ z # n BY <3>1, <3>2 DEF Pos
      <4> HIDE DEF z
      <4>2. gg[z] = g[z] BY <4>1
      <4> QED BY <4>2 DEF z
    <3> HIDE DEF gg
    <3>3. LowOf(gg)[y] = LowOf(g)[y] BY <3>2, Halves DEF LowOf
    <3> USE DEF gg
    <3>4. gg[y] = LowOf(g)[y] BY <2>1, <2>2 DEF Pos
    <3> QED BY <3>3, <3>4
  <2>3. \E f : \A y \in Pos : y < n + 1 => f[y] = LowOf(f)[y] BY <2>2
  <2> QED BY <2>3
<1> HIDE DEF T
<1>3. \A n \in Nat : n \in T BY <1>1, <1>2, FromBefore
<1> QED BY <1>3 DEF T

\* Two of them have the same values.
LEMMA LowSame ==
  ASSUME NEW n \in Nat, NEW f, NEW g,
         \A y \in Pos : y < n => f[y] = LowOf(f)[y], \A y \in Pos : y < n => g[y] = LowOf(g)[y]
  PROVE  \A y \in Pos : y < n => f[y] = g[y]
<1> DEFINE T == {y \in Nat : y \in Pos /\ y < n => f[y] = g[y]}
<1>1. ASSUME NEW y \in Nat, \A m \in Nat : m < y => m \in T PROVE y \in T
  <2> SUFFICES ASSUME y \in Pos, y < n PROVE f[y] = g[y] OBVIOUS
  <2>1. y % 2 = 0 => y \div 2 \in T /\ y \div 2 \in Pos /\ y \div 2 < n BY <1>1, Halves DEF Pos
  <2>2. LowOf(f)[y] = LowOf(g)[y] BY <2>1 DEF LowOf
  <2> QED BY <2>2
<1> HIDE DEF T
<1>2. \A y \in Nat : y \in T BY <1>1, FromSmaller
<1> QED BY <1>2 DEF T, Pos

\* The recursion of LowBit has a solution.
LEMMA LowExists == \E low : low = LowOf(low)
<1> DEFINE G(y) == CHOOSE g : \A z \in Pos : z < y + 1 => g[z] = LowOf(g)[z]
<1> DEFINE low == [y \in Pos |-> G(y)[y]]
<1>1. ASSUME NEW y \in Pos PROVE \A z \in Pos : z < y + 1 => G(y)[z] = LowOf(G(y))[z]
  <2>1. \E g : \A z \in Pos : z < y + 1 => g[z] = LowOf(g)[z] BY LowBelow, y + 1 \in Nat DEF Pos
  <2> QED BY <2>1
<1> HIDE DEF G
<1>2. ASSUME NEW y \in Pos PROVE low[y] = LowOf(low)[y]
  <2>1. low[y] = LowOf(G(y))[y] BY <1>1 DEF Pos
  <2>2. CASE y % 2 = 0
    <3> DEFINE z == y \div 2
    <3>1. z \in Pos /\ z < y BY <2>2, Halves
    <3> HIDE DEF z
    <3>2. /\ \A x \in Pos : x < z + 1 => G(z)[x] = LowOf(G(z))[x]
          /\ \A x \in Pos : x < z + 1 => G(y)[x] = LowOf(G(y))[x]
      BY <1>1, <3>1 DEF Pos
    <3> DEFINE gz == G(z)
    <3> DEFINE gy == G(y)
    <3>3. z + 1 \in Nat /\ z < z + 1 BY <3>1 DEF Pos
    <3>4. gz[z] = gy[z]
      <4> HIDE DEF gz, gy, low
      <4>1. \A x \in Pos : x < z + 1 => gz[x] = gy[x] BY <3>2, <3>3, LowSame DEF gz, gy
      <4> QED BY <4>1, <3>1, <3>3
    <3>5. low[z] = G(y)[z] BY <3>1, <3>4
    <3> QED BY <2>1, <2>2, <3>5 DEF LowOf, z
  <2>3. CASE y % 2 = 1 BY <2>1, <2>3 DEF LowOf
  <2> QED BY <2>2, <2>3, Halves
<1>3. low = LowOf(low) BY <1>2 DEF LowOf
<1> QED BY <1>3

\* What LowBit is: 1 of an odd number, twice the one of the half of an even number.
LEMMA LowBitIs ==
  ASSUME NEW y \in Pos
  PROVE  F!LowBit(y) = IF y % 2 = 1 THEN 1 ELSE 2 * F!LowBit(y \div 2)
<1> DEFINE low == CHOOSE f : f = LowOf(f)
<1>1. low = LowOf(low) BY LowExists
<1>2. \A x : F!LowBit(x) = low[x] BY DEF F!LowBit, LowOf, Pos
<1> HIDE DEF low
<1>3. low[y] = IF y % 2 = 1 THEN 1 ELSE 2 * low[y \div 2] BY <1>1 DEF LowOf
<1> QED BY <1>2, <1>3

\* How many numbers v[y - 1] sums: at least one, at most y, and as even as y.
LEMMA LowBitRange ==
  \A y \in Nat : y \in Pos => F!LowBit(y) \in 1..y /\ (y % 2 = 0 => F!LowBit(y) % 2 = 0)
<1> DEFINE T == {y \in Nat : y \in Pos => F!LowBit(y) \in 1..y /\ (y % 2 = 0 => F!LowBit(y) % 2 = 0)}
<1>1. ASSUME NEW y \in Nat, \A m \in Nat : m < y => m \in T PROVE y \in T
  <2> SUFFICES ASSUME y \in Pos
               PROVE  F!LowBit(y) \in 1..y /\ (y % 2 = 0 => F!LowBit(y) % 2 = 0)
    OBVIOUS
  <2>1. CASE y % 2 = 1 BY <2>1, LowBitIs DEF Pos
  <2>2. CASE y % 2 = 0
    <3> DEFINE z == y \div 2
    <3>1. z \in Pos /\ z < y /\ y = 2 * z BY <2>2, Halves
    <3> HIDE DEF z
    <3>2. F!LowBit(z) \in 1..z BY <1>1, <3>1 DEF Pos
    <3>3. F!LowBit(y) = 2 * F!LowBit(z) BY <2>2, LowBitIs DEF z
    <3> QED BY <3>1, <3>2, <3>3 DEF Pos
  <2> QED BY <2>1, <2>2, Halves
<1> HIDE DEF T
<1>2. \A y \in Nat : y \in T BY <1>1, FromSmaller
<1> QED BY <1>2 DEF T

\* increase() goes on within any sum that has its number: if v[x - 1] is of the numbers above
\* x - LowBit(x), and p is one of them but not the last, then so is where p leads to.
LEMMA UpInside ==
  \A x \in Nat : x \in Pos => \A p \in Pos : x - F!LowBit(x) < p /\ p < x => p + F!LowBit(p) <= x
<1> DEFINE T == {x \in Nat : x \in Pos => \A p \in Pos : x - F!LowBit(x) < p /\ p < x => p + F!LowBit(p) <= x}
<1>1. ASSUME NEW x \in Nat, \A m \in Nat : m < x => m \in T PROVE x \in T
  <2> SUFFICES ASSUME x \in Pos, NEW p \in Pos, x - F!LowBit(x) < p, p < x
               PROVE  p + F!LowBit(p) <= x
    OBVIOUS
  <2>1. CASE x % 2 = 1
    <3>1. F!LowBit(x) = 1 BY <2>1, LowBitIs
    <3> QED BY <3>1 DEF Pos
  <2>2. CASE x % 2 = 0 /\ p % 2 = 1
    <3>1. F!LowBit(p) = 1 BY <2>2, LowBitIs
    <3> QED BY <3>1 DEF Pos
  <2>3. CASE x % 2 = 0 /\ p % 2 = 0
    <3> DEFINE z == x \div 2
    <3> DEFINE q == p \div 2
    <3>1. z \in Pos /\ z < x /\ x = 2 * z /\ q \in Pos /\ p = 2 * q BY <2>3, Halves
    <3>2. F!LowBit(x) = 2 * F!LowBit(z) /\ F!LowBit(p) = 2 * F!LowBit(q) BY <2>3, LowBitIs
    <3> HIDE DEF z, q
    <3>3. F!LowBit(z) \in Nat /\ F!LowBit(q) \in Nat BY <3>1, LowBitRange DEF Pos
    <3>4. z - F!LowBit(z) < q /\ q < z BY <3>1, <3>2, <3>3 DEF Pos
    <3>5. q + F!LowBit(q) <= z BY <1>1, <3>1, <3>4 DEF Pos
    <3> QED BY <3>1, <3>2, <3>3, <3>5 DEF Pos
  <2> QED BY <2>1, <2>2, <2>3, Halves
<1> HIDE DEF T
<1>2. \A x \in Nat : x \in T BY <1>1, FromSmaller
<1> QED BY <1>2 DEF T

\* ... and to no sum that does not have it.
LEMMA UpOutside ==
  \A x \in Nat : x \in Pos => \A p \in Pos :
    x - F!LowBit(x) < p + F!LowBit(p) /\ p + F!LowBit(p) <= x => x - F!LowBit(x) < p
<1> DEFINE T == {x \in Nat : x \in Pos => \A p \in Pos :
                   x - F!LowBit(x) < p + F!LowBit(p) /\ p + F!LowBit(p) <= x => x - F!LowBit(x) < p}
<1>1. ASSUME NEW x \in Nat, \A m \in Nat : m < x => m \in T PROVE x \in T
  <2> SUFFICES ASSUME x \in Pos, NEW p \in Pos,
                      x - F!LowBit(x) < p + F!LowBit(p), p + F!LowBit(p) <= x
               PROVE  x - F!LowBit(x) < p
    OBVIOUS
  <2>0. p \in Nat /\ F!LowBit(p) \in 1..p /\ F!LowBit(x) \in 1..x BY LowBitRange DEF Pos
  <2>1. CASE x % 2 = 1
    <3>1. F!LowBit(x) = 1 BY <2>1, LowBitIs
    <3>2. x = p + F!LowBit(p) BY <3>1, <2>0
    <3>3. p % 2 = 1 => F!LowBit(p) = 1 BY LowBitIs
    <3>4. p % 2 = 0 => F!LowBit(p) % 2 = 0 BY LowBitRange, <2>0
    <3>5. p % 2 = 1 => FALSE BY <3>2, <3>3, <2>1, <2>0
    <3>6. p % 2 = 0 => FALSE BY <3>2, <3>4, <2>1, <2>0
    <3> QED BY <3>5, <3>6, Halves
  <2>2. CASE x % 2 = 0 /\ p % 2 = 1
    <3>1. F!LowBit(p) = 1 BY <2>2, LowBitIs
    <3>2. F!LowBit(x) % 2 = 0 BY <2>2, LowBitRange
    <3>3. x - F!LowBit(x) # p BY <2>2, <3>2, <2>0
    <3> QED BY <3>1, <3>3, <2>0
  <2>3. CASE x % 2 = 0 /\ p % 2 = 0
    <3> DEFINE z == x \div 2
    <3> DEFINE q == p \div 2
    <3>1. z \in Pos /\ z < x /\ x = 2 * z /\ q \in Pos /\ p = 2 * q BY <2>3, Halves
    <3>2. F!LowBit(x) = 2 * F!LowBit(z) /\ F!LowBit(p) = 2 * F!LowBit(q) BY <2>3, LowBitIs
    <3> HIDE DEF z, q
    <3>3. F!LowBit(z) \in Nat /\ F!LowBit(q) \in Nat BY <3>1, LowBitRange DEF Pos
    <3>4. z - F!LowBit(z) < q + F!LowBit(q) /\ q + F!LowBit(q) <= z BY <3>1, <3>2, <3>3 DEF Pos
    <3>5. z - F!LowBit(z) < q BY <1>1, <3>1, <3>4 DEF Pos
    <3> QED BY <3>1, <3>2, <3>3, <3>5 DEF Pos
  <2> QED BY <2>1, <2>2, <2>3, Halves
<1> HIDE DEF T
<1>2. \A x \in Nat : x \in T BY <1>1, FromSmaller
<1> QED BY <1>2 DEF T

-----------------------------------------------------------------------------
(* Sums over finite sets, as the library defines them                      *)

Total(f, set) == F!MapThenSumSet(LAMBDA i : f[i], set)

SumOf(f, g, s) == IF s = {} THEN 0 ELSE f[CHOOSE x \in s : TRUE] + g[s \ {CHOOSE x \in s : TRUE}]
SumsOf(f, g, set) == [s \in SUBSET set |-> SumOf(f, g, s)]

\* The sum over a set, by the recursive function it is defined with
LEMMA TotalIs ==
  \A f, set : Total(f, set) = (CHOOSE g : g = SumsOf(f, g, set))[set]
  BY DEF Total, SumsOf, SumOf, F!MapThenSumSet, F!MapThenFoldSet

\* The recursion has a solution for the subsets of less than n elements, for every n.
LEMMA SumsBelow ==
  ASSUME NEW f, NEW set, IsFiniteSet(set)
  PROVE  \A n \in Nat : \E g : \A s \in SUBSET set : Cardinality(s) < n => g[s] = SumOf(f, g, s)
<1> DEFINE T == {n \in Nat : \E g : \A s \in SUBSET set : Cardinality(s) < n => g[s] = SumOf(f, g, s)}
<1>0. \A s \in SUBSET set : IsFiniteSet(s) /\ Cardinality(s) \in Nat BY FS_Subset, FS_CardinalityType
<1>1. 0 \in T BY <1>0
<1>2. ASSUME NEW n \in Nat, n \in T PROVE n + 1 \in T
  <2>1. PICK g : \A s \in SUBSET set : Cardinality(s) < n => g[s] = SumOf(f, g, s) BY <1>2
  <2> DEFINE gg == [s \in SUBSET set |-> IF Cardinality(s) = n THEN SumOf(f, g, s) ELSE g[s]]
  <2>2. ASSUME NEW s \in SUBSET set, Cardinality(s) < n + 1 PROVE gg[s] = SumOf(f, gg, s)
    <3>1. gg[s] = SumOf(f, g, s) BY <1>0, <2>1, <2>2
    <3>2. CASE s = {} BY <3>1, <3>2 DEF SumOf
    <3>3. CASE s # {}
      <4> DEFINE x == CHOOSE x \in s : TRUE
      <4>1. x \in s BY <3>3
      <4> DEFINE t == s \ {x}
      <4>2. t \in SUBSET set OBVIOUS
      <4>3. Cardinality(t) = Cardinality(s) - 1 BY <4>1, <1>0, FS_RemoveElement
      <4>4. Cardinality(t) # n BY <1>0, <2>2, <4>3
      <4>5. gg[t] = g[t] BY <4>2, <4>4
      <4> HIDE DEF gg
      <4> QED BY <3>1, <3>3, <4>5 DEF SumOf
    <3> QED BY <3>2, <3>3
  <2>3. \E h : \A s \in SUBSET set : Cardinality(s) < n + 1 => h[s] = SumOf(f, h, s) BY <2>2
  <2> QED BY <2>3
<1> HIDE DEF T
<1>3. \A n \in Nat : n \in T BY <1>1, <1>2, FromBefore
<1> QED BY <1>3 DEF T

\* The recursion has a solution.
LEMMA SumsExist ==
  ASSUME NEW f, NEW set, IsFiniteSet(set)
  PROVE  \E g : g = SumsOf(f, g, set)
<1>0. Cardinality(set) \in Nat BY FS_CardinalityType
<1> DEFINE n == Cardinality(set) + 1
<1>a. n \in Nat BY <1>0
<1>b. \A k \in Nat : \E g : \A s \in SUBSET set : Cardinality(s) < k => g[s] = SumOf(f, g, s)
  BY SumsBelow
<1> HIDE DEF n
<1>c. \E g : \A s \in SUBSET set : Cardinality(s) < n => g[s] = SumOf(f, g, s) BY <1>a, <1>b
<1>1. PICK g : \A s \in SUBSET set : Cardinality(s) < Cardinality(set) + 1 => g[s] = SumOf(f, g, s)
  BY <1>c DEF n
<1>2. \A s \in SUBSET set : g[s] = SumOf(f, g, s)
  <2> TAKE s \in SUBSET set
  <2>1. Cardinality(s) \in Nat /\ Cardinality(s) <= Cardinality(set) BY FS_Subset, FS_CardinalityType
  <2> QED BY <1>0, <1>1, <2>1
<1> DEFINE h == [s \in SUBSET set |-> g[s]]
<1>3. ASSUME NEW s \in SUBSET set PROVE h[s] = SumOf(f, h, s)
  <2>1. h[s] = SumOf(f, g, s) BY <1>2
  <2>2. s \ {CHOOSE x \in s : TRUE} \in SUBSET set OBVIOUS
  <2>3. h[s \ {CHOOSE x \in s : TRUE}] = g[s \ {CHOOSE x \in s : TRUE}] BY <2>2
  <2> HIDE DEF h
  <2> QED BY <2>1, <2>3 DEF SumOf
<1>4. h = SumsOf(f, h, set) BY <1>3 DEF SumsOf
<1> QED BY <1>4

\* Solutions for two sets are the same where both are.
LEMMA SumsSame ==
  ASSUME NEW f, NEW A, NEW B, IsFiniteSet(A), NEW g, NEW h, g = SumsOf(f, g, A), h = SumsOf(f, h, B)
  PROVE  \A s : s \subseteq A /\ s \subseteq B => g[s] = h[s]
<1> DEFINE T == {n \in Nat : \A s \in SUBSET A : Cardinality(s) = n /\ s \subseteq B => g[s] = h[s]}
<1>0. \A s \in SUBSET A : IsFiniteSet(s) /\ Cardinality(s) \in Nat BY FS_Subset, FS_CardinalityType
<1>1. ASSUME NEW n \in Nat, \A m \in Nat : m < n => m \in T PROVE n \in T
  <2> SUFFICES ASSUME NEW s \in SUBSET A, Cardinality(s) = n, s \subseteq B PROVE g[s] = h[s] OBVIOUS
  <2>1. g[s] = SumOf(f, g, s) BY DEF SumsOf
  <2>2. h[s] = SumOf(f, h, s) BY DEF SumsOf
  <2>3. CASE s = {} BY <2>1, <2>2, <2>3 DEF SumOf
  <2>4. CASE s # {}
    <3> DEFINE x == CHOOSE x \in s : TRUE
    <3> DEFINE t == s \ {x}
    <3>1. x \in s BY <2>4
    <3>2. t \in SUBSET A /\ t \subseteq B OBVIOUS
    <3>3. Cardinality(t) = Cardinality(s) - 1 BY <3>1, <1>0, FS_RemoveElement
    <3>a. Cardinality(t) \in Nat /\ Cardinality(t) < n BY <1>0, <3>2, <3>3
    <3> HIDE DEF T
    <3>4. Cardinality(t) \in T BY <1>1, <3>a
    <3> USE DEF T
    <3>5. g[t] = h[t] BY <3>2, <3>4
    <3> QED BY <2>1, <2>2, <2>4, <3>5 DEF SumOf
  <2> QED BY <2>3, <2>4
<1> HIDE DEF T
<1>2. \A n \in Nat : n \in T BY <1>1, FromSmaller
<1> QED BY <1>0, <1>2 DEF T

\* The sum over nothing
LEMMA TotalOfNone == \A f : Total(f, {}) = 0
<1> TAKE f
<1> DEFINE g == CHOOSE g : g = SumsOf(f, g, {})
<1>1. g = SumsOf(f, g, {}) BY SumsExist, FS_EmptySet
<1>2. Total(f, {}) = g[{}] BY TotalIs
<1> HIDE DEF g
<1>3. g[{}] = SumOf(f, g, {}) BY <1>1 DEF SumsOf
<1> QED BY <1>2, <1>3 DEF SumOf

\* A sum begins with the element that CHOOSE gives.
LEMMA TotalFirst ==
  ASSUME NEW f, NEW set, IsFiniteSet(set), set # {}
  PROVE  LET x == CHOOSE x \in set : TRUE IN Total(f, set) = f[x] + Total(f, set \ {x})
<1> DEFINE x == CHOOSE x \in set : TRUE
<1> DEFINE t == set \ {x}
<1> DEFINE g == CHOOSE g : g = SumsOf(f, g, set)
<1> DEFINE h == CHOOSE h : h = SumsOf(f, h, t)
<1>1. IsFiniteSet(t) BY FS_Subset
<1>2. g = SumsOf(f, g, set) BY SumsExist
<1>3. h = SumsOf(f, h, t) BY SumsExist, <1>1
<1>4. Total(f, set) = g[set] /\ Total(f, t) = h[t] BY TotalIs
<1> HIDE DEF g, h
<1>5. g[t] = h[t] BY <1>2, <1>3, SumsSame
<1>6. g[set] = SumOf(f, g, set) BY <1>2 DEF SumsOf
<1> QED BY <1>4, <1>5, <1>6 DEF SumOf

\* ... and as well with any other element.
LEMMA TotalAdd ==
  ASSUME NEW f, NEW A, IsFiniteSet(A), \A i \in A : f[i] \in Int
  PROVE  \A n \in Nat : \A s \in SUBSET A : Cardinality(s) = n =>
           Total(f, s) \in Int /\ \A x \in s : Total(f, s) = f[x] + Total(f, s \ {x})
<1> DEFINE T == {n \in Nat : \A s \in SUBSET A : Cardinality(s) = n =>
                   Total(f, s) \in Int /\ \A x \in s : Total(f, s) = f[x] + Total(f, s \ {x})}
<1>0. \A s \in SUBSET A : IsFiniteSet(s) /\ Cardinality(s) \in Nat BY FS_Subset, FS_CardinalityType
<1>1. ASSUME NEW n \in Nat, \A m \in Nat : m < n => m \in T PROVE n \in T
  <2> SUFFICES ASSUME NEW s \in SUBSET A, Cardinality(s) = n
               PROVE  Total(f, s) \in Int /\ \A x \in s : Total(f, s) = f[x] + Total(f, s \ {x})
    OBVIOUS
  <2>1. CASE s = {} BY <2>1, TotalOfNone
  <2>2. CASE s # {}
    <3> DEFINE c == CHOOSE c \in s : TRUE
    <3>1. c \in s BY <2>2
    <3>2. Total(f, s) = f[c] + Total(f, s \ {c}) BY <1>0, <2>2, TotalFirst
    <3> HIDE DEF c
    <3>3. ASSUME NEW x \in s PROVE Cardinality(s \ {x}) = n - 1 /\ n - 1 \in Nat /\ n - 1 \in T
      <4>1. Cardinality(s \ {x}) = n - 1 BY <1>0, FS_RemoveElement
      <4>2. s \ {x} \in SUBSET A OBVIOUS
      <4>3. n - 1 \in Nat BY <4>1, <4>2, <1>0
      <4> QED BY <1>1, <4>1, <4>3
    <3>4. ASSUME NEW x \in s
          PROVE  Total(f, s \ {x}) \in Int
                 /\ \A y \in s \ {x} : Total(f, s \ {x}) = f[y] + Total(f, (s \ {x}) \ {y})
      BY <3>3, s \ {x} \in SUBSET A
    <3>5. Total(f, s) \in Int BY <3>1, <3>2, <3>4
    <3>6. ASSUME NEW x \in s, x # c PROVE Total(f, s) = f[x] + Total(f, s \ {x})
      <4>1. Total(f, s \ {c}) = f[x] + Total(f, (s \ {c}) \ {x}) BY <3>1, <3>4, <3>6
      <4>2. Total(f, s \ {x}) = f[c] + Total(f, (s \ {x}) \ {c}) BY <3>1, <3>4, <3>6
      <4>3. (s \ {c}) \ {x} = (s \ {x}) \ {c} OBVIOUS
      <4> DEFINE r == (s \ {c}) \ {x}
      <4>4. r \in SUBSET A OBVIOUS
      <4>5. Cardinality(r) = n - 2 /\ n - 2 \in Nat
        <5>1. IsFiniteSet(s \ {c}) BY <1>0
        <5>2. Cardinality(r) = Cardinality(s \ {c}) - 1 BY <3>6, <5>1, FS_RemoveElement
        <5>3. Cardinality(r) = n - 2 BY <5>2, <3>1, <3>3
        <5> QED BY <5>3, <4>4, <1>0
      <4>6. Total(f, r) \in Int BY <4>4, <4>5, <1>1
      <4>7. f[x] \in Int /\ f[c] \in Int BY <3>1
      <4> DEFINE total == Total(f, r)
      <4>8. Total(f, s \ {c}) = f[x] + total /\ Total(f, s \ {x}) = f[c] + total BY <4>1, <4>2, <4>3
      <4> HIDE DEF total
      <4> QED BY <3>2, <4>6, <4>7, <4>8 DEF total
    <3> QED BY <3>2, <3>5, <3>6
  <2> QED BY <2>1, <2>2
<1> HIDE DEF T
<1>2. \A n \in Nat : n \in T BY <1>1, FromSmaller
<1> QED BY <1>2 DEF T

\* The sum over an interval is that over the interval without its last number, and that number.
LEMMA TotalRange ==
  ASSUME NEW f, NEW a \in Int, NEW b \in Int, \A i \in a..b : f[i] \in Int
  PROVE  /\ Total(f, a..b) \in Int
         /\ a > b => Total(f, a..b) = 0
         /\ a <= b => Total(f, a..b) = f[b] + Total(f, a..(b - 1))
<1>1. IsFiniteSet(a..b) /\ Cardinality(a..b) \in Nat BY FS_Interval, FS_CardinalityType
<1>2. /\ Total(f, a..b) \in Int
      /\ \A x \in a..b : Total(f, a..b) = f[x] + Total(f, (a..b) \ {x})
  BY <1>1, TotalAdd
<1>3. a > b => a..b = {} OBVIOUS
<1>4. a <= b => b \in a..b /\ (a..b) \ {b} = a..(b - 1) OBVIOUS
<1> QED BY <1>2, <1>3, <1>4, TotalOfNone

\* The sum over an interval is those over its two parts.
LEMMA TotalSplit ==
  ASSUME NEW f, NEW a \in Int, NEW b \in Int, a <= b + 1
  PROVE  \A n \in Nat : (\A i \in a..(b + n) : f[i] \in Int) =>
           Total(f, a..(b + n)) = Total(f, a..b) + Total(f, (b + 1)..(b + n))
<1> DEFINE T == {n \in Nat : (\A i \in a..(b + n) : f[i] \in Int) =>
                   Total(f, a..(b + n)) = Total(f, a..b) + Total(f, (b + 1)..(b + n))}
<1>1. 0 \in T
  <2> SUFFICES ASSUME \A i \in a..b : f[i] \in Int
               PROVE  Total(f, a..b) = Total(f, a..b) + Total(f, (b + 1)..b)
    OBVIOUS
  <2>1. Total(f, (b + 1)..b) = 0 BY TotalRange
  <2>2. Total(f, a..b) \in Int BY TotalRange
  <2> QED BY <2>1, <2>2
<1>2. ASSUME NEW n \in Nat, n \in T PROVE n + 1 \in T
  <2> DEFINE c == b + n
  <2> DEFINE d == b + (n + 1)
  <2> SUFFICES ASSUME \A i \in a..d : f[i] \in Int
               PROVE  Total(f, a..d) = Total(f, a..b) + Total(f, (b + 1)..d)
    OBVIOUS
  <2>1. c \in Int /\ d \in Int /\ d - 1 = c /\ a <= d /\ b + 1 <= d /\ b <= c /\ b + 1 \in Int OBVIOUS
  <2> HIDE DEF c, d
  <2>2. Total(f, a..c) = Total(f, a..b) + Total(f, (b + 1)..c) BY <1>2, <2>1 DEF c
  <2>3. \A i \in (b + 1)..d : f[i] \in Int BY <2>1
  <2>4. /\ Total(f, a..d) = f[d] + Total(f, a..c)
        /\ Total(f, (b + 1)..d) = f[d] + Total(f, (b + 1)..c)
    BY <2>1, <2>3, TotalRange
  <2>5. Total(f, a..b) \in Int /\ Total(f, (b + 1)..c) \in Int /\ f[d] \in Int
    <3>1. (\A i \in a..b : f[i] \in Int) /\ (\A i \in (b + 1)..c : f[i] \in Int) BY <2>1
    <3>2. f[d] \in Int BY <2>1
    <3> QED BY <2>1, <3>1, <3>2, TotalRange
  <2> QED BY <2>2, <2>4, <2>5
<1> HIDE DEF T
<1>3. \A n \in Nat : n \in T BY <1>1, <1>2, FromBefore
<1> QED BY <1>3 DEF T

\* A number that grows by m makes the sums it is in grow by m, and no other.
Grown(f, g, k, m, b, a) ==
  (\A i \in a..b : f[i] \in Int /\ g[i] = IF i = k THEN f[i] + m ELSE f[i]) =>
    Total(g, a..b) = Total(f, a..b) + IF k \in a..b THEN m ELSE 0

\* Adding to one of the numbers adds as much to the sums over intervals that have it, to no other.
LEMMA TotalGrows ==
  ASSUME NEW f, NEW g, NEW a \in Int, NEW k \in Int, NEW m \in Int
  PROVE  \A n \in Nat : \A b \in Int : b = a + n - 1 => Grown(f, g, k, m, b, a)
<1> DEFINE T == {n \in Nat : \A b \in Int : b = a + n - 1 => Grown(f, g, k, m, b, a)}
<1>1. 0 \in T
  <2> SUFFICES ASSUME NEW b \in Int, b = a - 1 PROVE Grown(f, g, k, m, b, a) OBVIOUS
  <2>1. a..b = {} OBVIOUS
  <2> QED BY <2>1, TotalOfNone DEF Grown
<1>2. ASSUME NEW n \in Nat, n \in T PROVE n + 1 \in T
  <2> SUFFICES ASSUME NEW d \in Int, d = a + (n + 1) - 1,
                      \A i \in a..d : f[i] \in Int /\ g[i] = IF i = k THEN f[i] + m ELSE f[i]
               PROVE  Total(g, a..d) = Total(f, a..d) + IF k \in a..d THEN m ELSE 0
    BY DEF Grown
  <2> DEFINE c == d - 1
  <2>1. c \in Int /\ d - 1 = c /\ a <= d /\ c = a + n - 1 OBVIOUS
  <2> HIDE DEF c
  <2>2. Grown(f, g, k, m, c, a) BY <1>2, <2>1
  <2>3. \A i \in a..c : f[i] \in Int /\ g[i] = IF i = k THEN f[i] + m ELSE f[i] BY <2>1
  <2>4. Total(g, a..c) = Total(f, a..c) + IF k \in a..c THEN m ELSE 0 BY <2>2, <2>3 DEF Grown
  <2>5. d \in a..d BY <2>1
  <2>6. f[d] \in Int /\ g[d] = IF d = k THEN f[d] + m ELSE f[d] BY <2>5
  <2>7. Total(f, a..c) \in Int BY <2>1, <2>3, TotalRange
  <2>8. Total(f, a..d) = f[d] + Total(f, a..c) BY <2>1, TotalRange
  <2>9. \A i \in a..d : g[i] \in Int OBVIOUS
  <2>10. Total(g, a..d) = g[d] + Total(g, a..c) BY <2>1, <2>9, TotalRange
  <2>11. k \in a..d <=> k \in a..c \/ k = d BY <2>1
  <2>12. d \notin a..c BY <2>1
  <2> QED BY <2>4, <2>6, <2>7, <2>8, <2>10, <2>11, <2>12
<1> HIDE DEF T
<1>3. \A n \in Nat : n \in T BY <1>1, <1>2, FromBefore
<1> QED BY <1>3 DEF T
-----------------------------------------------------------------------------

\* query() goes on further down, and ends at -1.
LEMMA BelowRange == \A i \in Nat : F!Below(i) \in -1..(i - 1)
<1> TAKE i \in Nat
<1>1. i + 1 \in Nat /\ i + 1 \in Pos BY DEF Pos
<1>2. F!LowBit(i + 1) \in 1..(i + 1) BY <1>1, LowBitRange
<1> QED BY <1>2 DEF F!Below

\* The sums that have number k
Having(k) == {i \in F!Index : F!Below(i) < k /\ k <= i}

\* Those of number k are v[k] and those of the number increase() goes on with.
LEMMA HavingFrom ==
  ASSUME TreeSize \in Nat, NEW k \in Nat
  PROVE  /\ F!Above(k) \in (k + 1)..(2 * k + 1)
         /\ k < TreeSize => Having(k) = {k} \cup Having(F!Above(k))
         /\ k >= TreeSize => Having(k) = {}
<1> DEFINE p == k + 1
<1>1. p \in Nat /\ p \in Pos BY DEF Pos
<1>2. F!LowBit(p) \in 1..p BY <1>1, LowBitRange
<1>3. F!Above(k) = k + F!LowBit(p) BY DEF F!Above
<1>4. F!Above(k) \in (k + 1)..(2 * k + 1) BY <1>2, <1>3
<1>5. ASSUME k < TreeSize PROVE Having(k) = {k} \cup Having(F!Above(k))
  <2>1. ASSUME NEW i \in F!Index
        PROVE  i \in Having(k) <=> i = k \/ i \in Having(F!Above(k))
    <3> DEFINE x == i + 1
    <3>1. i \in Nat /\ x \in Nat /\ x \in Pos BY DEF Pos, F!Index
    <3>2. F!LowBit(x) \in 1..x BY <3>1, LowBitRange
    <3>3. F!Below(i) = i - F!LowBit(x) BY DEF F!Below
    <3>4. x - F!LowBit(x) < p /\ p < x => p + F!LowBit(p) <= x BY <3>1, <1>1, UpInside
    <3>5. x - F!LowBit(x) < p + F!LowBit(p) /\ p + F!LowBit(p) <= x => x - F!LowBit(x) < p
      BY <3>1, <1>1, UpOutside
    <3> DEFINE lx == F!LowBit(x)
    <3> DEFINE lp == F!LowBit(p)
    <3>6. i \in Having(k) <=> i - lx < k /\ k <= i BY <3>3 DEF Having
    <3>7. i \in Having(F!Above(k)) <=> i - lx < k + lp /\ k + lp <= i BY <3>3, <1>3 DEF Having
    <3>8. /\ x - lx < p /\ p < x => p + lp <= x
          /\ x - lx < p + lp /\ p + lp <= x => x - lx < p
          /\ lx \in 1..x /\ lp \in 1..p
      BY <3>2, <3>4, <3>5, <1>2
    <3> HIDE DEF lx, lp
    <3> QED BY <3>1, <3>6, <3>7, <3>8
  <2>2. k \in F!Index BY <1>5 DEF F!Index
  <2> QED BY <2>1, <2>2 DEF Having
<1>6. ASSUME k >= TreeSize PROVE Having(k) = {} BY <1>6 DEF Having, F!Index
<1> QED BY <1>4, <1>5, <1>6

PathOf(on) == [i \in 0..(2 * TreeSize) |-> IF i < TreeSize THEN {i} \cup on[F!Above(i)] ELSE {}]

\* increase() changes all the sums that have its number and no other.
LEMMA PathIs ==
  ASSUME TreeSize \in Nat
  PROVE  \A k \in F!Index : F!Path(k) = Having(k)
<1> DEFINE f == [i \in 0..(2 * TreeSize) |-> Having(i)]
<1>1. ASSUME NEW i \in 0..(2 * TreeSize), i < TreeSize PROVE F!Above(i) \in 0..(2 * TreeSize) /\ i < F!Above(i)
  BY <1>1, HavingFrom
<1>2. ASSUME NEW i \in 0..(2 * TreeSize) PROVE f[i] = PathOf(f)[i]
  <2>1. i \in Nat OBVIOUS
  <2>2. CASE i < TreeSize
    <3>1. Having(i) = {i} \cup Having(F!Above(i)) BY <2>1, <2>2, HavingFrom
    <3>2. f[F!Above(i)] = Having(F!Above(i)) BY <2>2, <1>1
    <3>3. f[i] = {i} \cup f[F!Above(i)] BY <3>1, <3>2
    <3> HIDE DEF f
    <3> QED BY <2>2, <3>3 DEF PathOf
  <2>3. CASE i >= TreeSize
    <3>1. f[i] = {} BY <2>1, <2>3, HavingFrom
    <3> HIDE DEF f
    <3> QED BY <2>3, <3>1 DEF PathOf
  <2> QED BY <2>2, <2>3
<1>3. f = PathOf(f) BY <1>2 DEF PathOf
<1> DEFINE g == CHOOSE on : on = PathOf(on)
<1>4. g = PathOf(g) BY <1>3
<1>5. \A k : F!Path(k) = g[k] BY DEF F!Path, PathOf
<1> HIDE DEF g
<1> DEFINE T == {n \in Nat : \A i \in 0..(2 * TreeSize) : i = 2 * TreeSize - n => g[i] = Having(i)}
<1>6. ASSUME NEW n \in Nat, \A m \in Nat : m < n => m \in T PROVE n \in T
  <2> SUFFICES ASSUME NEW i \in 0..(2 * TreeSize), i = 2 * TreeSize - n PROVE g[i] = Having(i) OBVIOUS
  <2>1. i \in Nat OBVIOUS
  <2>2. g[i] = IF i < TreeSize THEN {i} \cup g[F!Above(i)] ELSE {} BY <1>4 DEF PathOf
  <2>3. CASE i >= TreeSize BY <2>1, <2>2, <2>3, HavingFrom
  <2>4. CASE i < TreeSize
    <3> DEFINE j == F!Above(i)
    <3>1. j \in 0..(2 * TreeSize) /\ i < j BY <2>4, <1>1
    <3> HIDE DEF j
    <3>2. 2 * TreeSize - j \in Nat /\ 2 * TreeSize - j < n /\ j = 2 * TreeSize - (2 * TreeSize - j) BY <3>1
    <3>3. g[j] = Having(j) BY <1>6, <3>1, <3>2
    <3>4. Having(i) = {i} \cup Having(j) BY <2>1, <2>4, HavingFrom DEF j
    <3> QED BY <2>2, <2>4, <3>3, <3>4 DEF j
  <2> QED BY <2>1, <2>3, <2>4
<1> HIDE DEF T
<1>7. \A n \in Nat : n \in T BY <1>6, FromSmaller
<1>8. ASSUME NEW k \in F!Index PROVE g[k] = Having(k)
  <2>1. k \in 0..(2 * TreeSize) /\ 2 * TreeSize - k \in Nat /\ k = 2 * TreeSize - (2 * TreeSize - k)
    BY DEF F!Index
  <2> QED BY <2>1, <1>7 DEF T
<1> QED BY <1>5, <1>8

\* Every number of the tree is the sum of its part of the numbers.
TreeInv ==
  /\ v \in [F!Index -> Int] /\ plain \in [F!Index -> Int]
  /\ \A i \in F!Index : v[i] = Total(plain, (F!Below(i) + 1)..i)

QueryOf(upto, a) == [i \in -1..a |-> IF i >= 0 THEN v[i] + upto[F!Below(i)] ELSE 0]

\* query(a) is the sum of the numbers up to a.
LEMMA QueryIs ==
  ASSUME TreeSize \in Nat, TreeInv, NEW a \in -1..(TreeSize - 1)
  PROVE  F!Query(a) = Total(plain, 0..a)
<1> DEFINE f == [i \in -1..a |-> Total(plain, 0..i)]
<1>0. \A i \in 0..a : plain[i] \in Int BY DEF TreeInv, F!Index
<1>1. ASSUME NEW i \in -1..a, i >= 0
      PROVE  /\ F!Below(i) \in -1..a /\ F!Below(i) < i
             /\ Total(plain, 0..i) = v[i] + Total(plain, 0..F!Below(i))
  <2>1. i \in Nat /\ i \in F!Index BY <1>1 DEF F!Index
  <2>2. F!Below(i) \in -1..(i - 1) BY <2>1, BelowRange
  <2> DEFINE b == F!Below(i)
  <2>3. v[i] = Total(plain, (b + 1)..i) BY <2>1 DEF TreeInv
  <2> HIDE DEF b
  <2>4. b \in -1..(i - 1) BY <2>2 DEF b
  <2> DEFINE n == i - b
  <2>5. n \in Nat /\ b + n = i /\ b \in Int /\ 0 <= b + 1 BY <2>1, <2>4
  <2> HIDE DEF n
  <2>6. \A j \in 0..(b + n) : plain[j] \in Int BY <1>0, <2>5
  <2>7. Total(plain, 0..(b + n)) = Total(plain, 0..b) + Total(plain, (b + 1)..(b + n))
    BY <2>5, <2>6, TotalSplit
  <2>8. Total(plain, 0..b) \in Int /\ v[i] \in Int
    <3>1. \A j \in 0..b : plain[j] \in Int BY <2>6, <2>5
    <3>2. Total(plain, 0..b) \in Int BY <2>5, <3>1, TotalRange
    <3> QED BY <3>2, <2>1 DEF TreeInv
  <2>9. Total(plain, 0..i) = v[i] + Total(plain, 0..b) BY <2>3, <2>5, <2>7, <2>8
  <2> QED BY <2>4, <2>9 DEF b
<1>2. ASSUME NEW i \in -1..a PROVE f[i] = QueryOf(f, a)[i]
  <2>1. CASE i >= 0
    <3>1. f[F!Below(i)] = Total(plain, 0..F!Below(i)) BY <1>1, <2>1
    <3>2. f[i] = v[i] + f[F!Below(i)] BY <1>1, <2>1, <3>1
    <3> HIDE DEF f
    <3> QED BY <2>1, <3>2 DEF QueryOf
  <2>2. CASE i = -1
    <3>1. 0..i = {} BY <2>2
    <3>2. f[i] = 0 BY <3>1, TotalOfNone
    <3> HIDE DEF f
    <3> QED BY <2>2, <3>2 DEF QueryOf
  <2> QED BY <2>1, <2>2
<1>3. f = QueryOf(f, a) BY <1>2 DEF QueryOf
<1> DEFINE g == CHOOSE upto : upto = QueryOf(upto, a)
<1>4. g = QueryOf(g, a) BY <1>3
<1>5. F!Query(a) = g[a] BY DEF F!Query, QueryOf
<1> HIDE DEF g
<1> DEFINE T == {n \in Nat : n - 1 <= a => g[n - 1] = Total(plain, 0..(n - 1))}
<1>6. ASSUME NEW n \in Nat, \A m \in Nat : m < n => m \in T PROVE n \in T
  <2> DEFINE i == n - 1
  <2> SUFFICES ASSUME i <= a PROVE g[i] = Total(plain, 0..i) OBVIOUS
  <2>1. i \in -1..a OBVIOUS
  <2>2. g[i] = IF i >= 0 THEN v[i] + g[F!Below(i)] ELSE 0 BY <1>4, <2>1 DEF QueryOf
  <2>3. CASE i >= 0
    <3> DEFINE b == F!Below(i)
    <3>1. b \in -1..a /\ b < i /\ Total(plain, 0..i) = v[i] + Total(plain, 0..b) BY <1>1, <2>1, <2>3
    <3> HIDE DEF b
    <3>2. b + 1 \in Nat /\ b + 1 < n /\ (b + 1) - 1 = b BY <3>1
    <3>3. g[b] = Total(plain, 0..b) BY <1>6, <3>1, <3>2
    <3> QED BY <2>2, <2>3, <3>1, <3>3 DEF b
  <2>4. CASE ~(i >= 0)
    <3>1. 0..i = {} BY <2>1, <2>4
    <3> QED BY <2>2, <2>4, <3>1, TotalOfNone
  <2> QED BY <2>3, <2>4
<1> HIDE DEF T
<1>7. \A n \in Nat : n \in T BY <1>6, FromSmaller
<1>8. a + 1 \in T /\ (a + 1) - 1 = a BY <1>7
<1> QED BY <1>5, <1>8 DEF T

\* The difference of two queries is the sum of the range between them.
LEMMA TreeInvExact == F!FenwickAssumption /\ TreeInv => F!SumsExact
<1> SUFFICES ASSUME F!FenwickAssumption, TreeInv, NEW a \in F!Index, NEW b \in F!Index, a <= b
             PROVE  F!QueryRange(a, b) = Total(plain, a..b)
  BY DEF F!SumsExact, Total
<1>1. TreeSize \in Nat /\ a \in 0..(TreeSize - 1) /\ b \in 0..(TreeSize - 1) BY DEF F!FenwickAssumption, F!Index
<1> DEFINE c == a - 1
<1>2. c \in -1..(TreeSize - 1) /\ b \in -1..(TreeSize - 1) BY <1>1
<1>3. F!QueryRange(a, b) = Total(plain, 0..b) - Total(plain, 0..c) BY <1>1, <1>2, QueryIs DEF F!QueryRange
<1> DEFINE n == b - c
<1>4. n \in Nat /\ c + n = b /\ c + 1 = a /\ c \in Int /\ 0 <= c + 1 BY <1>1
<1>5. \A i \in 0..b : plain[i] \in Int BY <1>1 DEF TreeInv, F!Index
<1> HIDE DEF n, c
<1>6. Total(plain, 0..(c + n)) = Total(plain, 0..c) + Total(plain, (c + 1)..(c + n)) BY <1>4, <1>5, TotalSplit
<1>7. Total(plain, 0..c) \in Int /\ Total(plain, a..b) \in Int
  <2>1. \A i \in 0..c : plain[i] \in Int BY <1>4, <1>5, <1>1
  <2>2. \A i \in a..b : plain[i] \in Int BY <1>5, <1>1
  <2> QED BY <1>1, <1>4, <2>1, <2>2, TotalRange
<1> QED BY <1>3, <1>4, <1>6, <1>7

\* A tree of zeros is one of sums of zeros.
LEMMA TreeInvInit == F!FenwickAssumption /\ F!Init => TreeInv
<1> SUFFICES ASSUME F!FenwickAssumption, F!Init PROVE TreeInv OBVIOUS
<1>1. TreeSize \in Nat BY DEF F!FenwickAssumption
<1>2. v \in [F!Index -> Int] /\ plain \in [F!Index -> Int] BY DEF F!Init
<1>3. ASSUME NEW i \in F!Index PROVE v[i] = Total(plain, (F!Below(i) + 1)..i)
  <2> DEFINE a == F!Below(i) + 1
  <2>1. i \in Nat /\ i < TreeSize BY <1>1 DEF F!Index
  <2>2. a \in 0..i BY <2>1, BelowRange
  <2> HIDE DEF a
  <2> DEFINE T == {n \in Nat : \A b \in Int : b = n - 1 /\ n <= TreeSize => Total(plain, a..b) = 0}
  <2>3. 0 \in T
    <3> SUFFICES ASSUME NEW b \in Int, b = -1 PROVE Total(plain, a..b) = 0 OBVIOUS
    <3>1. a..b = {} BY <2>2
    <3> QED BY <3>1, TotalOfNone
  <2>4. ASSUME NEW n \in Nat, n \in T PROVE n + 1 \in T
    <3> SUFFICES ASSUME n + 1 <= TreeSize PROVE Total(plain, a..n) = 0 OBVIOUS
    <3>1. Total(plain, a..(n - 1)) = 0 BY <2>4, <1>1
    <3>2. \A j \in a..n : j \in F!Index BY <2>2, <1>1 DEF F!Index
    <3>3. \A j \in a..n : plain[j] \in Int BY <1>2, <3>2
    <3>4. CASE a > n
      <4>1. a..n = {} BY <3>4, <2>2
      <4> QED BY <4>1, TotalOfNone
    <3>5. CASE a <= n
      <4>1. Total(plain, a..n) = plain[n] + Total(plain, a..(n - 1)) BY <3>3, <3>5, <2>2, TotalRange
      <4>2. plain[n] = 0 BY <3>2, <3>5, <2>2 DEF F!Init
      <4> QED BY <4>1, <4>2, <3>1
    <3> QED BY <3>4, <3>5, <2>2
  <2> HIDE DEF T
  <2>5. \A n \in Nat : n \in T BY <2>3, <2>4, FromBefore
  <2>6. i + 1 \in Nat /\ i + 1 <= TreeSize /\ i = (i + 1) - 1 /\ i \in Int BY <2>1, <1>1
  <2>7. Total(plain, a..i) = 0 BY <2>5, <2>6 DEF T
  <2>8. v[i] = 0 BY DEF F!Init
  <2> QED BY <2>7, <2>8 DEF a
<1> QED BY <1>2, <1>3 DEF TreeInv

\* increase() adds to a number and to the sums that have it.
LEMMA TreeInvNext == F!FenwickAssumption /\ TreeInv /\ [F!Next]_treeVars => TreeInv'
<1> SUFFICES ASSUME F!FenwickAssumption, TreeInv, [F!Next]_treeVars PROVE TreeInv' OBVIOUS
<1>1. CASE UNCHANGED treeVars BY <1>1 DEF TreeInv, treeVars
<1>2. CASE F!Next
  <2>1. TreeSize \in Nat BY DEF F!FenwickAssumption
  <2>2. PICK k \in F!Index, n \in {1, -2} : F!Increase(k, n) BY <1>2 DEF F!Next
  <2>3. /\ v' = [i \in F!Index |-> IF i \in F!Path(k) THEN v[i] + n ELSE v[i]]
        /\ plain' = [plain EXCEPT ![k] = @ + n]
    BY <2>2 DEF F!Increase
  <2>4. n \in Int /\ k \in Nat BY DEF F!Index
  <2>a. k \in Int BY <2>4
  <2>5. v' \in [F!Index -> Int] /\ plain' \in [F!Index -> Int] BY <2>3, <2>4 DEF TreeInv
  <2>6. ASSUME NEW i \in F!Index PROVE v'[i] = Total(plain', (F!Below(i) + 1)..i)
    <3> DEFINE a == F!Below(i) + 1
    <3>1. i \in Nat /\ i < TreeSize BY <2>1 DEF F!Index
    <3>2. a \in 0..i BY <3>1, BelowRange
    <3>3. v[i] = Total(plain, a..i) BY DEF TreeInv
    <3>4. i \in F!Path(k) <=> k \in a..i
      <4>1. i \in F!Path(k) <=> F!Below(i) < k /\ k <= i BY <2>1, PathIs DEF Having
      <4>2. F!Below(i) \in Int BY <3>1, BelowRange
      <4> QED BY <4>1, <4>2, <2>4, <3>1
    <3>5. i - a + 1 \in Nat /\ i = a + (i - a + 1) - 1 /\ a \in Int /\ i \in Int BY <3>1, <3>2
    <3> HIDE DEF a
    <3>6. \A j \in a..i : j \in F!Index BY <3>1, <3>2, <2>1 DEF F!Index
    <3>7. \A j \in a..i : plain[j] \in Int /\ plain'[j] = IF j = k THEN plain[j] + n ELSE plain[j]
      BY <2>3, <3>6 DEF TreeInv
    <3>8. Grown(plain, plain', k, n, i, a) BY <2>4, <2>a, <3>5, TotalGrows
    <3>9. Total(plain', a..i) = v[i] + IF i \in F!Path(k) THEN n ELSE 0 BY <3>3, <3>4, <3>7, <3>8 DEF Grown
    <3>10. v[i] \in Int BY DEF TreeInv
    <3>11. v'[i] = IF i \in F!Path(k) THEN v[i] + n ELSE v[i] BY <2>3
    <3> QED BY <3>9, <3>10, <3>11 DEF a
  <2> QED BY <2>5, <2>6 DEF TreeInv
<1> QED BY <1>1, <1>2

-----------------------------------------------------------------------------
(* JsonHeap                                                                *)

\* FiniteSets as JsonHeap sees it is FiniteSets.
LEMMA HeapCard == ASSUME NEW E PROVE J!Cardinality(E) = Cardinality(E)
  BY DEF J!Cardinality, Cardinality

\* ... and so are its finite sets.
LEMMA HeapFinite == ASSUME NEW E PROVE J!IsFiniteSet(E) <=> IsFiniteSet(E)
  BY DEF J!IsFiniteSet, IsFiniteSet

\* A heap: finitely many values, and their children are in it.
HeapOk(h) ==
  /\ IsFiniteSet(DOMAIN h)
  /\ \A c \in DOMAIN h :
       /\ h[c] = [type |-> h[c].type, kids |-> h[c].kids]
       /\ IsFiniteSet(DOMAIN h[c].kids)
       /\ \A k \in DOMAIN h[c].kids : h[c].kids[k] \in DOMAIN h
       /\ h[c].type = "array" => h[c].kids \in Seq(DOMAIN h)

\* Cells with everything below them
Closed(h, Y) == Y \subseteq DOMAIN h /\ \A c \in Y : J!Kids(h, c) \subseteq Y

\* A whole heap is closed.
LEMMA KidsInside == ASSUME NEW h, HeapOk(h) PROVE Closed(h, DOMAIN h)
  BY DEF HeapOk, Closed, J!Kids

Further(h, s) == s \cup UNION {J!Kids(h, c) : c \in s}
WithinOf(h, set, f) == [n \in Nat |-> IF n = 0 THEN set ELSE f[n - 1] \cup UNION {J!Kids(h, c) : c \in f[n - 1]}]

\* The cells within n steps, for every n
LEMMA WithinExists ==
  ASSUME NEW h, HeapOk(h), NEW set, set \subseteq DOMAIN h
  PROVE  \E f : f \in [Nat -> SUBSET DOMAIN h] /\ f = WithinOf(h, set, f)
<1> DEFINE next == [s \in SUBSET DOMAIN h |-> Further(h, s)]
<1>1. PICK f : f = RecOf(set, next, f) BY Recursion
<1> DEFINE T == {n \in Nat : f[n] \in SUBSET DOMAIN h}
<1>2. 0 \in T BY <1>1 DEF RecOf
<1>a. \A s \in SUBSET DOMAIN h : Further(h, s) \in SUBSET DOMAIN h BY KidsInside DEF Further, Closed
<1>b. \A s \in SUBSET DOMAIN h : next[s] = Further(h, s) /\ next[s] \in SUBSET DOMAIN h BY <1>a
<1> HIDE DEF next
<1>c. \A n \in Nat : f[n + 1] = next[f[n]]
  <2> TAKE n \in Nat
  <2>1. n + 1 \in Nat /\ n + 1 # 0 /\ (n + 1) - 1 = n OBVIOUS
  <2> QED BY <2>1, <1>1 DEF RecOf
<1>3. ASSUME NEW n \in Nat, n \in T PROVE n + 1 \in T BY <1>b, <1>c, <1>3
<1> HIDE DEF T
<1>4. \A n \in Nat : n \in T BY <1>2, <1>3, FromBefore
<1>5. \A n \in Nat : f[n] \in SUBSET DOMAIN h BY <1>4 DEF T
<1>6. ASSUME NEW n \in Nat PROVE f[n] = WithinOf(h, set, f)[n]
  <2>1. CASE n = 0 BY <1>1, <2>1 DEF RecOf, WithinOf
  <2>2. CASE n # 0
    <3>1. n - 1 \in Nat BY <2>2
    <3>2. f[n] = Further(h, f[n - 1]) BY <1>1, <1>5, <1>b, <2>2, <3>1 DEF RecOf
    <3> QED BY <2>2, <3>2 DEF WithinOf, Further
  <2> QED BY <2>1, <2>2
<1>7. f = [n \in Nat |-> f[n]] BY <1>1 DEF RecOf
<1>8. f = WithinOf(h, set, f) BY <1>6, <1>7 DEF WithinOf
<1> QED BY <1>5, <1>7, <1>8

\* What is below some cells: they are, with everything below them, and nothing that does not
\* have to be.
LEMMA BelowIs ==
  ASSUME NEW h, HeapOk(h), NEW set, set \subseteq DOMAIN h
  PROVE  /\ set \subseteq J!Below(h, set) /\ Closed(h, J!Below(h, set))
         /\ \A Y : Closed(h, Y) /\ set \subseteq Y => J!Below(h, set) \subseteq Y
<1> DEFINE f == CHOOSE f : f = WithinOf(h, set, f)
<1> DEFINE card == Cardinality(DOMAIN h)
<1>0. card \in Nat BY FS_CardinalityType DEF HeapOk
<1>1. f = WithinOf(h, set, f) BY WithinExists
<1>2. J!Below(h, set) = f[card] BY HeapCard DEF J!Below, WithinOf
<1> HIDE DEF f, card
<1>3. f[0] = set BY <1>1 DEF WithinOf
<1>4. ASSUME NEW n \in Nat PROVE f[n + 1] = f[n] \cup UNION {J!Kids(h, c) : c \in f[n]}
  <2>1. n + 1 \in Nat /\ n + 1 # 0 /\ (n + 1) - 1 = n OBVIOUS
  <2> QED BY <2>1, <1>1 DEF WithinOf
<1>5. ASSUME NEW Y, Closed(h, Y), set \subseteq Y PROVE f[card] \subseteq Y
  <2> DEFINE T == {n \in Nat : f[n] \subseteq Y}
  <2>1. 0 \in T BY <1>3, <1>5
  <2>2. ASSUME NEW n \in Nat, n \in T PROVE n + 1 \in T BY <1>4, <2>2, <1>5 DEF Closed
  <2> HIDE DEF T
  <2>3. \A n \in Nat : n \in T BY <2>1, <2>2, FromBefore
  <2> QED BY <2>3, <1>0 DEF T
\* Each step finds another cell, or there is none left to find.
<1> DEFINE T == {n \in Nat : /\ set \subseteq f[n] /\ f[n] \subseteq DOMAIN h
                             /\ Closed(h, f[n]) \/ Cardinality(f[n]) > n}
<1>6. 0 \in T
  <2>1. IsFiniteSet(set) /\ Cardinality(set) \in Nat BY FS_Subset, FS_CardinalityType DEF HeapOk
  <2>2. set = {} => Closed(h, set) BY DEF Closed
  <2>3. set # {} => Cardinality(set) > 0 BY <2>1, FS_EmptySet
  <2> QED BY <1>3, <2>2, <2>3
<1>7. ASSUME NEW n \in Nat, n \in T PROVE n + 1 \in T
  <2> DEFINE s == f[n]
  <2> DEFINE t == f[n + 1]
  <2>1. t = s \cup UNION {J!Kids(h, c) : c \in s} BY <1>4
  <2>2. set \subseteq s /\ s \subseteq DOMAIN h /\ (Closed(h, s) \/ Cardinality(s) > n) BY <1>7
  <2> HIDE DEF s, t
  <2>3. set \subseteq t /\ t \subseteq DOMAIN h BY <2>1, <2>2, KidsInside DEF Closed
  <2>4. CASE Closed(h, s)
    <3>1. t = s BY <2>1, <2>4 DEF Closed
    <3> QED BY <2>3, <2>4, <3>1 DEF t
  <2>5. CASE ~Closed(h, s)
    <3>1. s \subseteq t /\ s # t BY <2>1, <2>2, <2>5 DEF Closed
    <3>2. IsFiniteSet(t) BY <2>3, FS_Subset DEF HeapOk
    <3>3. Cardinality(s) \in Nat /\ Cardinality(t) \in Nat /\ Cardinality(s) <= Cardinality(t)
          /\ Cardinality(s) # Cardinality(t)
      BY <3>1, <3>2, FS_Subset, FS_CardinalityType
    <3>4. Cardinality(t) > n + 1 BY <2>2, <2>5, <3>3
    <3> QED BY <2>3, <3>4 DEF t
  <2> QED BY <2>4, <2>5
<1> HIDE DEF T
<1>8. \A n \in Nat : n \in T BY <1>6, <1>7, FromBefore
<1>9. set \subseteq f[card] /\ f[card] \subseteq DOMAIN h /\ (Closed(h, f[card]) \/ Cardinality(f[card]) > card)
  BY <1>0, <1>8 DEF T
<1>10. ~ (Cardinality(f[card]) > card)
  <2>1. Cardinality(f[card]) <= Cardinality(DOMAIN h) BY <1>9, FS_Subset DEF HeapOk
  <2>2. Cardinality(f[card]) \in Nat BY <1>9, FS_Subset, FS_CardinalityType DEF HeapOk
  <2> QED BY <1>0, <2>1, <2>2 DEF card
<1> QED BY <1>2, <1>5, <1>9, <1>10

Acyclic(h, R) == \A d \in R : d \notin J!Below(h, J!Kids(h, d))

\* A value is not within itself if none below it is below its own children.
LEMMA AcyclicIs == ASSUME NEW h, NEW c PROVE ~J!Cyclic(h, c) <=> Acyclic(h, J!Below(h, {c}))
  BY DEF J!Cyclic, Acyclic

\* How many cells there are from a cell on
Rank(h, d) == Cardinality(J!Below(h, {d}))

\* A value is one of them itself.
LEMMA RankIs == ASSUME NEW h, HeapOk(h), NEW d \in DOMAIN h PROVE Rank(h, d) \in Nat /\ Rank(h, d) >= 1
<1> DEFINE s == J!Below(h, {d})
<1>1. d \in s /\ s \subseteq DOMAIN h BY BelowIs, {d} \subseteq DOMAIN h DEF Closed
<1> HIDE DEF s
<1>2. IsFiniteSet(s) BY <1>1, FS_Subset DEF HeapOk
<1>3. Cardinality(s) \in Nat /\ (Cardinality(s) = 0 <=> s = {}) BY <1>2, FS_CardinalityType, FS_EmptySet
<1> QED BY <1>1, <1>3 DEF Rank, s

\* It gets less from a value to its children, if the value is not among its own descendants.
LEMMA RankDown ==
  ASSUME NEW h, HeapOk(h), NEW d \in DOMAIN h, d \notin J!Below(h, J!Kids(h, d)), NEW e \in J!Kids(h, d)
  PROVE  e \in DOMAIN h /\ Rank(h, e) < Rank(h, d) /\ J!Below(h, {e}) \subseteq J!Below(h, {d})
<1> DEFINE kids == J!Kids(h, d)
<1> DEFINE B == J!Below(h, kids)
<1> DEFINE E == J!Below(h, {e})
<1> DEFINE D == J!Below(h, {d})
<1>1. kids \subseteq DOMAIN h /\ e \in DOMAIN h BY KidsInside DEF Closed
<1>2. kids \subseteq B /\ Closed(h, B) BY <1>1, BelowIs
<1>3. {e} \subseteq B BY <1>2
<1>4. E \subseteq B BY <1>1, <1>2, <1>3, BelowIs, {e} \subseteq DOMAIN h
<1>5. d \in D /\ Closed(h, D) BY BelowIs, {d} \subseteq DOMAIN h
<1>6. kids \subseteq D BY <1>5 DEF Closed
<1>7. E \subseteq D BY <1>1, <1>5, <1>6, BelowIs, {e} \subseteq D, {e} \subseteq DOMAIN h
<1>8. d \notin E BY <1>4
<1> HIDE DEF kids, B, E, D
<1>9. E # D BY <1>5, <1>8
<1>10. IsFiniteSet(D) BY <1>5, FS_Subset DEF HeapOk, Closed
<1>11. /\ Cardinality(E) \in Nat /\ Cardinality(D) \in Nat /\ Cardinality(E) <= Cardinality(D)
       /\ Cardinality(E) # Cardinality(D)
  BY <1>7, <1>9, <1>10, FS_Subset, FS_CardinalityType
<1> QED BY <1>1, <1>7, <1>11 DEF Rank, E, D

TreeNode(h, g, d) == [type |-> h[d].type, kids |-> [k \in DOMAIN h[d].kids |-> g[h[d].kids[k]]]]
TreeOf(h, R, g) == [d \in R |-> TreeNode(h, g, d)]
TreeUpTo(h, R, n, g) == \A d \in R : Rank(h, d) < n => g[d] = TreeNode(h, g, d)

\* Tree, by the recursive function it is defined with
LEMMA TreeIs == ASSUME NEW h, NEW c
                PROVE  J!Tree(h, c) = (CHOOSE g : g = TreeOf(h, J!Below(h, {c}), g))[c]
  BY DEF J!Tree, TreeOf, TreeNode

\* A node depends on what its children show.
LEMMA TreeNodeSame ==
  ASSUME NEW h, NEW f, NEW g, NEW d, \A k \in DOMAIN h[d].kids : f[h[d].kids[k]] = g[h[d].kids[k]]
  PROVE  TreeNode(h, f, d) = TreeNode(h, g, d)
  BY DEF TreeNode

\* The recursion of Tree has a solution up to any rank, on cells that are not below their own children.
LEMMA TreesBelow ==
  ASSUME NEW h, HeapOk(h), NEW R, Closed(h, R), Acyclic(h, R)
  PROVE  \A n \in Nat : \E g : TreeUpTo(h, R, n, g)
<1> DEFINE T == {n \in Nat : \E g : TreeUpTo(h, R, n, g)}
<1>0. \A d \in R : d \in DOMAIN h /\ Rank(h, d) \in Nat BY RankIs DEF Closed
<1>1. 0 \in T BY <1>0 DEF TreeUpTo
<1>2. ASSUME NEW n \in Nat, n \in T PROVE n + 1 \in T
  <2>1. PICK g : TreeUpTo(h, R, n, g) BY <1>2
  <2> DEFINE gg == [d \in R |-> IF Rank(h, d) = n THEN TreeNode(h, g, d) ELSE g[d]]
  <2>2. ASSUME NEW d \in R, Rank(h, d) < n + 1 PROVE gg[d] = TreeNode(h, gg, d)
    <3>1. gg[d] = TreeNode(h, g, d) BY <1>0, <2>1, <2>2 DEF TreeUpTo
    <3>2. ASSUME NEW k \in DOMAIN h[d].kids PROVE gg[h[d].kids[k]] = g[h[d].kids[k]]
      <4> DEFINE e == h[d].kids[k]
      <4>1. e \in J!Kids(h, d) BY DEF J!Kids
      <4>2. e \in R BY <4>1 DEF Closed
      <4>3. Rank(h, e) < Rank(h, d) BY <1>0, <4>1, RankDown DEF Acyclic
      <4>4. Rank(h, e) # n BY <1>0, <2>2, <4>2, <4>3
      <4> HIDE DEF e
      <4>5. gg[e] = g[e] BY <4>2, <4>4
      <4> QED BY <4>5 DEF e
    <3> HIDE DEF gg
    <3>3. TreeNode(h, gg, d) = TreeNode(h, g, d) BY <3>2, TreeNodeSame
    <3> QED BY <3>1, <3>3
  <2> HIDE DEF gg
  <2>3. TreeUpTo(h, R, n + 1, gg) BY <2>2 DEF TreeUpTo
  <2> QED BY <2>3
<1> HIDE DEF T
<1>3. \A n \in Nat : n \in T BY <1>1, <1>2, FromBefore
<1> QED BY <1>3 DEF T

\* It has a solution.
LEMMA TreesExist ==
  ASSUME NEW h, HeapOk(h), NEW R, Closed(h, R), Acyclic(h, R)
  PROVE  \E g : g = TreeOf(h, R, g)
<1> DEFINE n == Cardinality(DOMAIN h) + 1
<1>1. n \in Nat /\ \A d \in R : d \in DOMAIN h /\ Rank(h, d) < n
  <2>1. Cardinality(DOMAIN h) \in Nat BY FS_CardinalityType DEF HeapOk
  <2>2. ASSUME NEW d \in R PROVE d \in DOMAIN h /\ Rank(h, d) <= Cardinality(DOMAIN h) /\ Rank(h, d) \in Nat
    <3>1. d \in DOMAIN h BY DEF Closed
    <3>2. J!Below(h, {d}) \subseteq DOMAIN h BY <3>1, BelowIs, {d} \subseteq DOMAIN h DEF Closed
    <3>3. Cardinality(J!Below(h, {d})) <= Cardinality(DOMAIN h) BY <3>2, FS_Subset DEF HeapOk
    <3> QED BY <3>1, <3>3, RankIs DEF Rank
  <2> QED BY <2>1, <2>2
<1> HIDE DEF n
<1>2. PICK f : TreeUpTo(h, R, n, f) BY <1>1, TreesBelow
<1> DEFINE g == [d \in R |-> f[d]]
<1>3. ASSUME NEW d \in R PROVE g[d] = TreeNode(h, g, d)
  <2>1. g[d] = TreeNode(h, f, d) BY <1>1, <1>2 DEF TreeUpTo
  <2>2. \A k \in DOMAIN h[d].kids : g[h[d].kids[k]] = f[h[d].kids[k]]
    <3> TAKE k \in DOMAIN h[d].kids
    <3>1. h[d].kids[k] \in R BY DEF Closed, J!Kids
    <3> QED BY <3>1
  <2> HIDE DEF g
  <2>3. TreeNode(h, g, d) = TreeNode(h, f, d) BY <2>2, TreeNodeSame
  <2> QED BY <2>1, <2>3
<1>4. g = TreeOf(h, R, g)
  <2>1. g = [d \in R |-> g[d]] OBVIOUS
  <2> HIDE DEF g
  <2> QED BY <1>3, <2>1 DEF TreeOf
<1> QED BY <1>4

\* Two heaps that look the same from d and e on: children in the same places, that look the same.
Alike(h1, h2, B) ==
  \A p \in B :
    /\ h1[p[1]].type = h2[p[2]].type
    /\ DOMAIN h1[p[1]].kids = DOMAIN h2[p[2]].kids
    /\ \A k \in DOMAIN h1[p[1]].kids : <<h1[p[1]].kids[k], h2[p[2]].kids[k]>> \in B

\* What looks the same is the same.
LEMMA AlikeSame ==
  ASSUME NEW h1, HeapOk(h1), NEW R1, Closed(h1, R1), Acyclic(h1, R1), NEW g1, g1 = TreeOf(h1, R1, g1),
         NEW h2, NEW R2, NEW g2, g2 = TreeOf(h2, R2, g2),
         NEW B, B \subseteq R1 \X R2, Alike(h1, h2, B)
  PROVE  \A d, e : <<d, e>> \in B => g1[d] = g2[e]
<1> DEFINE T == {n \in Nat : \A d, e : <<d, e>> \in B /\ Rank(h1, d) = n => g1[d] = g2[e]}
<1>0. \A d \in R1 : d \in DOMAIN h1 /\ Rank(h1, d) \in Nat BY RankIs DEF Closed
<1>1. ASSUME NEW n \in Nat, \A m \in Nat : m < n => m \in T PROVE n \in T
  <2> SUFFICES ASSUME NEW d, NEW e, <<d, e>> \in B, Rank(h1, d) = n PROVE g1[d] = g2[e] OBVIOUS
  <2>1. d \in R1 /\ e \in R2 OBVIOUS
  <2>2. g1[d] = TreeNode(h1, g1, d) /\ g2[e] = TreeNode(h2, g2, e) BY <2>1 DEF TreeOf
  <2>3. /\ h1[d].type = h2[e].type
        /\ DOMAIN h1[d].kids = DOMAIN h2[e].kids
        /\ \A k \in DOMAIN h1[d].kids : <<h1[d].kids[k], h2[e].kids[k]>> \in B
    BY DEF Alike
  <2>4. ASSUME NEW k \in DOMAIN h1[d].kids PROVE g1[h1[d].kids[k]] = g2[h2[e].kids[k]]
    <3> DEFINE i == h1[d].kids[k]
    <3> DEFINE j == h2[e].kids[k]
    <3>1. <<i, j>> \in B BY <2>3
    <3>2. i \in J!Kids(h1, d) BY DEF J!Kids
    <3> HIDE DEF i, j
    <3>3. i \in R1 /\ Rank(h1, i) < n /\ Rank(h1, i) \in Nat
      BY <1>0, <2>1, <3>1, <3>2, RankDown DEF Acyclic
    <3>4. g1[i] = g2[j] BY <1>1, <3>1, <3>3
    <3> QED BY <3>4 DEF i, j
  <2> QED BY <2>2, <2>3, <2>4 DEF TreeNode
<1> HIDE DEF T
<1>2. \A n \in Nat : n \in T BY <1>1, FromSmaller
<1>3. ASSUME NEW d, NEW e, <<d, e>> \in B PROVE g1[d] = g2[e]
  <2>1. Rank(h1, d) \in Nat BY <1>0, <1>3
  <2> QED BY <1>2, <1>3, <2>1 DEF T
<1> QED BY <1>3

Agree(h1, h2, R) == \A d \in R : h1[d] = h2[d]

\* What is not changed shows the same, wherever else the heap is.
LEMMA FrameBelow ==
  ASSUME NEW h, HeapOk(h), NEW h2, HeapOk(h2), NEW R, Closed(h, R), R \subseteq DOMAIN h2, Agree(h, h2, R),
         NEW set, set \subseteq R
  PROVE  J!Below(h2, set) = J!Below(h, set) /\ J!Below(h, set) \subseteq R
<1>0. set \subseteq DOMAIN h /\ set \subseteq DOMAIN h2 BY DEF Closed
<1>1. \A d \in R : J!Kids(h2, d) = J!Kids(h, d) BY DEF Agree, J!Kids
<1>2. J!Below(h, set) \subseteq R BY <1>0, BelowIs
<1>3. Closed(h, J!Below(h, set)) /\ set \subseteq J!Below(h, set) BY <1>0, BelowIs
<1>4. Closed(h2, J!Below(h, set)) BY <1>1, <1>2, <1>3 DEF Closed
<1>5. J!Below(h2, set) \subseteq J!Below(h, set) BY <1>0, <1>3, <1>4, BelowIs
<1>6. Closed(h2, J!Below(h2, set)) /\ set \subseteq J!Below(h2, set) BY <1>0, BelowIs
<1>7. Closed(h, J!Below(h2, set)) BY <1>1, <1>2, <1>5, <1>6 DEF Closed
<1>8. J!Below(h, set) \subseteq J!Below(h2, set) BY <1>0, <1>6, <1>7, BelowIs
<1> QED BY <1>2, <1>5, <1>8

\* ... nor is it within itself, if it was not.
LEMMA FrameTree ==
  ASSUME NEW h, HeapOk(h), NEW h2, HeapOk(h2), NEW c \in DOMAIN h,
         J!Below(h, {c}) \subseteq DOMAIN h2, Agree(h, h2, J!Below(h, {c})), ~J!Cyclic(h, c)
  PROVE  /\ J!Below(h2, {c}) = J!Below(h, {c})
         /\ ~J!Cyclic(h2, c) /\ J!Tree(h2, c) = J!Tree(h, c)
<1> DEFINE R == J!Below(h, {c})
<1>1. c \in R /\ Closed(h, R) BY BelowIs, {c} \subseteq DOMAIN h
<1>2. J!Below(h2, {c}) = R BY <1>1, FrameBelow, {c} \subseteq R
<1>3. Acyclic(h, R) BY AcyclicIs
<1>4. Closed(h2, R) BY <1>1 DEF Closed, Agree, J!Kids
<1>5. ASSUME NEW d \in R PROVE d \notin J!Below(h2, J!Kids(h2, d))
  <2>1. J!Kids(h2, d) = J!Kids(h, d) BY DEF Agree, J!Kids
  <2>2. J!Kids(h, d) \subseteq R BY <1>1 DEF Closed
  <2>3. J!Below(h2, J!Kids(h, d)) = J!Below(h, J!Kids(h, d)) BY <1>1, <2>2, FrameBelow
  <2> QED BY <1>3, <2>1, <2>3 DEF Acyclic
<1>6. Acyclic(h2, R) BY <1>5 DEF Acyclic
<1>7. ~J!Cyclic(h2, c) BY <1>2, <1>6, AcyclicIs
<1> DEFINE g == CHOOSE g : g = TreeOf(h, R, g)
<1> DEFINE g2 == CHOOSE f : f = TreeOf(h2, R, f)
<1>8. g = TreeOf(h, R, g) BY <1>1, <1>3, TreesExist
<1>9. g2 = TreeOf(h2, R, g2) BY <1>4, <1>6, TreesExist
<1>10. J!Tree(h, c) = g[c] /\ J!Tree(h2, c) = g2[c] BY <1>2, TreeIs
<1> HIDE DEF g, g2
<1> DEFINE B == {p \in R \X R : p[1] = p[2]}
<1>11. Alike(h, h2, B)
  <2> SUFFICES ASSUME NEW d \in R
               PROVE  /\ h[d].type = h2[d].type /\ DOMAIN h[d].kids = DOMAIN h2[d].kids
                      /\ \A k \in DOMAIN h[d].kids : h[d].kids[k] = h2[d].kids[k] /\ h[d].kids[k] \in R
    <3> SUFFICES ASSUME NEW p \in B
                 PROVE  /\ h[p[1]].type = h2[p[2]].type /\ DOMAIN h[p[1]].kids = DOMAIN h2[p[2]].kids
                        /\ \A k \in DOMAIN h[p[1]].kids : <<h[p[1]].kids[k], h2[p[2]].kids[k]>> \in B
      BY DEF Alike
    <3> DEFINE d == p[1]
    <3>1. d \in R /\ p[2] = d OBVIOUS
    <3>2. /\ h[d].type = h2[d].type /\ DOMAIN h[d].kids = DOMAIN h2[d].kids
          /\ \A k \in DOMAIN h[d].kids : h[d].kids[k] = h2[d].kids[k] /\ h[d].kids[k] \in R
      BY <3>1
    <3>3. \A x \in R : <<x, x>> \in B OBVIOUS
    <3> HIDE DEF B
    <3> QED BY <3>1, <3>2, <3>3
  <2>1. h[d] = h2[d] BY DEF Agree
  <2>2. \A k \in DOMAIN h[d].kids : h[d].kids[k] \in R BY <1>1 DEF Closed, J!Kids
  <2> QED BY <2>1, <2>2
<1>12. <<c, c>> \in B BY <1>1
<1>13. B \subseteq R \X R OBVIOUS
<1> HIDE DEF B, R
<1>14. g[c] = g2[c] BY <1>1, <1>3, <1>8, <1>9, <1>11, <1>12, <1>13, AlikeSame
<1> QED BY <1>2, <1>7, <1>10, <1>14 DEF R

\* The value of x shows t, and nothing but x leads into it.
Apart(h, w, x, t) ==
  /\ ~J!Cyclic(h, w[x]) /\ J!Tree(h, w[x]) = t
  /\ \A y \in Vars : y # x => w[y] \notin J!Below(h, {w[x]})
  /\ \A d \in DOMAIN h : d \notin J!Below(h, {w[x]}) => J!Kids(h, d) \cap J!Below(h, {w[x]}) = {}

JsonState(h, w) == HeapOk(h) /\ w \in [Vars -> DOMAIN h]

JsonInv ==
  /\ JsonState(heap, var) /\ kept = [x \in Vars |-> kept[x]]
  /\ \A x \in Vars : kept[x] # J!Nothing => Apart(heap, var, x, kept[x])

\* It stays so if its cells are not changed, and no other variable and no other value comes to
\* point at one of them.
Unreached(h, w, h2, w2, x) ==
  LET R == J!Below(h, {w[x]}) IN
  /\ R \subseteq DOMAIN h2 /\ Agree(h, h2, R) /\ w2[x] = w[x]
  /\ \A y \in Vars : y # x => w2[y] \notin R
  /\ \A d \in DOMAIN h2 : d \notin R => J!Kids(h2, d) \cap R = {}

\* A kept value is shown in any heap in which it is unreached.
LEMMA ApartStays ==
  ASSUME NEW h, NEW w, JsonState(h, w), NEW h2, HeapOk(h2), NEW w2, NEW x \in Vars, NEW t,
         Apart(h, w, x, t), Unreached(h, w, h2, w2, x)
  PROVE  Apart(h2, w2, x, t)
<1> DEFINE R == J!Below(h, {w[x]})
<1>1. w[x] \in DOMAIN h BY DEF JsonState
<1>2. /\ J!Below(h2, {w[x]}) = R /\ ~J!Cyclic(h2, w[x]) /\ J!Tree(h2, w[x]) = J!Tree(h, w[x])
  BY <1>1, FrameTree DEF JsonState, Apart, Unreached
<1>3. w2[x] = w[x] BY DEF Unreached
<1> QED BY <1>2, <1>3 DEF Apart, Unreached

\* Taking away what no variable leads to
LEMMA CollectedIs ==
  ASSUME NEW h, NEW w, JsonState(h, w)
  PROVE  /\ JsonState(J!Collected(h, w), w)
         /\ DOMAIN J!Collected(h, w) \subseteq DOMAIN h
         /\ \A c \in DOMAIN J!Collected(h, w) : J!Collected(h, w)[c] = h[c]
         /\ \A x \in Vars : J!Below(h, {w[x]}) \subseteq DOMAIN J!Collected(h, w)
<1> DEFINE roots == {w[x] : x \in Vars}
<1> DEFINE D == J!Below(h, roots)
<1> DEFINE h2 == J!Collected(h, w)
<1>1. roots \subseteq DOMAIN h BY DEF JsonState
<1>2. roots \subseteq D /\ Closed(h, D) BY <1>1, BelowIs DEF JsonState
<1>3. h2 = [c \in D |-> h[c]] BY DEF J!Collected
<1>4. DOMAIN h2 = D /\ D \subseteq DOMAIN h /\ \A c \in D : h2[c] = h[c] BY <1>2, <1>3 DEF Closed
<1> HIDE DEF h2
<1>5. IsFiniteSet(D) BY <1>4, FS_Subset DEF JsonState, HeapOk
<1>6. ASSUME NEW c \in D
      PROVE  /\ h2[c] = [type |-> h2[c].type, kids |-> h2[c].kids]
             /\ IsFiniteSet(DOMAIN h2[c].kids)
             /\ \A k \in DOMAIN h2[c].kids : h2[c].kids[k] \in D
             /\ h2[c].type = "array" => h2[c].kids \in Seq(D)
  <2>1. h2[c] = h[c] /\ c \in DOMAIN h BY <1>4
  <2>2. h[c] = [type |-> h[c].type, kids |-> h[c].kids] /\ IsFiniteSet(DOMAIN h[c].kids)
    BY <2>1 DEF JsonState, HeapOk
  <2>3. \A k \in DOMAIN h[c].kids : h[c].kids[k] \in D BY <1>2 DEF Closed, J!Kids
  <2>4. ASSUME h[c].type = "array" PROVE h[c].kids \in Seq(D)
    <3>1. h[c].kids \in Seq(DOMAIN h) BY <2>1, <2>4 DEF JsonState, HeapOk
    <3> QED BY <3>1, <2>3
  <2> QED BY <2>1, <2>2, <2>3, <2>4
<1>7. HeapOk(h2) BY <1>4, <1>5, <1>6 DEF HeapOk
<1>8. \A x \in Vars : w[x] \in D BY <1>2
<1>9. w \in [Vars -> DOMAIN h2] BY <1>4, <1>8 DEF JsonState
<1>10. ASSUME NEW x \in Vars PROVE J!Below(h, {w[x]}) \subseteq D
  <2>1. {w[x]} \subseteq D /\ {w[x]} \subseteq DOMAIN h BY <1>4, <1>8
  <2> QED BY <1>2, <2>1, BelowIs DEF JsonState
<1> QED BY <1>3, <1>4, <1>7, <1>9, <1>10 DEF JsonState, h2

\* What is apart is so after the values nobody points at are gone.
LEMMA ApartCollected ==
  ASSUME NEW h, NEW w, JsonState(h, w), NEW x \in Vars, NEW t, Apart(h, w, x, t)
  PROVE  Apart(J!Collected(h, w), w, x, t)
<1> DEFINE h2 == J!Collected(h, w)
<1> DEFINE R == J!Below(h, {w[x]})
<1>1. /\ JsonState(h2, w) /\ DOMAIN h2 \subseteq DOMAIN h /\ \A c \in DOMAIN h2 : h2[c] = h[c]
      /\ R \subseteq DOMAIN h2
  BY CollectedIs
<1> HIDE DEF h2
<1>2. \A d \in DOMAIN h2 : d \notin R => J!Kids(h2, d) \cap R = {} BY <1>1 DEF Apart, J!Kids
<1>3. Unreached(h, w, h2, w, x) BY <1>1, <1>2 DEF Unreached, Agree, Apart
<1>4. Apart(h2, w, x, t) BY <1>1, <1>3, ApartStays DEF JsonState
<1> QED BY <1>4 DEF h2

\* The invariant in a next state, from what its parts say of that state
LEMMA JsonInvPrimed ==
  ASSUME JsonState(heap', var'), kept' = [x \in Vars |-> kept'[x]],
         \A x \in Vars : kept'[x] # J!Nothing => Apart(heap', var', x, kept'[x])
  PROVE  JsonInv'
<1>1. JsonState(heap, var)' <=> JsonState(heap', var') BY DEF JsonState, HeapOk
<1>2. ASSUME NEW x \in Vars PROVE Apart(heap, var, x, kept[x])' <=> Apart(heap', var', x, kept'[x])
  BY DEF Apart, J!Cyclic, J!Tree, J!Below, J!Kids
<1> QED BY <1>1, <1>2 DEF JsonInv, J!Nothing

\* A step that leaves the kept ones apart before what is not pointed at is gone
LEMMA JsonStep ==
  ASSUME NEW h, NEW w, JsonState(h, w), heap' = J!Collected(h, w), var' = w,
         kept' = [x \in Vars |-> kept'[x]],
         \A x \in Vars : kept'[x] # J!Nothing => Apart(h, w, x, kept'[x])
  PROVE  JsonInv'
<1>1. JsonState(heap', var') BY CollectedIs
<1>2. ASSUME NEW x \in Vars, kept'[x] # J!Nothing PROVE Apart(heap', var', x, kept'[x]) BY <1>2, ApartCollected
<1> QED BY <1>1, <1>2, JsonInvPrimed

\* Steps that change values, make new ones and move variables: those of changed children and
\* moved variables are forgotten.
LEMMA BecomesStep ==
  ASSUME JsonInv, NEW h, NEW w, JsonState(h, w), NEW forget, J!Becomes(h, w, forget),
         \A x \in Vars : x \notin forget /\ kept[x] # J!Nothing => Unreached(heap, var, h, w, x)
  PROVE  JsonInv'
<1>1. /\ heap' = J!Collected(h, w) /\ var' = w
      /\ kept' = [x \in Vars |-> IF x \in forget THEN J!Nothing ELSE kept[x]]
  BY DEF J!Becomes
<1>2. ASSUME NEW x \in Vars, kept'[x] # J!Nothing PROVE Apart(h, w, x, kept'[x])
  <2>1. x \notin forget /\ kept'[x] = kept[x] BY <1>1, <1>2
  <2>2. Apart(heap, var, x, kept[x]) BY <1>2, <2>1 DEF JsonInv
  <2>3. Unreached(heap, var, h, w, x) BY <1>2, <2>1
  <2> QED BY <2>1, <2>2, <2>3, ApartStays DEF JsonInv, JsonState
<1>3. kept' = [x \in Vars |-> kept'[x]] BY <1>1
<1> QED BY <1>1, <1>2, <1>3, JsonStep

\* A value made of others of a heap
ValueOk(D, value) ==
  /\ value = [type |-> value.type, kids |-> value.kids] /\ IsFiniteSet(DOMAIN value.kids)
  /\ \A k \in DOMAIN value.kids : value.kids[k] \in D
  /\ value.type = "array" => value.kids \in Seq(D)

\* A heap with a value put into it is one.
LEMMA PutOk ==
  ASSUME NEW h, HeapOk(h), NEW c, NEW value, ValueOk(DOMAIN h \cup {c}, value)
  PROVE  HeapOk(J!Put(h, c, value)) /\ DOMAIN J!Put(h, c, value) = DOMAIN h \cup {c}
<1> DEFINE h2 == J!Put(h, c, value)
<1> DEFINE D == DOMAIN h \cup {c}
<1>1. DOMAIN h2 = D /\ h2[c] = value /\ \A d \in DOMAIN h : d # c => h2[d] = h[d] BY DEF J!Put
<1> HIDE DEF h2
<1>2. IsFiniteSet(D) BY FS_AddElement DEF HeapOk
<1>3. ASSUME NEW d \in D
      PROVE  /\ h2[d] = [type |-> h2[d].type, kids |-> h2[d].kids]
             /\ IsFiniteSet(DOMAIN h2[d].kids)
             /\ \A k \in DOMAIN h2[d].kids : h2[d].kids[k] \in D
             /\ h2[d].type = "array" => h2[d].kids \in Seq(D)
  <2>1. CASE d = c BY <1>1, <2>1 DEF ValueOk
  <2>2. CASE d # c
    <3>1. d \in DOMAIN h /\ h2[d] = h[d] BY <1>1, <2>2
    <3>2. /\ h[d] = [type |-> h[d].type, kids |-> h[d].kids] /\ IsFiniteSet(DOMAIN h[d].kids)
          /\ \A k \in DOMAIN h[d].kids : h[d].kids[k] \in DOMAIN h
          /\ h[d].type = "array" => h[d].kids \in Seq(DOMAIN h)
      BY <3>1 DEF HeapOk
    <3>3. \A s \in Seq(DOMAIN h) : s \in Seq(D) OBVIOUS
    <3> QED BY <3>1, <3>2, <3>3
  <2> QED BY <2>1, <2>2
<1> QED BY <1>1, <1>2, <1>3 DEF HeapOk, h2

\* A new cell
LEMMA NewIs ==
  ASSUME J!JsonHeapAssumption, NEW h, J!Free(h) # {}
  PROVE  J!New(h) \in J!Free(h) /\ J!New(h) \notin DOMAIN h
<1> DEFINE free == J!Free(h)
<1>1. free \subseteq Nat BY DEF J!JsonHeapAssumption, J!Free
<1> HIDE DEF free
<1>2. \E m \in free : \A n \in free : m <= n BY <1>1, LeastOf DEF free
<1>3. J!New(h) \in free
  <2>1. J!New(h) = CHOOSE m \in free : \A n \in free : m <= n BY DEF J!New, J!Min, free
  <2> QED BY <1>2, <2>1
<1> QED BY <1>3 DEF free, J!Free

\* The cells of a kept value: no other variable points at one, and no value outside.
Of(x) == J!Below(heap, {var[x]})

\* What the invariant says of them
LEMMA OfKept ==
  ASSUME JsonInv, NEW x \in Vars, kept[x] # J!Nothing
  PROVE  /\ Of(x) \subseteq DOMAIN heap /\ var[x] \in Of(x)
         /\ \A y \in Vars : y # x => var[y] \in DOMAIN heap /\ var[y] \notin Of(x)
         /\ \A d \in DOMAIN heap : d \notin Of(x) => \A k \in DOMAIN heap[d].kids : heap[d].kids[k] \notin Of(x)
<1>1. Apart(heap, var, x, kept[x]) BY DEF JsonInv
<1>2. {var[x]} \subseteq DOMAIN heap BY DEF JsonInv, JsonState
<1>3. Of(x) \subseteq DOMAIN heap /\ var[x] \in Of(x) BY <1>2, BelowIs DEF JsonInv, JsonState, Of, Closed
<1> QED BY <1>1, <1>3 DEF Apart, J!Kids, Of, JsonInv, JsonState

\* A kept value stays unreached if cells outside of it get values with children outside of it,
\* and another variable a cell outside.
LEMMA PutUnreached ==
  ASSUME NEW h, NEW w, NEW x \in Vars, NEW R, R = J!Below(heap, {var[x]}),
         Unreached(heap, var, h, w, x), NEW c, c \notin R, NEW value,
         \A k \in DOMAIN value.kids : value.kids[k] \notin R
  PROVE  Unreached(heap, var, J!Put(h, c, value), w, x)
<1> DEFINE h2 == J!Put(h, c, value)
<1>1. DOMAIN h2 = DOMAIN h \cup {c} /\ h2[c] = value /\ \A d \in DOMAIN h : d # c => h2[d] = h[d] BY DEF J!Put
<1> HIDE DEF h2
<1>2. /\ R \subseteq DOMAIN h /\ Agree(heap, h, R) /\ w[x] = var[x]
      /\ \A y \in Vars : y # x => w[y] \notin R
      /\ \A d \in DOMAIN h : d \notin R => J!Kids(h, d) \cap R = {}
  BY DEF Unreached
<1>3. R \subseteq DOMAIN h2 /\ Agree(heap, h2, R)
  <2>1. R \subseteq DOMAIN h2 BY <1>1, <1>2
  <2>2. \A d \in R : h2[d] = h[d] /\ h[d] = heap[d] BY <1>1, <1>2 DEF Agree
  <2> QED BY <2>1, <2>2 DEF Agree
<1>4. ASSUME NEW d \in DOMAIN h2, d \notin R PROVE J!Kids(h2, d) \cap R = {}
  <2>1. CASE d = c BY <1>1, <2>1 DEF J!Kids
  <2>2. CASE d # c
    <3>1. d \in DOMAIN h /\ h2[d] = h[d] BY <1>1, <2>2
    <3>2. J!Kids(h2, d) = J!Kids(h, d) BY <3>1 DEF J!Kids
    <3> QED BY <1>2, <1>4, <3>1, <3>2
  <2> QED BY <2>1, <2>2
<1> QED BY <1>2, <1>3, <1>4 DEF Unreached, h2

\* A kept value stays unreached if other variables move to cells outside of it.
LEMMA MovedUnreached ==
  ASSUME NEW h, NEW w, NEW w2, NEW x \in Vars, Unreached(heap, var, h, w, x),
         w2[x] = w[x], \A y \in Vars : y # x => w2[y] = w[y] \/ w2[y] \notin J!Below(heap, {var[x]})
  PROVE  Unreached(heap, var, h, w2, x)
  BY DEF Unreached

\* To begin with it is unreached.
LEMMA StillUnreached ==
  ASSUME JsonInv, NEW x \in Vars, kept[x] # J!Nothing
  PROVE  Unreached(heap, var, heap, var, x)
<1>1. Apart(heap, var, x, kept[x]) BY DEF JsonInv
<1>2. Of(x) \subseteq DOMAIN heap BY OfKept
<1> QED BY <1>1, <1>2 DEF Unreached, Apart, Agree, Of

\* x = json(new ...): nobody points at the new cell.
LEMMA MakeStep ==
  ASSUME J!JsonHeapAssumption, JsonInv, NEW x \in Vars, NEW type, J!Make(x, J!Value(type))
  PROVE  JsonInv'
<1> DEFINE n == J!New(heap)
<1> DEFINE value == J!Value(type)
<1> DEFINE h == J!Put(heap, n, value)
<1> DEFINE w == [var EXCEPT ![x] = n]
<1>1. n \notin DOMAIN heap /\ J!Becomes(h, w, {x}) BY NewIs DEF J!Make
<1>2. ValueOk(DOMAIN heap \cup {n}, value)
  <2>1. DOMAIN value.kids = {} BY DEF J!Value
  <2> QED BY <2>1, FS_EmptySet DEF ValueOk, J!Value
<1>3. JsonState(h, w)
  <2>1. HeapOk(h) /\ DOMAIN h = DOMAIN heap \cup {n} BY <1>2, PutOk DEF JsonInv, JsonState
  <2>2. var \in [Vars -> DOMAIN heap] BY DEF JsonInv, JsonState
  <2> HIDE DEF h, n
  <2>3. w \in [Vars -> DOMAIN heap \cup {n}] BY <2>2
  <2> QED BY <2>1, <2>3 DEF JsonState
<1>4. ASSUME NEW z \in Vars, z \notin {x}, kept[z] # J!Nothing PROVE Unreached(heap, var, h, w, z)
  <2>1. n \notin Of(z) BY <1>1, <1>4, OfKept
  <2>2. Unreached(heap, var, heap, var, z) BY <1>4, StillUnreached
  <2>3. \A k \in DOMAIN value.kids : value.kids[k] \notin Of(z) BY DEF J!Value
  <2> HIDE DEF n, value
  <2>4. Unreached(heap, var, J!Put(heap, n, value), var, z) BY <2>1, <2>2, <2>3, PutUnreached DEF Of
  <2>5. w[z] = var[z] /\ \A y \in Vars : y # z => w[y] = var[y] \/ w[y] \notin J!Below(heap, {var[z]})
    BY <2>1, <1>4 DEF Of, JsonInv, JsonState
  <2> HIDE DEF w
  <2> QED BY <2>4, <2>5, MovedUnreached
<1> HIDE DEF h, w
<1> QED BY <1>1, <1>3, <1>4, BecomesStep

\* x = y: two variables that count no more
LEMMA AssignStep ==
  ASSUME JsonInv, NEW x \in Vars, NEW y \in Vars, J!Assign(x, y)
  PROVE  JsonInv'
<1> DEFINE w == [var EXCEPT ![x] = var[y]]
<1>1. J!Becomes(heap, w, {x, y}) BY DEF J!Assign
<1>2. JsonState(heap, w) BY DEF JsonInv, JsonState
<1>3. ASSUME NEW z \in Vars, z \notin {x, y}, kept[z] # J!Nothing PROVE Unreached(heap, var, heap, w, z)
  <2>1. var[y] \notin Of(z) BY <1>3, OfKept
  <2>2. Unreached(heap, var, heap, var, z) BY <1>3, StillUnreached
  <2>3. w[z] = var[z] /\ \A u \in Vars : u # z => w[u] = var[u] \/ w[u] \notin J!Below(heap, {var[z]})
    BY <2>1, <1>3 DEF Of, JsonInv, JsonState
  <2> HIDE DEF w
  <2> QED BY <2>2, <2>3, MovedUnreached
<1> HIDE DEF w
<1> QED BY <1>1, <1>2, <1>3, BecomesStep

\* A child comes into a value that is not kept.
LEMMA LinkedStep ==
  ASSUME JsonInv, NEW x \in Vars, NEW y \in Vars, NEW c \in DOMAIN heap, NEW kids,
         IsFiniteSet(DOMAIN kids), \A k \in DOMAIN kids : kids[k] \in DOMAIN heap,
         heap[c].type = "array" => kids \in Seq(DOMAIN heap),
         J!Becomes(J!Put(heap, c, [heap[c] EXCEPT !.kids = kids]), var, {x, y}),
         \A z \in Vars : z \notin {x, y} /\ kept[z] # J!Nothing =>
           c \notin Of(z) /\ \A k \in DOMAIN kids : kids[k] \notin Of(z)
  PROVE  JsonInv'
<1> DEFINE value == [heap[c] EXCEPT !.kids = kids]
<1> DEFINE h == J!Put(heap, c, value)
<1>1. HeapOk(heap) /\ heap[c] = [type |-> heap[c].type, kids |-> heap[c].kids]
  BY DEF JsonInv, JsonState, HeapOk
<1>2. value = [type |-> heap[c].type, kids |-> kids] BY <1>1
<1>3. value.type = heap[c].type /\ value.kids = kids BY <1>2
<1>4. ValueOk(DOMAIN heap \cup {c}, value)
  <2>1. DOMAIN heap \cup {c} = DOMAIN heap OBVIOUS
  <2> HIDE DEF value
  <2> QED BY <1>2, <1>3, <2>1 DEF ValueOk
<1> HIDE DEF value
<1>a. DOMAIN heap \cup {c} = DOMAIN heap OBVIOUS
<1>b. HeapOk(h) /\ DOMAIN h = DOMAIN heap \cup {c} BY <1>1, <1>4, PutOk
<1>5. HeapOk(h) /\ DOMAIN h = DOMAIN heap BY <1>a, <1>b
<1>6. JsonState(h, var) BY <1>5 DEF JsonInv, JsonState
<1>7. ASSUME NEW z \in Vars, z \notin {x, y}, kept[z] # J!Nothing PROVE Unreached(heap, var, h, var, z)
  <2>1. Unreached(heap, var, heap, var, z) BY <1>7, StillUnreached
  <2> QED BY <1>3, <1>7, <2>1, PutUnreached DEF Of
<1>8. J!Becomes(h, var, {x, y}) BY DEF value
<1> HIDE DEF h
<1> QED BY <1>6, <1>7, <1>8, BecomesStep

\* x.add(name, y)
LEMMA LinkStep ==
  ASSUME JsonInv, NEW x \in Vars, NEW y \in Vars, NEW name, J!Link(x, name, y)
  PROVE  JsonInv'
<1> DEFINE c == var[x]
<1> DEFINE kids == J!Put(heap[c].kids, name, var[y])
<1>1. c \in DOMAIN heap /\ var[y] \in DOMAIN heap /\ heap[c].type = "object"
  BY DEF JsonInv, JsonState, J!Link
<1>2. /\ \A k \in DOMAIN heap[c].kids : heap[c].kids[k] \in DOMAIN heap
      /\ IsFiniteSet(DOMAIN heap[c].kids)
  BY <1>1 DEF JsonInv, JsonState, HeapOk
<1>a. IsFiniteSet(DOMAIN kids)
  <2>1. DOMAIN kids = DOMAIN heap[c].kids \cup {name} BY DEF J!Put
  <2> HIDE DEF kids
  <2> QED BY <1>2, <2>1, FS_AddElement
<1>3. \A k \in DOMAIN kids : kids[k] \in DOMAIN heap BY <1>1, <1>2 DEF J!Put
<1>4. J!Becomes(J!Put(heap, c, [heap[c] EXCEPT !.kids = kids]), var, {x, y}) BY DEF J!Link
<1>5. ASSUME NEW z \in Vars, z \notin {x, y}, kept[z] # J!Nothing
      PROVE  c \notin Of(z) /\ \A k \in DOMAIN kids : kids[k] \notin Of(z)
  <2>1. c \notin Of(z) /\ var[y] \notin Of(z) BY <1>5, OfKept
  <2>2. \A k \in DOMAIN heap[c].kids : heap[c].kids[k] \notin Of(z) BY <1>1, <1>5, <2>1, OfKept
  <2> QED BY <2>1, <2>2 DEF J!Put
<1> HIDE DEF kids, c
<1>6. heap[c].type = "array" => kids \in Seq(DOMAIN heap) BY <1>1
<1> QED BY <1>1, <1>3, <1>4, <1>5, <1>6, <1>a, LinkedStep

\* x.add(y)
LEMMA AppendStep ==
  ASSUME JsonInv, NEW x \in Vars, NEW y \in Vars, J!Append_(x, y)
  PROVE  JsonInv'
<1> DEFINE c == var[x]
<1> DEFINE old == heap[c].kids
<1> DEFINE kids == Append(old, var[y])
<1>1. c \in DOMAIN heap /\ var[y] \in DOMAIN heap /\ heap[c].type = "array"
  BY DEF JsonInv, JsonState, J!Append_
<1>2. old \in Seq(DOMAIN heap) BY <1>1 DEF JsonInv, JsonState, HeapOk
<1> HIDE DEF old, c
<1>3. kids \in Seq(DOMAIN heap) BY <1>1, <1>2
<1>4. \A k \in DOMAIN kids : kids[k] \in DOMAIN heap BY <1>3
<1>a. IsFiniteSet(DOMAIN kids)
  <2>1. DOMAIN kids = 1..Len(kids) /\ Len(kids) \in Int BY <1>3
  <2> HIDE DEF kids
  <2> QED BY <2>1, FS_Interval
<1>5. J!Becomes(J!Put(heap, c, [heap[c] EXCEPT !.kids = kids]), var, {x, y}) BY DEF J!Append_, old, c
<1>6. ASSUME NEW z \in Vars, z \notin {x, y}, kept[z] # J!Nothing
      PROVE  c \notin Of(z) /\ \A k \in DOMAIN kids : kids[k] \notin Of(z)
  <2>1. c \notin Of(z) /\ var[y] \notin Of(z) BY <1>6, OfKept DEF c
  <2>2. \A k \in DOMAIN old : old[k] \notin Of(z) BY <1>1, <1>6, <2>1, OfKept DEF old
  <2>3. \A k \in DOMAIN kids : kids[k] = var[y] \/ (k \in DOMAIN old /\ kids[k] = old[k]) BY <1>2
  <2> QED BY <2>1, <2>2, <2>3
<1> HIDE DEF kids
<1> QED BY <1>1, <1>3, <1>4, <1>5, <1>6, <1>a, LinkedStep

\* y = x[at]
LEMMA FetchStep ==
  ASSUME JsonInv, NEW x \in Vars, NEW y \in Vars, NEW at, J!Fetch(x, at, y)
  PROVE  JsonInv'
<1> DEFINE c == heap[var[x]].kids[at]
<1> DEFINE w == [var EXCEPT ![y] = c]
<1>1. J!Becomes(heap, w, {x, y}) /\ at \in DOMAIN heap[var[x]].kids BY DEF J!Fetch
<1>2. var[x] \in DOMAIN heap BY DEF JsonInv, JsonState
<1>3. c \in DOMAIN heap BY <1>1, <1>2 DEF JsonInv, JsonState, HeapOk
<1>4. JsonState(heap, w) BY <1>3 DEF JsonInv, JsonState
<1>5. ASSUME NEW z \in Vars, z \notin {x, y}, kept[z] # J!Nothing PROVE Unreached(heap, var, heap, w, z)
  <2>1. c \notin Of(z) BY <1>1, <1>2, <1>5, OfKept
  <2>2. Unreached(heap, var, heap, var, z) BY <1>5, StillUnreached
  <2> HIDE DEF c
  <2>3. w[z] = var[z] /\ \A u \in Vars : u # z => w[u] = var[u] \/ w[u] \notin J!Below(heap, {var[z]})
    BY <2>1, <1>5 DEF Of, JsonInv, JsonState
  <2> HIDE DEF w
  <2> QED BY <2>2, <2>3, MovedUnreached
<1> HIDE DEF w
<1> QED BY <1>1, <1>4, <1>5, BecomesStep

\* x[at][name] = y
LEMMA LinkBelowStep ==
  ASSUME JsonInv, NEW x \in Vars, NEW y \in Vars, NEW at, NEW name, J!LinkBelow(x, at, name, y)
  PROVE  JsonInv'
<1> DEFINE c == heap[var[x]].kids[at]
<1> DEFINE kids == J!Put(heap[c].kids, name, var[y])
<1>1. var[x] \in DOMAIN heap /\ var[y] \in DOMAIN heap /\ heap[c].type = "object"
      /\ at \in DOMAIN heap[var[x]].kids
  BY DEF JsonInv, JsonState, J!LinkBelow
<1>2. c \in DOMAIN heap BY <1>1 DEF JsonInv, JsonState, HeapOk
<1>3. \A z \in Vars : z \notin {x, y} /\ kept[z] # J!Nothing => c \notin Of(z)
  BY <1>1, OfKept
<1>4. J!Becomes(J!Put(heap, c, [heap[c] EXCEPT !.kids = kids]), var, {x, y}) BY DEF J!LinkBelow
<1> HIDE DEF c
<1>5. /\ \A k \in DOMAIN heap[c].kids : heap[c].kids[k] \in DOMAIN heap
      /\ IsFiniteSet(DOMAIN heap[c].kids)
  BY <1>2 DEF JsonInv, JsonState, HeapOk
<1>a. IsFiniteSet(DOMAIN kids)
  <2>1. DOMAIN kids = DOMAIN heap[c].kids \cup {name} BY DEF J!Put
  <2> HIDE DEF kids
  <2> QED BY <1>5, <2>1, FS_AddElement
<1>6. \A k \in DOMAIN kids : kids[k] \in DOMAIN heap BY <1>1, <1>5 DEF J!Put
<1>7. ASSUME NEW z \in Vars, z \notin {x, y}, kept[z] # J!Nothing
      PROVE  c \notin Of(z) /\ \A k \in DOMAIN kids : kids[k] \notin Of(z)
  <2>1. c \notin Of(z) /\ var[y] \notin Of(z) BY <1>3, <1>7, OfKept
  <2>2. \A k \in DOMAIN heap[c].kids : heap[c].kids[k] \notin Of(z) BY <1>2, <1>7, <2>1, OfKept
  <2> QED BY <2>1, <2>2 DEF J!Put
<1> HIDE DEF kids
<1>8. heap[c].type = "array" => kids \in Seq(DOMAIN heap) BY <1>1
<1> QED BY <1>2, <1>4, <1>6, <1>7, <1>8, <1>a, LinkedStep

\* x[name] that puts a null in
LEMMA LookStep ==
  ASSUME J!JsonHeapAssumption, JsonInv, NEW x \in Vars, NEW name, J!Look(x, name)
  PROVE  JsonInv'
<1> DEFINE c == var[x]
<1> DEFINE n == J!New(heap)
<1> DEFINE h1 == J!Put(heap, n, J!Null)
<1> DEFINE kids == J!Put(heap[c].kids, name, n)
<1> DEFINE value == [heap[c] EXCEPT !.kids = kids]
<1> DEFINE h == J!Put(h1, c, value)
<1>1. J!Free(heap) # {} /\ heap[c].type = "object" /\ J!Becomes(h, var, {x}) BY DEF J!Look
<1>2. n \notin DOMAIN heap BY <1>1, NewIs
<1>3. c \in DOMAIN heap /\ var \in [Vars -> DOMAIN heap] BY DEF JsonInv, JsonState
<1>4. /\ heap[c] = [type |-> heap[c].type, kids |-> heap[c].kids] /\ IsFiniteSet(DOMAIN heap[c].kids)
      /\ \A k \in DOMAIN heap[c].kids : heap[c].kids[k] \in DOMAIN heap
  BY <1>3 DEF JsonInv, JsonState, HeapOk
<1>5. HeapOk(h1) /\ DOMAIN h1 = DOMAIN heap \cup {n}
  <2>1. J!Null = [type |-> "null", kids |-> <<>>] /\ DOMAIN J!Null.kids = {} BY DEF J!Null, J!Value
  <2>2. ValueOk(DOMAIN heap \cup {n}, J!Null) BY <2>1, FS_EmptySet DEF ValueOk
  <2> HIDE DEF n
  <2> QED BY <2>2, PutOk DEF JsonInv, JsonState
<1> HIDE DEF n, h1, c
<1>6. DOMAIN kids = DOMAIN heap[c].kids \cup {name}
      /\ \A k \in DOMAIN kids : kids[k] = n \/ (k \in DOMAIN heap[c].kids /\ kids[k] = heap[c].kids[k])
  BY DEF J!Put
<1> HIDE DEF kids
<1>7. value = [type |-> "object", kids |-> kids] BY <1>1, <1>4
<1>8. IsFiniteSet(DOMAIN kids) BY <1>4, <1>6, FS_AddElement
<1>9. DOMAIN h1 \cup {c} = DOMAIN h1 BY <1>3, <1>5
<1>10. ValueOk(DOMAIN h1 \cup {c}, value)
  <2>1. \A k \in DOMAIN kids : kids[k] \in DOMAIN h1 BY <1>4, <1>5, <1>6
  <2> HIDE DEF value
  <2> QED BY <1>7, <1>8, <1>9, <2>1 DEF ValueOk
<1> HIDE DEF value
<1>11. HeapOk(h) /\ DOMAIN h = DOMAIN h1 \cup {c} BY <1>5, <1>10, PutOk
<1>12. JsonState(h, var) BY <1>3, <1>5, <1>11 DEF JsonState
<1>13. ASSUME NEW z \in Vars, z \notin {x}, kept[z] # J!Nothing PROVE Unreached(heap, var, h, var, z)
  <2>1. Unreached(heap, var, heap, var, z) BY <1>13, StillUnreached
  <2>2. n \notin Of(z) /\ c \notin Of(z) BY <1>2, <1>13, OfKept DEF c
  <2>3. \A k \in DOMAIN heap[c].kids : heap[c].kids[k] \notin Of(z) BY <1>3, <1>13, <2>2, OfKept
  <2>4. DOMAIN J!Null.kids = {} BY DEF J!Null, J!Value
  <2>5. Unreached(heap, var, h1, var, z) BY <2>1, <2>2, <2>4, PutUnreached DEF Of, h1
  <2>6. value.kids = kids BY <1>7
  <2>7. \A k \in DOMAIN value.kids : value.kids[k] \notin Of(z) BY <1>6, <2>2, <2>3, <2>6
  <2> QED BY <2>2, <2>5, <2>7, PutUnreached DEF Of
<1>14. J!Becomes(h, var, {x}) BY <1>1
<1> HIDE DEF h
<1> QED BY <1>12, <1>13, <1>14, BecomesStep

\* merge(): the new object has children that those of x and y have.
LEMMA MergeStep ==
  ASSUME J!JsonHeapAssumption, JsonInv, NEW to \in Vars, NEW x \in Vars, NEW y \in Vars, J!Merge(to, x, y)
  PROVE  JsonInv'
<1> DEFINE n == J!New(heap)
<1> DEFINE a == heap[var[y]].kids
<1> DEFINE b == heap[var[x]].kids
<1> DEFINE kids == J!Over(a, b)
<1> DEFINE value == [type |-> "object", kids |-> kids]
<1> DEFINE h == J!Put(heap, n, value)
<1> DEFINE w == [var EXCEPT ![to] = n]
<1>1. J!Free(heap) # {} /\ J!Becomes(h, w, {to, x, y}) BY DEF J!Merge
<1>2. n \notin DOMAIN heap BY <1>1, NewIs
<1>3. var[x] \in DOMAIN heap /\ var[y] \in DOMAIN heap /\ var \in [Vars -> DOMAIN heap] BY DEF JsonInv, JsonState
<1>4. /\ IsFiniteSet(DOMAIN a) /\ \A k \in DOMAIN a : a[k] \in DOMAIN heap
      /\ IsFiniteSet(DOMAIN b) /\ \A k \in DOMAIN b : b[k] \in DOMAIN heap
  BY <1>3 DEF JsonInv, JsonState, HeapOk
<1>5. ASSUME NEW z \in Vars, z \notin {to, x, y}, kept[z] # J!Nothing
      PROVE  n \notin Of(z) /\ (\A k \in DOMAIN a : a[k] \notin Of(z)) /\ \A k \in DOMAIN b : b[k] \notin Of(z)
  <2>1. var[x] \notin Of(z) /\ var[y] \notin Of(z) /\ Of(z) \subseteq DOMAIN heap BY <1>5, OfKept
  <2> QED BY <1>2, <1>3, <1>5, <2>1, OfKept
<1> HIDE DEF n, a, b
<1>6. DOMAIN kids = DOMAIN a \cup DOMAIN b
      /\ \A k \in DOMAIN kids : (k \in DOMAIN a /\ kids[k] = a[k]) \/ (k \in DOMAIN b /\ kids[k] = b[k])
  BY DEF J!Over
<1> HIDE DEF kids
<1>7. ValueOk(DOMAIN heap \cup {n}, value)
  <2>1. value.kids = kids /\ value.type = "object" OBVIOUS
  <2>2. IsFiniteSet(DOMAIN kids) BY <1>4, <1>6, FS_Union
  <2> QED BY <1>4, <1>6, <2>1, <2>2 DEF ValueOk
<1>8. value.kids = kids OBVIOUS
<1> HIDE DEF value
<1>9. JsonState(h, w)
  <2>1. HeapOk(h) /\ DOMAIN h = DOMAIN heap \cup {n} BY <1>7, PutOk DEF JsonInv, JsonState
  <2>2. w \in [Vars -> DOMAIN heap \cup {n}] BY <1>3
  <2> HIDE DEF h, w
  <2> QED BY <2>1, <2>2 DEF JsonState
<1>10. ASSUME NEW z \in Vars, z \notin {to, x, y}, kept[z] # J!Nothing PROVE Unreached(heap, var, h, w, z)
  <2>1. n \notin Of(z) /\ \A k \in DOMAIN value.kids : value.kids[k] \notin Of(z) BY <1>5, <1>6, <1>8, <1>10
  <2>2. Unreached(heap, var, heap, var, z) BY <1>10, StillUnreached
  <2>3. Unreached(heap, var, J!Put(heap, n, value), var, z) BY <2>1, <2>2, PutUnreached DEF Of
  <2>4. w[z] = var[z] /\ \A u \in Vars : u # z => w[u] = var[u] \/ w[u] \notin J!Below(heap, {var[z]})
    BY <1>3, <2>1, <1>10 DEF Of
  <2> HIDE DEF w
  <2> QED BY <2>3, <2>4, MovedUnreached
<1> HIDE DEF h, w
<1> QED BY <1>1, <1>9, <1>10, BecomesStep

\* The values within another: a way and the cell it leads to, and where one more step leads
Child(h, w, k) == <<Append(w[1], k), h[w[2]].kids[k]>>
Children(h, w) == {Child(h, w, k) : k \in DOMAIN h[w[2]].kids}
Farther(h, s) == UNION {Children(h, w) : w \in s}
LevelOf(h, c, f) == [n \in Nat |-> IF n = 0 THEN {<<<<>>, c>>} ELSE Farther(h, f[n - 1])]

Places(h) == UNION {DOMAIN h[d].kids : d \in DOMAIN h}
Ways(h) == Seq(Places(h)) \X DOMAIN h

\* A step from a way is a way.
LEMMA ChildrenAre ==
  ASSUME NEW h, HeapOk(h), NEW w \in Ways(h)
  PROVE  Children(h, w) \subseteq Ways(h)
<1> SUFFICES ASSUME NEW k \in DOMAIN h[w[2]].kids PROVE Child(h, w, k) \in Ways(h) BY DEF Children
<1>1. w[1] \in Seq(Places(h)) /\ w[2] \in DOMAIN h BY DEF Ways
<1>2. k \in Places(h) BY <1>1 DEF Places
<1>3. h[w[2]].kids[k] \in DOMAIN h BY <1>1 DEF HeapOk
<1>4. Append(w[1], k) \in Seq(Places(h)) BY <1>1, <1>2
<1> QED BY <1>3, <1>4 DEF Child, Ways

\* The ways of every length
LEMMA LevelsExist ==
  ASSUME NEW h, HeapOk(h), NEW c \in DOMAIN h
  PROVE  \E f : f = LevelOf(h, c, f) /\ \A n \in Nat : f[n] \subseteq Ways(h)
<1> DEFINE next == [s \in SUBSET Ways(h) |-> Farther(h, s)]
<1> DEFINE first == {<<<<>>, c>>}
<1>1. PICK f : f = RecOf(first, next, f) BY Recursion
<1>2. first \subseteq Ways(h)
  <2>1. <<>> \in Seq(Places(h)) OBVIOUS
  <2>2. <<<<>>, c>> \in Ways(h) BY <2>1 DEF Ways
  <2> QED BY <2>2
<1>3. \A s \in SUBSET Ways(h) : next[s] = Farther(h, s) /\ Farther(h, s) \subseteq Ways(h)
  BY ChildrenAre DEF Farther
<1> HIDE DEF next, first
<1>4. f[0] = first BY <1>1 DEF RecOf
<1>5. \A n \in Nat : f[n + 1] = next[f[n]]
  <2> TAKE n \in Nat
  <2>1. n + 1 \in Nat /\ n + 1 # 0 /\ (n + 1) - 1 = n OBVIOUS
  <2> QED BY <2>1, <1>1 DEF RecOf
<1> DEFINE T == {n \in Nat : f[n] \subseteq Ways(h)}
<1>6. 0 \in T BY <1>2, <1>4
<1>7. ASSUME NEW n \in Nat, n \in T PROVE n + 1 \in T BY <1>3, <1>5, <1>7
<1> HIDE DEF T
<1>8. \A n \in Nat : n \in T BY <1>6, <1>7, FromBefore
<1>9. \A n \in Nat : f[n] \subseteq Ways(h) BY <1>8 DEF T
<1>10. ASSUME NEW n \in Nat PROVE f[n] = LevelOf(h, c, f)[n]
  <2>1. CASE n = 0 BY <1>4, <2>1 DEF LevelOf, first
  <2>2. CASE n # 0
    <3>1. n - 1 \in Nat /\ (n - 1) + 1 = n BY <2>2
    <3>2. f[n] = next[f[n - 1]] BY <1>5, <3>1
    <3>3. f[n] = Farther(h, f[n - 1]) BY <1>3, <1>9, <3>1, <3>2
    <3> QED BY <2>2, <3>3 DEF LevelOf
  <2> QED BY <2>1, <2>2
<1>11. f = [n \in Nat |-> f[n]] BY <1>1 DEF RecOf
<1>12. f = LevelOf(h, c, f) BY <1>10, <1>11 DEF LevelOf
<1> QED BY <1>9, <1>12

\* A value has finitely many children.
LEMMA ChildrenFinite ==
  ASSUME NEW h, HeapOk(h), NEW w \in Ways(h)
  PROVE  IsFiniteSet(Children(h, w))
<1> DEFINE D == DOMAIN h[w[2]].kids
<1> DEFINE f == [k \in D |-> Child(h, w, k)]
<1>1. IsFiniteSet(D) BY DEF HeapOk, Ways
<1>2. Children(h, w) = {f[k] : k \in D} BY DEF Children
<1> HIDE DEF D
<1>3. f \in Surjection(D, Children(h, w)) BY <1>2 DEF Surjection
<1> HIDE DEF f
<1> QED BY <1>1, <1>3, FS_Surjection

\* Finitely many ways have finitely many one step longer.
LEMMA FartherFinite ==
  ASSUME NEW h, HeapOk(h), NEW s, s \subseteq Ways(h), IsFiniteSet(s)
  PROVE  IsFiniteSet(Farther(h, s))
<1> DEFINE f == [w \in s |-> Children(h, w)]
<1> DEFINE sets == {Children(h, w) : w \in s}
<1>1. f \in Surjection(s, sets) BY DEF Surjection
<1>2. \A t \in sets : IsFiniteSet(t) BY ChildrenFinite
<1>a. Farther(h, s) = UNION sets BY DEF Farther
<1> HIDE DEF f, sets
<1>3. IsFiniteSet(sets) BY <1>1, FS_Surjection
<1> QED BY <1>2, <1>3, <1>a, FS_UNION

\* The ways that Within collects: the one that goes nowhere, each with all its steps, and of
\* a value that is not within itself finitely many.
LEMMA WithinIs ==
  ASSUME NEW h, HeapOk(h), NEW c \in DOMAIN h, ~J!Cyclic(h, c)
  PROVE  /\ <<<<>>, c>> \in J!Within(h, c) /\ J!Within(h, c) \subseteq Ways(h)
         /\ IsFiniteSet(J!Within(h, c))
         /\ \A w \in J!Within(h, c) : Children(h, w) \subseteq J!Within(h, c)
         /\ \A w \in J!Within(h, c) : w[2] \in J!Below(h, {c})
         /\ \A Y : <<<<>>, c>> \in Y /\ (\A w \in Y : Children(h, w) \subseteq Y) => J!Within(h, c) \subseteq Y
<1> DEFINE f == CHOOSE f : f = LevelOf(h, c, f)
<1> DEFINE card == Cardinality(DOMAIN h)
<1> DEFINE B == J!Below(h, {c})
<1> DEFINE W == J!Within(h, c)
<1>1. card \in Nat BY FS_CardinalityType DEF HeapOk
<1>2. f = LevelOf(h, c, f) /\ \A n \in Nat : f[n] \subseteq Ways(h)
  <2>1. PICK g : g = LevelOf(h, c, g) /\ \A n \in Nat : g[n] \subseteq Ways(h) BY LevelsExist
  <2>2. f = LevelOf(h, c, f) BY <2>1
  <2> HIDE DEF f
  <2> DEFINE T == {n \in Nat : f[n] = g[n]}
  <2>3. 0 \in T BY <2>1, <2>2 DEF LevelOf
  <2>4. ASSUME NEW n \in Nat, n \in T PROVE n + 1 \in T
    <3>1. n + 1 \in Nat /\ n + 1 # 0 /\ (n + 1) - 1 = n OBVIOUS
    <3>2. f[n + 1] = Farther(h, f[n]) /\ g[n + 1] = Farther(h, g[n]) BY <2>1, <2>2, <3>1 DEF LevelOf
    <3> QED BY <2>4, <3>2
  <2> HIDE DEF T
  <2>5. \A n \in Nat : n \in T BY <2>3, <2>4, FromBefore
  <2>6. \A n \in Nat : f[n] = g[n] BY <2>5 DEF T
  <2> QED BY <2>1, <2>2, <2>6
<1>3. W = UNION {f[n] : n \in 0..card} BY HeapCard DEF J!Within, LevelOf, Farther, Children, Child
<1> HIDE DEF f, W, card
<1>4. f[0] = {<<<<>>, c>>} BY <1>2 DEF LevelOf
<1>5. \A n \in Nat : f[n + 1] = Farther(h, f[n])
  <2> TAKE n \in Nat
  <2>1. n + 1 \in Nat /\ n + 1 # 0 /\ (n + 1) - 1 = n OBVIOUS
  <2> QED BY <2>1, <1>2 DEF LevelOf
<1>6. c \in B /\ Closed(h, B) /\ Acyclic(h, B) BY BelowIs, AcyclicIs, {c} \subseteq DOMAIN h
<1>7. \A d \in B : d \in DOMAIN h /\ Rank(h, d) \in Nat /\ Rank(h, d) >= 1 BY <1>6, RankIs DEF Closed
<1>8. Rank(h, c) <= card
  <2>1. B \subseteq DOMAIN h BY <1>6 DEF Closed
  <2> QED BY <2>1, FS_Subset DEF HeapOk, card, Rank
<1> HIDE DEF B
\* A longer way leads to fewer values.
<1> DEFINE T == {n \in Nat : /\ IsFiniteSet(f[n])
                             /\ \A w \in f[n] : w[2] \in B /\ Rank(h, w[2]) + n <= Rank(h, c)}
<1>9. 0 \in T
  <2>1. IsFiniteSet(f[0]) BY <1>4, FS_Singleton
  <2>2. \A w \in f[0] : w[2] = c BY <1>4
  <2>3. \A w \in f[0] : w[2] \in B /\ Rank(h, w[2]) + 0 <= Rank(h, c) BY <1>6, <1>7, <2>2
  <2> QED BY <2>1, <2>3
<1>10. ASSUME NEW n \in Nat, n \in T PROVE n + 1 \in T
  <2>1. IsFiniteSet(f[n + 1]) BY <1>2, <1>5, <1>10, FartherFinite
  <2>2. ASSUME NEW u \in f[n + 1] PROVE u[2] \in B /\ Rank(h, u[2]) + (n + 1) <= Rank(h, c)
    <3>1. PICK w \in f[n] : u \in Children(h, w) BY <1>5, <2>2 DEF Farther
    <3>2. PICK k \in DOMAIN h[w[2]].kids : u[2] = h[w[2]].kids[k] BY <3>1 DEF Children, Child
    <3>3. w[2] \in B /\ Rank(h, w[2]) + n <= Rank(h, c) BY <1>10
    <3>4. u[2] \in J!Kids(h, w[2]) BY <3>2 DEF J!Kids
    <3>5. u[2] \in B BY <1>6, <3>3, <3>4 DEF Closed
    <3>6. Rank(h, u[2]) < Rank(h, w[2]) BY <1>6, <1>7, <3>3, <3>4, RankDown DEF Acyclic
    <3> QED BY <1>6, <1>7, <3>3, <3>5, <3>6
  <2> QED BY <2>1, <2>2
<1> HIDE DEF T
<1>11. \A n \in Nat : n \in T BY <1>9, <1>10, FromBefore
<1>12. \A n \in Nat : IsFiniteSet(f[n]) /\ \A w \in f[n] : w[2] \in B /\ Rank(h, w[2]) + n <= Rank(h, c)
  BY <1>11 DEF T
<1>13. <<<<>>, c>> \in W BY <1>1, <1>3, <1>4, 0 \in 0..card
<1>14. W \subseteq Ways(h) BY <1>2, <1>3
<1>15. IsFiniteSet(W)
  <2> DEFINE sets == {f[n] : n \in 0..card}
  <2> DEFINE g == [n \in 0..card |-> f[n]]
  <2>1. g \in Surjection(0..card, sets) BY DEF Surjection
  <2>2. IsFiniteSet(0..card) BY <1>1, FS_Interval
  <2>3. \A t \in sets : IsFiniteSet(t) BY <1>12
  <2> HIDE DEF g, sets
  <2>4. IsFiniteSet(sets) BY <2>1, <2>2, FS_Surjection
  <2>5. IsFiniteSet(UNION sets) BY <2>3, <2>4, FS_UNION
  <2> QED BY <1>3, <2>5 DEF sets
<1>16. \A w \in W : w[2] \in B BY <1>3, <1>12
<1>17. ASSUME NEW w \in W PROVE Children(h, w) \subseteq W
  <2>1. PICK n \in 0..card : w \in f[n] BY <1>3
  <2> SUFFICES ASSUME NEW u \in Children(h, w) PROVE u \in W OBVIOUS
  <2>2. n \in Nat /\ n + 1 \in Nat BY <1>1
  <2>3. u \in f[n + 1] BY <1>5, <2>1, <2>2 DEF Farther
  <2>4. u[2] \in B /\ Rank(h, u[2]) + (n + 1) <= Rank(h, c) BY <1>12, <2>2, <2>3
  <2>5. n + 1 <= card BY <1>1, <1>6, <1>7, <1>8, <2>2, <2>4
  <2>6. n + 1 \in 0..card BY <1>1, <2>2, <2>5
  <2> QED BY <1>3, <2>3, <2>6
<1>18. ASSUME NEW Y, <<<<>>, c>> \in Y, \A w \in Y : Children(h, w) \subseteq Y PROVE W \subseteq Y
  <2> DEFINE A == {n \in Nat : f[n] \subseteq Y}
  <2>1. 0 \in A BY <1>4, <1>18
  <2>2. ASSUME NEW n \in Nat, n \in A PROVE n + 1 \in A BY <1>5, <1>18, <2>2 DEF Farther
  <2> HIDE DEF A
  <2>3. \A n \in Nat : n \in A BY <2>1, <2>2, FromBefore
  <2>4. \A n \in 0..card : f[n] \subseteq Y BY <1>1, <2>3 DEF A
  <2> QED BY <1>3, <2>4
<1> QED BY <1>13, <1>14, <1>15, <1>16, <1>17, <1>18 DEF W, B

-----------------------------------------------------------------------------
\* A finite set as a sequence without repetition
LEMMA SequenceOf ==
  ASSUME NEW E, IsFiniteSet(E)
  PROVE  /\ Cardinality(E) \in Nat
         /\ J!SetToSeq(E) \in [1..Cardinality(E) -> E]
         /\ \A i, j \in 1..Cardinality(E) : J!SetToSeq(E)[i] = J!SetToSeq(E)[j] => i = j
         /\ \A e \in E : \E i \in 1..Cardinality(E) : J!SetToSeq(E)[i] = e
<1> DEFINE n == Cardinality(E)
<1>1. n \in Nat /\ ExistsBijection(1..n, E) BY FS_CardinalityType
<1>2. J!SetToSeq(E) = CHOOSE f \in [1..n -> E] : J!IsInjective(f) BY HeapCard DEF J!SetToSeq
<1> HIDE DEF n
<1>3. PICK g : g \in Bijection(1..n, E) BY <1>1 DEF ExistsBijection
<1>4. g \in [1..n -> E] /\ J!IsInjective(g) BY <1>3 DEF Bijection, Injection, IsInjective, J!IsInjective
<1> DEFINE s == J!SetToSeq(E)
<1>5. s \in [1..n -> E] /\ J!IsInjective(s) BY <1>2, <1>4
<1> HIDE DEF s
<1>6. \A i, j \in 1..n : s[i] = s[j] => i = j BY <1>5 DEF J!IsInjective
<1>7. s \in Injection(1..n, E) BY <1>5, <1>6 DEF Injection, IsInjective
<1>8. IsFiniteSet(1..n) /\ Cardinality(1..n) = n BY <1>1, FS_Interval
<1>9. s \in Surjection(1..n, E) BY <1>7, <1>8, FS_Injection DEF n
<1>10. \A e \in E : \E i \in 1..n : s[i] = e BY <1>9 DEF Surjection
<1> QED BY <1>1, <1>5, <1>6, <1>10 DEF s, n

\* A heap with copies, at these cells, of the ways W of another
CopiedAs(h, W, at, h2) ==
  /\ DOMAIN h2 = {at[w] : w \in W} \cup DOMAIN h
  /\ \A d \in DOMAIN h : h2[d] = h[d]
  /\ \A w \in W : h2[at[w]] = [type |-> h[w[2]].type,
                              kids |-> [k \in DOMAIN h[w[2]].kids |-> at[Child(h, w, k)]]]

\* The copy of the i-th way, and all of them by their cells, as CopyOf writes them
CellOf(originals, cells, w) == cells[CHOOSE i \in DOMAIN originals : originals[i] = w]
WayOf(originals, cells, d) == originals[CHOOSE i \in DOMAIN originals : cells[i] = d]
CopyAt(h, originals, cells, w) ==
  [type |-> h[w[2]].type,
   kids |-> [k \in DOMAIN h[w[2]].kids |-> CellOf(originals, cells, Child(h, w, k))]]
NewOf(h, originals, cells) ==
  [d \in {cells[i] : i \in DOMAIN originals} |-> CopyAt(h, originals, cells, WayOf(originals, cells, d))]

\* What CopyOf makes: for each way a new cell with the value of the original, whose children
\* are the cells of the ways one step longer.
LEMMA CopyIs ==
  ASSUME J!JsonHeapAssumption, NEW h, HeapOk(h), NEW c \in DOMAIN h, ~J!Cyclic(h, c),
         J!Cardinality(J!Within(h, c)) <= J!Cardinality(J!Free(h))
  PROVE  \E at \in [J!Within(h, c) -> J!Free(h)] :
           /\ \A w1, w2 \in J!Within(h, c) : at[w1] = at[w2] => w1 = w2
           /\ J!CopyOf(h, c).cell = at[<<<<>>, c>>]
           /\ CopiedAs(h, J!Within(h, c), at, J!CopyOf(h, c).heap)
<1> DEFINE W == J!Within(h, c)
<1> DEFINE free == J!Free(h)
<1> DEFINE originals == J!SetToSeq(W)
<1> DEFINE cells == J!SetToSeq(free)
<1> DEFINE at == [w \in W |-> CellOf(originals, cells, w)]
<1> DEFINE new == NewOf(h, originals, cells)
<1> DEFINE n == Cardinality(W)
<1> DEFINE m == Cardinality(free)
<1>1. J!CopyOf(h, c) = [heap |-> J!Over(new, h),
                        cell |-> CellOf(originals, cells, <<<<>>, c>>)]
  BY DEF J!CopyOf, NewOf, CopyAt, WayOf, CellOf, Child
<1>2. /\ <<<<>>, c>> \in W /\ W \subseteq Ways(h) /\ IsFiniteSet(W)
      /\ \A w \in W : Children(h, w) \subseteq W
  BY WithinIs
<1>3. IsFiniteSet(free) /\ free \cap DOMAIN h = {}
  <2>1. IsFiniteSet((1..MaxCells)) /\ free \subseteq (1..MaxCells) /\ free \cap DOMAIN h = {}
    BY HeapFinite DEF J!JsonHeapAssumption, J!Free
  <2> QED BY <2>1, FS_Subset
<1>4. n \in Nat /\ m \in Nat /\ n <= m BY <1>2, <1>3, FS_CardinalityType, HeapCard
<1> HIDE DEF n, m
<1>5. /\ originals \in [1..n -> W] /\ DOMAIN originals = 1..n
      /\ \A i, j \in 1..n : originals[i] = originals[j] => i = j
      /\ \A w \in W : \E i \in 1..n : originals[i] = w
  BY <1>2, SequenceOf DEF n
<1>6. /\ cells \in [1..m -> free]
      /\ \A i, j \in 1..m : cells[i] = cells[j] => i = j
  BY <1>3, SequenceOf DEF m
<1>7. \A i \in 1..n : i \in 1..m BY <1>4
<1> HIDE DEF W, free, originals, cells
<1> DEFINE of == [w \in W |-> CHOOSE i \in 1..n : originals[i] = w]
<1>8. \A w \in W : of[w] \in 1..n /\ originals[of[w]] = w BY <1>5
<1>9. \A i \in 1..n : originals[i] \in W /\ of[originals[i]] = i BY <1>5, <1>8
<1>a. \A w \in W : at[w] = cells[of[w]] BY <1>5 DEF CellOf
<1>10. at \in [W -> free]
  <2>1. \A w \in W : at[w] \in free BY <1>6, <1>7, <1>8, <1>a
  <2>2. at = [w \in W |-> at[w]] OBVIOUS
  <2> HIDE DEF at
  <2> QED BY <2>1, <2>2
<1>11. \A i \in 1..n : WayOf(originals, cells, cells[i]) = originals[i] BY <1>5, <1>6, <1>7 DEF WayOf
<1>12. {cells[i] : i \in DOMAIN originals} = {at[w] : w \in W}
  <2>1. \A i \in 1..n : cells[i] = at[originals[i]] BY <1>9, <1>a
  <2>2. \A w \in W : \E i \in 1..n : at[w] = cells[i] BY <1>8, <1>a
  <2> HIDE DEF at
  <2> QED BY <1>5, <1>9, <2>1, <2>2
<1>b. DOMAIN new = {at[w] : w \in W} BY <1>12 DEF NewOf
<1>13. ASSUME NEW w \in W PROVE WayOf(originals, cells, at[w]) = w
  <2>1. at[w] = cells[of[w]] /\ of[w] \in 1..n BY <1>8, <1>a
  <2> HIDE DEF at, of
  <2> QED BY <1>8, <1>11, <2>1
<1>14. ASSUME NEW w \in W
       PROVE  new[at[w]] = [type |-> h[w[2]].type,
                            kids |-> [k \in DOMAIN h[w[2]].kids |-> at[Child(h, w, k)]]]
  <2>1. at[w] \in {cells[i] : i \in DOMAIN originals} BY <1>12
  <2>2. \A k \in DOMAIN h[w[2]].kids : Child(h, w, k) \in W BY <1>2 DEF Children
  <2>3. \A k \in DOMAIN h[w[2]].kids : at[Child(h, w, k)] = CellOf(originals, cells, Child(h, w, k)) BY <2>2
  <2> HIDE DEF at
  <2>4. new[at[w]] = CopyAt(h, originals, cells, w) BY <1>13, <2>1 DEF NewOf
  <2> HIDE DEF new
  <2> QED BY <2>3, <2>4 DEF CopyAt
<1>15. \A w1, w2 \in W : at[w1] = at[w2] => w1 = w2 BY <1>13
<1>16. J!CopyOf(h, c).cell = at[<<<<>>, c>>] BY <1>1, <1>2
<1>c. J!CopyOf(h, c).heap = J!Over(new, h) BY <1>1
<1>17. CopiedAs(h, W, at, J!CopyOf(h, c).heap)
  <2> DEFINE h2 == J!Over(new, h)
  <2>1. DOMAIN h2 = DOMAIN new \cup DOMAIN h BY DEF J!Over
  <2>2. \A d \in DOMAIN h2 : h2[d] = IF d \in DOMAIN new THEN new[d] ELSE h[d] BY DEF J!Over
  <2> HIDE DEF h2, at, new
  <2>3. \A d \in DOMAIN h : d \notin DOMAIN new BY <1>3, <1>10, <1>b
  <2>4. CopiedAs(h, W, at, h2) BY <1>14, <1>b, <2>1, <2>2, <2>3 DEF CopiedAs
  <2> QED BY <1>c, <2>4 DEF h2
<1> HIDE DEF at
<1>18. \E a \in [W -> free] : /\ \A w1, w2 \in W : a[w1] = a[w2] => w1 = w2
                              /\ J!CopyOf(h, c).cell = a[<<<<>>, c>>]
                              /\ CopiedAs(h, W, a, J!CopyOf(h, c).heap)
  BY <1>10, <1>15, <1>16, <1>17
<1> QED BY <1>18 DEF W, free

\* A copy at cells of its own, each way at one of its own
Copied(h, c, at, h2) ==
  /\ at \in [J!Within(h, c) -> J!Free(h)]
  /\ \A w1, w2 \in J!Within(h, c) : at[w1] = at[w2] => w1 = w2
  /\ CopiedAs(h, J!Within(h, c), at, h2)

Image(h, c, at) == {at[w] : w \in J!Within(h, c)}

\* A copy is a heap again: the old values and the new ones do not lead to each other, and the
\* new ones are what is below the first of them.
LEMMA CopyOk ==
  ASSUME NEW h, HeapOk(h), NEW c \in DOMAIN h, ~J!Cyclic(h, c), NEW at, NEW h2, Copied(h, c, at, h2)
  PROVE  /\ HeapOk(h2) /\ DOMAIN h2 = Image(h, c, at) \cup DOMAIN h /\ Image(h, c, at) \cap DOMAIN h = {}
         /\ \A d \in DOMAIN h : h2[d] = h[d] /\ J!Kids(h2, d) = J!Kids(h, d)
         /\ J!Below(h2, {at[<<<<>>, c>>]}) = Image(h, c, at)
<1> DEFINE W == J!Within(h, c)
<1> DEFINE N == Image(h, c, at)
<1> DEFINE first == <<<<>>, c>>
<1>1. /\ first \in W /\ W \subseteq Ways(h) /\ IsFiniteSet(W)
      /\ \A w \in W : Children(h, w) \subseteq W
      /\ \A Y : first \in Y /\ (\A w \in Y : Children(h, w) \subseteq Y) => W \subseteq Y
  BY WithinIs
<1>2. N = {at[w] : w \in W} /\ at \in [W -> J!Free(h)] BY DEF Image, Copied
<1>3. /\ DOMAIN h2 = N \cup DOMAIN h
      /\ \A d \in DOMAIN h : h2[d] = h[d]
      /\ \A w \in W : h2[at[w]] = [type |-> h[w[2]].type,
                                   kids |-> [k \in DOMAIN h[w[2]].kids |-> at[Child(h, w, k)]]]
  BY <1>2 DEF Copied, CopiedAs
<1>4. N \cap DOMAIN h = {} BY <1>2 DEF J!Free
<1> HIDE DEF W, N, first
<1>5. \A w \in W : \A k \in DOMAIN h[w[2]].kids : Child(h, w, k) \in W /\ at[Child(h, w, k)] \in N
  BY <1>1, <1>2 DEF Children
<1>6. \A w \in W : w[2] \in DOMAIN h BY <1>1 DEF Ways
<1>7. IsFiniteSet(DOMAIN h2)
  <2>1. at \in Surjection(W, N) BY <1>2 DEF Surjection
  <2>2. IsFiniteSet(N) BY <1>1, <2>1, FS_Surjection
  <2>3. IsFiniteSet(DOMAIN h) BY DEF HeapOk
  <2>4. IsFiniteSet(N \cup DOMAIN h) BY <2>2, <2>3, FS_Union
  <2> QED BY <1>3, <2>4
<1>8. ASSUME NEW d \in DOMAIN h2
      PROVE  /\ h2[d] = [type |-> h2[d].type, kids |-> h2[d].kids]
             /\ IsFiniteSet(DOMAIN h2[d].kids)
             /\ \A k \in DOMAIN h2[d].kids : h2[d].kids[k] \in DOMAIN h2
             /\ h2[d].type = "array" => h2[d].kids \in Seq(DOMAIN h2)
  <2>1. CASE d \in DOMAIN h
    <3>1. /\ h2[d] = h[d] /\ h[d] = [type |-> h[d].type, kids |-> h[d].kids] /\ IsFiniteSet(DOMAIN h[d].kids)
          /\ \A k \in DOMAIN h[d].kids : h[d].kids[k] \in DOMAIN h
          /\ h[d].type = "array" => h[d].kids \in Seq(DOMAIN h)
      BY <1>3, <2>1 DEF HeapOk
    <3>2. \A s \in Seq(DOMAIN h) : s \in Seq(DOMAIN h2) BY <1>3
    <3> QED BY <1>3, <3>1, <3>2
  <2>2. CASE d \notin DOMAIN h
    <3>1. PICK w \in W : d = at[w] BY <1>2, <1>3, <2>2
    <3> DEFINE kids == [k \in DOMAIN h[w[2]].kids |-> at[Child(h, w, k)]]
    <3>2. DOMAIN kids = DOMAIN h[w[2]].kids /\ \A k \in DOMAIN kids : kids[k] \in DOMAIN h2 BY <1>3, <1>5
    <3>3. h2[d] = [type |-> h[w[2]].type, kids |-> kids] BY <1>3, <3>1
    <3>a. kids = [k \in DOMAIN kids |-> kids[k]] OBVIOUS
    <3> HIDE DEF kids
    <3>4. IsFiniteSet(DOMAIN kids) BY <1>6, <3>2 DEF HeapOk
    <3>5. ASSUME h[w[2]].type = "array" PROVE kids \in Seq(DOMAIN h2)
      <4>1. h[w[2]].kids \in Seq(DOMAIN h) BY <1>6, <3>5 DEF HeapOk
      <4>2. DOMAIN kids = 1..Len(h[w[2]].kids) /\ Len(h[w[2]].kids) \in Nat BY <3>2, <4>1
      <4>3. kids \in [1..Len(h[w[2]].kids) -> DOMAIN h2] BY <3>2, <3>a, <4>2
      <4> QED BY <4>2, <4>3
    <3> QED BY <3>2, <3>3, <3>4, <3>5
  <2> QED BY <2>1, <2>2
<1>9. HeapOk(h2) BY <1>7, <1>8 DEF HeapOk
<1>10. \A d \in DOMAIN h : h2[d] = h[d] /\ J!Kids(h2, d) = J!Kids(h, d) BY <1>3 DEF J!Kids
<1>11. \A w \in W : J!Kids(h2, at[w]) = {at[Child(h, w, k)] : k \in DOMAIN h[w[2]].kids}
  <2> TAKE w \in W
  <2> DEFINE kids == [k \in DOMAIN h[w[2]].kids |-> at[Child(h, w, k)]]
  <2>1. h2[at[w]] = [type |-> h[w[2]].type, kids |-> kids] BY <1>3
  <2>2. DOMAIN kids = DOMAIN h[w[2]].kids /\ \A k \in DOMAIN h[w[2]].kids : kids[k] = at[Child(h, w, k)]
    OBVIOUS
  <2> HIDE DEF kids
  <2>3. h2[at[w]].kids = kids BY <2>1
  <2> QED BY <2>2, <2>3 DEF J!Kids
<1>12. J!Below(h2, {at[first]}) = N
  <2> DEFINE R == J!Below(h2, {at[first]})
  <2>1. {at[first]} \subseteq N /\ N \subseteq DOMAIN h2 BY <1>1, <1>2, <1>3
  <2>2. Closed(h2, N) BY <1>2, <1>5, <1>11, <2>1 DEF Closed
  <2>3. {at[first]} \subseteq R /\ Closed(h2, R) /\ R \subseteq N BY <1>9, <2>1, <2>2, BelowIs
  <2> HIDE DEF R
  <2> DEFINE Y == {w \in W : at[w] \in R}
  <2>4. first \in Y BY <1>1, <2>3
  <2>5. ASSUME NEW w \in Y PROVE Children(h, w) \subseteq Y
    <3> SUFFICES ASSUME NEW k \in DOMAIN h[w[2]].kids PROVE Child(h, w, k) \in Y BY DEF Children
    <3>1. w \in W /\ at[w] \in R /\ Child(h, w, k) \in W BY <1>5
    <3>2. at[Child(h, w, k)] \in J!Kids(h2, at[w]) BY <1>11, <3>1
    <3>3. at[Child(h, w, k)] \in R BY <2>3, <3>1, <3>2 DEF Closed
    <3> QED BY <3>1, <3>3
  <2>6. W \subseteq Y BY <1>1, <2>4, <2>5
  <2>7. N \subseteq R BY <1>2, <2>6
  <2> QED BY <2>3, <2>7 DEF R
<1> QED BY <1>3, <1>4, <1>9, <1>10, <1>12 DEF N, first

\* The copy shows what the original does.
LEMMA CopyShows ==
  ASSUME NEW h, HeapOk(h), NEW c \in DOMAIN h, ~J!Cyclic(h, c), NEW at, NEW h2, Copied(h, c, at, h2)
  PROVE  /\ ~J!Cyclic(h2, at[<<<<>>, c>>])
         /\ J!Tree(h2, at[<<<<>>, c>>]) = J!Tree(h, c)
<1> DEFINE W == J!Within(h, c)
<1> DEFINE N == Image(h, c, at)
<1> DEFINE first == <<<<>>, c>>
<1> DEFINE R == J!Below(h, {c})
<1>1. /\ first \in W
      /\ \A w \in W : Children(h, w) \subseteq W
      /\ \A w \in W : w[2] \in R
  BY WithinIs
<1>2. /\ HeapOk(h2) /\ DOMAIN h2 = N \cup DOMAIN h
      /\ J!Below(h2, {at[first]}) = N
  BY CopyOk
<1>3. c \in R /\ Closed(h, R) /\ Acyclic(h, R) BY BelowIs, AcyclicIs, {c} \subseteq DOMAIN h
<1>4. N = {at[w] : w \in W} /\ (\A w1, w2 \in W : at[w1] = at[w2] => w1 = w2)
      /\ \A w \in W : h2[at[w]] = [type |-> h[w[2]].type,
                                   kids |-> [k \in DOMAIN h[w[2]].kids |-> at[Child(h, w, k)]]]
  BY DEF Image, Copied, CopiedAs
<1>5. first[2] = c OBVIOUS
<1> HIDE DEF W, N, first, R
<1>6. \A w \in W : \A k \in DOMAIN h[w[2]].kids : Child(h, w, k) \in W /\ Child(h, w, k)[2] = h[w[2]].kids[k]
  BY <1>1 DEF Children, Child
<1>7. \A w \in W : J!Kids(h2, at[w]) = {at[Child(h, w, k)] : k \in DOMAIN h[w[2]].kids}
  <2> TAKE w \in W
  <2> DEFINE kids == [k \in DOMAIN h[w[2]].kids |-> at[Child(h, w, k)]]
  <2>1. h2[at[w]] = [type |-> h[w[2]].type, kids |-> kids] BY <1>4
  <2>2. DOMAIN kids = DOMAIN h[w[2]].kids /\ \A k \in DOMAIN h[w[2]].kids : kids[k] = at[Child(h, w, k)]
    OBVIOUS
  <2> HIDE DEF kids
  <2>3. h2[at[w]].kids = kids BY <2>1
  <2> QED BY <2>2, <2>3 DEF J!Kids
<1>8. \A w \in W : w[2] \in DOMAIN h /\ Rank(h, w[2]) \in Nat BY <1>1, <1>3, RankIs DEF Closed
<1>9. \A w \in W : \A k \in DOMAIN h[w[2]].kids : Rank(h, Child(h, w, k)[2]) < Rank(h, w[2])
  <2> TAKE w \in W
  <2> TAKE k \in DOMAIN h[w[2]].kids
  <2>1. h[w[2]].kids[k] \in J!Kids(h, w[2]) BY DEF J!Kids
  <2>2. w[2] \in R /\ w[2] \in DOMAIN h BY <1>1, <1>8
  <2>3. Rank(h, h[w[2]].kids[k]) < Rank(h, w[2]) BY <1>3, <2>1, <2>2, RankDown DEF Acyclic
  <2> QED BY <1>6, <2>3
\* From a copy it goes down to copies of values of a lower rank only.
<1>10. ASSUME NEW w \in W PROVE at[w] \notin J!Below(h2, J!Kids(h2, at[w]))
  <2> DEFINE lower == {u \in W : Rank(h, u[2]) < Rank(h, w[2])}
  <2> DEFINE Y == {at[u] : u \in lower}
  <2>1. \A u \in lower : \A k \in DOMAIN h[u[2]].kids : Child(h, u, k) \in lower
    <3> TAKE u \in lower
    <3> TAKE k \in DOMAIN h[u[2]].kids
    <3>1. u \in W /\ Rank(h, u[2]) < Rank(h, w[2]) OBVIOUS
    <3>2. Child(h, u, k) \in W /\ Rank(h, Child(h, u, k)[2]) < Rank(h, u[2]) BY <1>6, <1>9, <3>1
    <3>3. Rank(h, Child(h, u, k)[2]) < Rank(h, w[2]) BY <1>8, <3>1, <3>2
    <3> QED BY <3>2, <3>3
  <2>2. \A k \in DOMAIN h[w[2]].kids : Child(h, w, k) \in lower BY <1>6, <1>9
  <2>3. \A u \in lower : u \in W OBVIOUS
  <2>4. w \notin lower BY <1>8
  <2> HIDE DEF lower
  <2>5. Y \subseteq DOMAIN h2 BY <1>2, <1>4, <2>3
  <2>6. \A u \in lower : J!Kids(h2, at[u]) \subseteq Y BY <1>7, <2>1, <2>3
  <2>7. Closed(h2, Y) BY <2>5, <2>6 DEF Closed
  <2>8. J!Kids(h2, at[w]) \subseteq Y BY <1>7, <2>2
  <2>9. at[w] \notin Y BY <1>4, <2>3, <2>4
  <2> HIDE DEF Y
  <2>10. J!Kids(h2, at[w]) \subseteq DOMAIN h2 BY <2>5, <2>8
  <2>11. J!Below(h2, J!Kids(h2, at[w])) \subseteq Y BY <1>2, <2>7, <2>8, <2>10, BelowIs
  <2> QED BY <2>9, <2>11
<1>11. Acyclic(h2, N) BY <1>4, <1>10 DEF Acyclic
<1>12. ~J!Cyclic(h2, at[first]) BY <1>2, <1>11, AcyclicIs
<1>13. Closed(h2, N)
  <2>1. N \subseteq DOMAIN h2 /\ at[first] \in N BY <1>1, <1>2, <1>4
  <2>2. {at[first]} \subseteq DOMAIN h2 BY <2>1
  <2> QED BY <1>2, <2>2, BelowIs
<1> DEFINE g == CHOOSE g : g = TreeOf(h, R, g)
<1> DEFINE g2 == CHOOSE f : f = TreeOf(h2, N, f)
<1>14. g = TreeOf(h, R, g) BY <1>3, TreesExist
<1>15. g2 = TreeOf(h2, N, g2) BY <1>2, <1>11, <1>13, TreesExist
<1>16. J!Tree(h, c) = g[c] /\ J!Tree(h2, at[first]) = g2[at[first]] BY <1>2, TreeIs DEF R
<1> HIDE DEF g, g2
<1> DEFINE B == {<<w[2], at[w]>> : w \in W}
<1>17. B \subseteq R \X N BY <1>1, <1>4
<1>18. <<c, at[first]>> \in B BY <1>1, <1>5
<1>19. Alike(h, h2, B)
  <2> SUFFICES ASSUME NEW w \in W
               PROVE  /\ h[w[2]].type = h2[at[w]].type /\ DOMAIN h[w[2]].kids = DOMAIN h2[at[w]].kids
                      /\ \A k \in DOMAIN h[w[2]].kids : <<h[w[2]].kids[k], h2[at[w]].kids[k]>> \in B
    <3>1. ASSUME NEW p \in B
          PROVE  /\ h[p[1]].type = h2[p[2]].type /\ DOMAIN h[p[1]].kids = DOMAIN h2[p[2]].kids
                 /\ \A k \in DOMAIN h[p[1]].kids : <<h[p[1]].kids[k], h2[p[2]].kids[k]>> \in B
      <4>1. PICK w \in W : p = <<w[2], at[w]>> OBVIOUS
      <4>2. p[1] = w[2] /\ p[2] = at[w] BY <4>1
      <4>3. /\ h[w[2]].type = h2[at[w]].type /\ DOMAIN h[w[2]].kids = DOMAIN h2[at[w]].kids
            /\ \A k \in DOMAIN h[w[2]].kids : <<h[w[2]].kids[k], h2[at[w]].kids[k]>> \in B
        OBVIOUS
      <4> HIDE DEF B
      <4> QED BY <4>2, <4>3
    <3> HIDE DEF B
    <3> QED BY <3>1 DEF Alike
  <2>1. h2[at[w]] = [type |-> h[w[2]].type, kids |-> [k \in DOMAIN h[w[2]].kids |-> at[Child(h, w, k)]]] BY <1>4
  <2>2. \A k \in DOMAIN h[w[2]].kids : <<h[w[2]].kids[k], at[Child(h, w, k)]>> \in B BY <1>6
  <2> HIDE DEF B
  <2> QED BY <2>1, <2>2
<1> HIDE DEF B
<1>20. g[c] = g2[at[first]] BY <1>3, <1>14, <1>15, <1>17, <1>18, <1>19, AlikeSame
<1> QED BY <1>12, <1>16, <1>20 DEF first

\* clone(): the variable it fills shows what the original does, apart from everything else,
\* and what was apart stays so.
LEMMA CloneStep ==
  ASSUME J!JsonHeapAssumption, JsonInv, NEW to \in Vars, NEW x \in Vars, J!Clone(to, x)
  PROVE  JsonInv'
<1> DEFINE c == var[x]
<1> DEFINE first == <<<<>>, c>>
<1> DEFINE h == J!CopyOf(heap, c).heap
<1> DEFINE root == J!CopyOf(heap, c).cell
<1> DEFINE w == [var EXCEPT ![to] = root]
<1> DEFINE t == J!Tree(heap, c)
<1>1. /\ heap' = J!Collected(h, w) /\ var' = w /\ kept' = [kept EXCEPT ![to] = t]
      /\ ~J!Cyclic(heap, c)
      /\ J!Cardinality(J!Within(heap, c)) <= J!Cardinality(J!Free(heap))
  BY DEF J!Clone
<1>2. c \in DOMAIN heap /\ HeapOk(heap) /\ var \in [Vars -> DOMAIN heap] /\ kept = [z \in Vars |-> kept[z]]
  BY DEF JsonInv, JsonState
<1> HIDE DEF c
<1>3. PICK at \in [J!Within(heap, c) -> J!Free(heap)] :
        /\ \A w1, w2 \in J!Within(heap, c) : at[w1] = at[w2] => w1 = w2
        /\ root = at[first]
        /\ CopiedAs(heap, J!Within(heap, c), at, h)
  BY <1>1, <1>2, CopyIs
<1>4. Copied(heap, c, at, h) BY <1>3 DEF Copied
<1> DEFINE N == Image(heap, c, at)
<1> HIDE DEF h, root
<1>5. /\ HeapOk(h) /\ DOMAIN h = N \cup DOMAIN heap /\ N \cap DOMAIN heap = {}
      /\ \A d \in DOMAIN heap : h[d] = heap[d] /\ J!Kids(h, d) = J!Kids(heap, d)
      /\ J!Below(h, {root}) = N
  <2>1. /\ HeapOk(h) /\ DOMAIN h = Image(heap, c, at) \cup DOMAIN heap /\ Image(heap, c, at) \cap DOMAIN heap = {}
        /\ \A d \in DOMAIN heap : h[d] = heap[d] /\ J!Kids(h, d) = J!Kids(heap, d)
        /\ J!Below(h, {at[<<<<>>, c>>]}) = Image(heap, c, at)
    BY <1>1, <1>2, <1>4, CopyOk
  <2> QED BY <1>3, <2>1
<1>6. ~J!Cyclic(h, root) /\ J!Tree(h, root) = t BY <1>1, <1>2, <1>3, <1>4, CopyShows
<1>7. first \in J!Within(heap, c) BY <1>1, <1>2, WithinIs
<1>8. root \in N BY <1>3, <1>7 DEF Image
<1> HIDE DEF N, t, first
<1>9. w[to] = root /\ \A y \in Vars : y # to => w[y] = var[y] /\ w[y] \in DOMAIN heap BY <1>2
<1>10. JsonState(h, w)
  <2>1. w \in [Vars -> DOMAIN h] BY <1>2, <1>5, <1>8
  <2> QED BY <1>5, <2>1 DEF JsonState
<1> HIDE DEF w
<1>11. \A d \in DOMAIN heap : J!Kids(heap, d) \subseteq DOMAIN heap BY <1>2, KidsInside DEF Closed
<1>12. Apart(h, w, to, t)
  <2>1. \A y \in Vars : y # to => w[y] \notin N BY <1>5, <1>9
  <2>2. \A d \in DOMAIN h : d \notin N => J!Kids(h, d) \cap N = {} BY <1>5, <1>11
  <2> QED BY <1>5, <1>6, <1>9, <2>1, <2>2 DEF Apart
<1>13. ASSUME NEW z \in Vars, z # to, kept[z] # J!Nothing PROVE Apart(h, w, z, kept[z])
  <2>1. Apart(heap, var, z, kept[z]) BY <1>13 DEF JsonInv
  <2>2. /\ Of(z) \subseteq DOMAIN heap
        /\ \A y \in Vars : y # z => var[y] \notin Of(z)
        /\ \A d \in DOMAIN heap : d \notin Of(z) => J!Kids(heap, d) \cap Of(z) = {}
    BY <1>13, <2>1, OfKept DEF Of, Apart
  <2>3. \A d \in N : J!Kids(h, d) \subseteq N
    <3>1. {root} \subseteq DOMAIN h BY <1>5, <1>8
    <3>2. Closed(h, N) BY <1>5, <3>1, BelowIs
    <3> QED BY <3>2 DEF Closed
  <2>4. \A d \in DOMAIN h : d \notin Of(z) => J!Kids(h, d) \cap Of(z) = {} BY <1>5, <2>2, <2>3
  <2>5. \A y \in Vars : y # z => w[y] \notin Of(z) BY <1>5, <1>8, <1>9, <2>2
  <2>6. Of(z) \subseteq DOMAIN h /\ Agree(heap, h, Of(z)) /\ w[z] = var[z] BY <1>5, <1>9, <1>13, <2>2 DEF Agree
  <2>7. Unreached(heap, var, h, w, z) BY <2>4, <2>5, <2>6 DEF Unreached, Of
  <2> QED BY <1>5, <2>1, <2>7, ApartStays DEF JsonInv
<1>14. kept' = [z \in Vars |-> kept'[z]] /\ kept'[to] = t /\ \A z \in Vars : z # to => kept'[z] = kept[z]
  BY <1>1, <1>2
<1>15. \A z \in Vars : kept'[z] # J!Nothing => Apart(h, w, z, kept'[z]) BY <1>12, <1>13, <1>14
<1> QED BY <1>1, <1>10, <1>14, <1>15, JsonStep

\* To begin with nothing is kept.
LEMMA JsonInvInit == J!Init => JsonInv
<1> SUFFICES ASSUME J!Init PROVE JsonInv OBVIOUS
<1>1. heap = [c \in {1} |-> J!Null] /\ var = [x \in Vars |-> 1] /\ kept = [x \in Vars |-> J!Nothing]
  BY DEF J!Init
<1>2. J!Null = [type |-> "null", kids |-> <<>>] /\ DOMAIN J!Null.kids = {} BY DEF J!Null, J!Value
<1>3. IsFiniteSet(DOMAIN heap) BY <1>1, FS_Singleton
<1>4. HeapOk(heap) BY <1>1, <1>2, <1>3, FS_EmptySet DEF HeapOk
<1>5. JsonState(heap, var) BY <1>1, <1>4 DEF JsonState
<1> QED BY <1>1, <1>5 DEF JsonInv

\* Every step of the program keeps it.
LEMMA JsonInvNext == J!JsonHeapAssumption /\ JsonInv /\ [J!Next]_jsonVars => JsonInv'
<1> SUFFICES ASSUME J!JsonHeapAssumption, JsonInv, [J!Next]_jsonVars PROVE JsonInv' OBVIOUS
<1>1. CASE UNCHANGED jsonVars
  <2>1. heap' = heap /\ var' = var /\ kept' = kept BY <1>1 DEF jsonVars
  <2>2. JsonState(heap', var') BY <2>1 DEF JsonInv
  <2>3. \A x \in Vars : kept'[x] # J!Nothing => Apart(heap', var', x, kept'[x]) BY <2>1 DEF JsonInv
  <2>4. kept' = [x \in Vars |-> kept'[x]] BY <2>1 DEF JsonInv
  <2> QED BY <2>2, <2>3, <2>4, JsonInvPrimed
<1>2. CASE J!Next
  <2>1. PICK x \in Vars, y \in Vars :
          \/ J!Assign(x, y) \/ J!Append_(x, y) \/ J!Clone(x, y)
          \/ \E type \in {"null", "integer", "array", "object"} : J!Make(x, J!Value(type))
          \/ \E name \in Names : J!Link(x, name, y) \/ J!Look(x, name)
          \/ \E at \in Names \cup 1..MaxArray : J!Fetch(x, at, y) \/ \E name \in Names : J!LinkBelow(x, at, name, y)
          \/ \E to \in Vars : J!Merge(to, x, y)
    BY <1>2 DEF J!Next
  <2>2. CASE J!Assign(x, y) BY <2>2, AssignStep
  <2>3. CASE J!Append_(x, y) BY <2>3, AppendStep
  <2>4. CASE J!Clone(x, y) BY <2>4, CloneStep
  <2>5. CASE \E type \in {"null", "integer", "array", "object"} : J!Make(x, J!Value(type)) BY <2>5, MakeStep
  <2>6. CASE \E name \in Names : J!Link(x, name, y) \/ J!Look(x, name) BY <2>6, LinkStep, LookStep
  <2>7. CASE \E at \in Names \cup 1..MaxArray : J!Fetch(x, at, y) \/ \E name \in Names : J!LinkBelow(x, at, name, y)
    BY <2>7, FetchStep, LinkBelowStep
  <2>8. CASE \E to \in Vars : J!Merge(to, x, y) BY <2>8, MergeStep
  <2> QED BY <2>1, <2>2, <2>3, <2>4, <2>5, <2>6, <2>7, <2>8
<1> QED BY <1>1, <1>2

\* What is apart shows what it did.
LEMMA JsonInvExact == JsonInv => J!ClonesApart
BY DEF JsonInv, Apart, J!ClonesApart

-----------------------------------------------------------------------------
(* ratio: the greatest common divisor                                      *)

\* g divides x and y, and is a sum of multiples of them, so every divisor of both divides it.
Divides(g, x) == \E k \in Int : x = g * k
Sum(u, x, w, y) == u * x + w * y
Combines(g, x, y) == \E u, w \in Int : Sum(u, x, w, y) = g
IsGcd(g, x, y) == g \in Nat \ {0} /\ Divides(g, x) /\ Divides(g, y) /\ Combines(g, x, y)

\* What divides two numbers divides the sums of their multiples.
LEMMA DividesSum ==
  ASSUME NEW g \in Int, NEW x \in Int, NEW y \in Int, NEW u \in Int, NEW w \in Int,
         Divides(g, x), Divides(g, y)
  PROVE  Divides(g, Sum(u, x, w, y))
<1>1. PICK k \in Int : x = g * k BY DEF Divides
<1>2. PICK l \in Int : y = g * l BY DEF Divides
<1>3. u * (g * k) + w * (g * l) = g * (u * k + w * l) OBVIOUS
<1>4. u * k + w * l \in Int OBVIOUS
<1> QED BY <1>1, <1>2, <1>3, <1>4 DEF Divides, Sum

\* A positive number that divides a positive one is not greater.
LEMMA DividesLess ==
  ASSUME NEW g \in Nat \ {0}, NEW h \in Nat \ {0}, Divides(g, h)
  PROVE  g <= h
<1>1. PICK k \in Int : h = g * k BY DEF Divides
<1>2. k >= 1
  <2> SUFFICES ASSUME k <= 0 PROVE FALSE BY <1>1
  <2>1. g * k <= 0 OBVIOUS
  <2> QED BY <1>1, <2>1
<1>3. g * k >= g BY <1>2
<1> QED BY <1>1, <1>3

\* There is one at most.
LEMMA GcdUnique ==
  ASSUME NEW x \in Int, NEW y \in Int, NEW g, NEW h, IsGcd(g, x, y), IsGcd(h, x, y)
  PROVE  g = h
<1>1. g \in Nat \ {0} /\ h \in Nat \ {0} BY DEF IsGcd
<1>2. Divides(g, h) /\ Divides(h, g)
  <2>1. PICK u, w \in Int : Sum(u, x, w, y) = h BY DEF IsGcd, Combines
  <2>2. PICK s, t \in Int : Sum(s, x, t, y) = g BY DEF IsGcd, Combines
  <2> QED BY <1>1, <2>1, <2>2, DividesSum DEF IsGcd
<1>3. g <= h /\ h <= g BY <1>1, <1>2, DividesLess
<1> QED BY <1>1, <1>3

\* The rest of a division is of the two numbers what the divided number is.
LEMMA GcdOfRest ==
  ASSUME NEW a \in Nat \ {0}, NEW b \in Nat, NEW g
  PROVE  IsGcd(g, b % a, a) <=> IsGcd(g, a, b)
<1> DEFINE q == b \div a
<1> DEFINE r == b % a
<1>1. q \in Int /\ r \in Int /\ b = a * q + r OBVIOUS
<1> HIDE DEF q, r
<1>2. ASSUME g \in Nat \ {0} PROVE Divides(g, a) => (Divides(g, r) <=> Divides(g, b))
  <2>1. b = Sum(q, a, 1, r) BY <1>1 DEF Sum
  <2>2. r = Sum(-q, a, 1, b)
    <3>1. (-q) * a + (a * q + r) = r BY <1>1
    <3> QED BY <1>1, <3>1 DEF Sum
  <2>3. -q \in Int BY <1>1
  <2> QED BY <1>1, <1>2, <2>1, <2>2, <2>3, DividesSum
<1>3. Combines(g, r, a) <=> Combines(g, a, b)
  <2>1. ASSUME NEW u \in Int, NEW w \in Int PROVE Sum(u, r, w, a) = Sum(w - u * q, a, u, b)
    <3>1. (w - u * q) * a + u * (a * q + r) = u * r + w * a BY <1>1
    <3> QED BY <1>1, <3>1 DEF Sum
  <2>2. ASSUME NEW u \in Int, NEW w \in Int PROVE Sum(u, a, w, b) = Sum(w, r, u + w * q, a)
    <3>1. u * a + w * (a * q + r) = w * r + (u + w * q) * a BY <1>1
    <3> QED BY <1>1, <3>1 DEF Sum
  <2>3. ASSUME NEW u \in Int, NEW w \in Int PROVE w - u * q \in Int /\ u + w * q \in Int BY <1>1
  <2> QED BY <2>1, <2>2, <2>3 DEF Combines
<1> QED BY <1>2, <1>3 DEF IsGcd, r

\* Of 0 and a positive number it is that number.
LEMMA GcdOfZero == ASSUME NEW a \in Nat \ {0} PROVE IsGcd(a, 0, a)
<1>1. 0 = a * 0 /\ a = a * 1 /\ 0 * 0 + 1 * a = a OBVIOUS
<1> QED BY <1>1 DEF IsGcd, Divides, Combines, Sum

LEMMA GcdTurned == ASSUME NEW g, NEW x \in Int, NEW y \in Int, IsGcd(g, x, y) PROVE IsGcd(g, y, x)
<1>1. PICK u, w \in Int : Sum(u, x, w, y) = g BY DEF IsGcd, Combines
<1>2. Sum(w, y, u, x) = g BY <1>1 DEF Sum
<1> QED BY <1>2 DEF IsGcd, Combines

\* There is one.
LEMMA GcdExists == \A a \in Nat : \A b \in Nat : a # 0 => \E g : IsGcd(g, a, b)
<1> DEFINE T == {a \in Nat : \A b \in Nat : a # 0 => \E g : IsGcd(g, a, b)}
<1>1. ASSUME NEW a \in Nat, \A m \in Nat : m < a => m \in T PROVE a \in T
  <2> SUFFICES ASSUME NEW b \in Nat, a # 0 PROVE \E g : IsGcd(g, a, b) OBVIOUS
  <2> DEFINE r == b % a
  <2>1. r \in Nat /\ r < a OBVIOUS
  <2>2. \E g : IsGcd(g, r, a)
    <3> HIDE DEF r
    <3>1. CASE r = 0 BY <3>1, GcdOfZero
    <3>2. CASE r # 0 BY <2>1, <1>1, <3>2
    <3> QED BY <3>1, <3>2
  <2> QED BY <2>2, GcdOfRest DEF r
<1> HIDE DEF T
<1>2. \A a \in Nat : a \in T BY <1>1, FromSmaller
<1> QED BY <1>2 DEF T

EuclidOf(n, f) ==
  [p \in (0..n) \X (0..n) |-> IF p[1] = 0 THEN p[2] ELSE f[<<V!Rem(p[2], p[1]), p[1]>>]]

LEMMA RemIs == ASSUME NEW a \in Nat \ {0}, NEW b \in Nat PROVE V!Rem(b, a) = b % a
  BY DEF V!Rem, V!Abs

\* Euclid's recursion has a solution.
LEMMA EuclidExists == ASSUME NEW n \in Nat PROVE \E f : f = EuclidOf(n, f)
<1> DEFINE G(a, b) == IF a = 0 THEN b ELSE CHOOSE g : IsGcd(g, a, b)
<1> DEFINE f == [p \in (0..n) \X (0..n) |-> G(p[1], p[2])]
<1>1. ASSUME NEW a \in 0..n, NEW b \in 0..n, a # 0 PROVE G(a, b) = G(b % a, a) /\ b % a \in 0..n
  <2>1. a \in Nat \ {0} /\ b \in Nat /\ b % a \in Nat /\ b % a < a BY <1>1
  <2>2. PICK g : IsGcd(g, a, b) BY <2>1, GcdExists
  <2>3. G(a, b) = g BY <2>1, <2>2, GcdUnique
  <2>4. IsGcd(g, b % a, a) BY <2>1, <2>2, GcdOfRest
  <2> DEFINE r == b % a
  <2>5. r \in Nat /\ r < a /\ IsGcd(g, r, a) BY <2>1, <2>4
  <2> HIDE DEF r
  <2>6. CASE r = 0
    <3>1. g = a BY <2>1, <2>5, <2>6, GcdOfZero, GcdUnique
    <3>2. G(r, a) = a BY <2>6
    <3> QED BY <2>1, <2>3, <2>6, <3>1, <3>2 DEF r
  <2>7. CASE r # 0
    <3>1. \A h : IsGcd(h, r, a) => h = g BY <2>1, <2>5, GcdUnique
    <3>2. G(r, a) = g BY <2>5, <2>7, <3>1
    <3> HIDE DEF G
    <3> QED BY <2>1, <2>3, <2>5, <3>2 DEF r
  <2> QED BY <2>6, <2>7
<1> HIDE DEF G
<1>2. ASSUME NEW p \in (0..n) \X (0..n) PROVE f[p] = EuclidOf(n, f)[p]
  <2>1. PICK a \in 0..n, b \in 0..n : p = <<a, b>> OBVIOUS
  <2>2. p[1] = a /\ p[2] = b BY <2>1
  <2>3. f[p] = G(a, b) BY <2>2
  <2>4. CASE a = 0
    <3>1. G(a, b) = b BY <2>4 DEF G
    <3> HIDE DEF f
    <3> QED BY <2>2, <2>3, <2>4, <3>1 DEF EuclidOf
  <2>5. CASE a # 0
    <3> DEFINE r == b % a
    <3>1. G(a, b) = G(r, a) /\ r \in 0..n BY <1>1, <2>5
    <3>2. V!Rem(b, a) = r BY <2>5, RemIs, a \in Nat \ {0}, b \in Nat
    <3> HIDE DEF r
    <3>3. f[<<r, a>>] = G(r, a) BY <3>1
    <3> HIDE DEF f
    <3> QED BY <2>2, <2>3, <2>5, <3>1, <3>2, <3>3 DEF EuclidOf
  <2> QED BY <2>4, <2>5
<1>3. f = EuclidOf(n, f)
  <2>1. EuclidOf(n, f) = [p \in (0..n) \X (0..n) |-> EuclidOf(n, f)[p]] BY DEF EuclidOf
  <2> QED BY <1>2, <2>1
<1> QED BY <1>3

\* A solution gives the greatest common divisor.
LEMMA EuclidIs ==
  ASSUME NEW n \in Nat, NEW f, f = EuclidOf(n, f)
  PROVE  \A a \in Nat : a <= n => \A b \in 1..n : IsGcd(f[<<a, b>>], a, b)
<1> DEFINE T == {a \in Nat : a <= n => \A b \in 1..n : IsGcd(f[<<a, b>>], a, b)}
<1>1. ASSUME NEW a \in Nat, \A m \in Nat : m < a => m \in T PROVE a \in T
  <2> SUFFICES ASSUME a <= n, NEW b \in 1..n PROVE IsGcd(f[<<a, b>>], a, b) OBVIOUS
  <2>1. <<a, b>> \in (0..n) \X (0..n) OBVIOUS
  <2>2. f[<<a, b>>] = IF a = 0 THEN b ELSE f[<<V!Rem(b, a), a>>] BY <2>1 DEF EuclidOf
  <2>3. CASE a = 0 BY <2>2, <2>3, GcdOfZero
  <2>4. CASE a # 0
    <3>1. b % a \in Nat /\ b % a < a /\ b % a <= n /\ a \in 1..n BY <2>4
    <3> DEFINE r == b % a
    <3>2. r \in T BY <1>1, <3>1
    <3>3. IsGcd(f[<<r, a>>], r, a)
      <4>1. r \in Nat /\ r <= n BY <3>1
      <4> HIDE DEF r
      <4> QED BY <3>1, <3>2, <4>1
    <3>4. V!Rem(b, a) = r BY <2>4, RemIs, a \in Nat \ {0}, b \in Nat
    <3> HIDE DEF r
    <3>5. f[<<a, b>>] = f[<<r, a>>] BY <2>2, <2>4, <3>4
    <3>6. IsGcd(f[<<a, b>>], r, a) BY <3>3, <3>5
    <3> QED BY <2>4, <3>6, GcdOfRest DEF r
  <2> QED BY <2>3, <2>4
<1> HIDE DEF T
<1>2. \A a \in Nat : a \in T BY <1>1, FromSmaller
<1> QED BY <1>2 DEF T

\* A divisor of the absolute value divides the number.
LEMMA GcdSigned ==
  ASSUME NEW x \in Int, NEW y \in Int, NEW g, IsGcd(g, V!Abs(x), V!Abs(y))
  PROVE  IsGcd(g, x, y)
<1>1. ASSUME NEW z \in Int PROVE \E e \in {1, -1} : V!Abs(z) = e * z /\ z = e * V!Abs(z)
  <2>1. CASE z < 0
    <3>1. V!Abs(z) = (-1) * z /\ z = (-1) * V!Abs(z) BY <2>1 DEF V!Abs
    <3> QED BY <3>1
  <2>2. CASE ~(z < 0)
    <3>1. V!Abs(z) = 1 * z /\ z = 1 * V!Abs(z) BY <2>2 DEF V!Abs
    <3> QED BY <3>1
  <2> QED BY <2>1, <2>2
<1>2. ASSUME NEW z \in Int, Divides(g, V!Abs(z)) PROVE Divides(g, z)
  <2>1. PICK k \in Int : V!Abs(z) = g * k BY <1>2 DEF Divides
  <2>2. g \in Int BY DEF IsGcd
  <2>3. PICK e \in {1, -1} : z = e * V!Abs(z) BY <1>1
  <2>4. e * (g * k) = g * (e * k) /\ e * k \in Int BY <2>2
  <2> QED BY <2>1, <2>3, <2>4 DEF Divides
<1>3. Combines(g, x, y)
  <2>1. PICK u, w \in Int : Sum(u, V!Abs(x), w, V!Abs(y)) = g BY DEF IsGcd, Combines
  <2>2. PICK d \in {1, -1} : V!Abs(x) = d * x BY <1>1
  <2>3. PICK e \in {1, -1} : V!Abs(y) = e * y BY <1>1
  <2>4. u * (d * x) + w * (e * y) = (u * d) * x + (w * e) * y OBVIOUS
  <2>5. Sum(u * d, x, w * e, y) = g BY <2>1, <2>2, <2>3, <2>4 DEF Sum
  <2>6. u * d \in Int /\ w * e \in Int OBVIOUS
  <2> QED BY <2>5, <2>6 DEF Combines
<1> QED BY <1>2, <1>3 DEF IsGcd

\* gcd() of two numbers of which the second is not 0
LEMMA GcdIs == ASSUME NEW x \in Int, NEW y \in Int \ {0} PROVE IsGcd(V!Gcd(x, y), x, y)
<1> DEFINE n == V!Abs(y)
<1> DEFINE f == CHOOSE f : f = EuclidOf(n, f)
<1>1. n \in Nat \ {0} /\ V!Abs(x) \in Nat BY DEF V!Abs
<1>2. f = EuclidOf(n, f) BY <1>1, EuclidExists
<1>3. V!Gcd(x, y) = f[<<V!Rem(x, y), n>>] BY DEF V!Gcd, EuclidOf
<1> HIDE DEF f, n
<1>4. V!Rem(x, y) = V!Abs(x) % n BY DEF V!Rem, n
<1>5. V!Abs(x) % n \in Nat /\ V!Abs(x) % n <= n /\ n \in 1..n BY <1>1
<1>6. IsGcd(V!Gcd(x, y), V!Abs(x) % n, n) BY <1>1, <1>2, <1>3, <1>4, <1>5, EuclidIs
<1>7. IsGcd(V!Gcd(x, y), n, V!Abs(x)) BY <1>1, <1>6, GcdOfRest
<1>8. IsGcd(V!Gcd(x, y), V!Abs(x), V!Abs(y)) BY <1>1, <1>7, GcdTurned DEF n
<1> QED BY <1>8, GcdSigned

-----------------------------------------------------------------------------
(* ratio: its operators                                                    *)

LEMMA DivExact == ASSUME NEW b \in Nat \ {0}, NEW k \in Int PROVE (b * k) \div b = k
<1> DEFINE q == (b * k) \div b
<1> DEFINE r == (b * k) % b
<1>1. q \in Int /\ r \in 0..(b - 1) /\ b * k = b * q + r OBVIOUS
<1> HIDE DEF q, r
<1>2. b * (k - q) = r BY <1>1
<1>3. ~(k - q >= 1)
  <2> SUFFICES ASSUME k - q >= 1 PROVE FALSE OBVIOUS
  <2>1. b * (k - q) >= b BY <1>1
  <2> QED BY <1>1, <1>2, <2>1
<1>4. ~(k - q <= -1)
  <2> SUFFICES ASSUME k - q <= -1 PROVE FALSE OBVIOUS
  <2>1. b * (k - q) <= -b BY <1>1
  <2> QED BY <1>1, <1>2, <2>1
<1> QED BY <1>1, <1>3, <1>4 DEF q

\* Division of a multiple is exact.
LEMMA CutIs == ASSUME NEW g \in Int \ {0}, NEW k \in Int PROVE V!Cut(g * k, g) = k
<1>1. CASE g > 0
  <2>1. (g * k) \div g = k /\ (g * (-k)) \div g = -k BY <1>1, DivExact
  <2>2. -(g * k) = g * (-k) OBVIOUS
  <2> QED BY <1>1, <2>1, <2>2 DEF V!Cut
<1>2. CASE g < 0
  <2> DEFINE h == -g
  <2>1. h \in Nat \ {0} BY <1>2
  <2>2. -(g * k) = h * k /\ g * k = h * (-k) OBVIOUS
  <2>3. (h * k) \div h = k /\ (h * (-k)) \div h = -k BY <2>1, DivExact
  <2>4. -(g * k) \div h = k /\ (g * k) \div h = -k BY <2>2, <2>3
  <2> QED BY <1>2, <2>4 DEF V!Cut
<1> QED BY <1>1, <1>2

Coprime(x, y) == Combines(1, x, y)

LEMMA CoprimeTurned == ASSUME NEW x \in Int, NEW y \in Int, Coprime(x, y) PROVE Coprime(y, x)
<1>1. PICK u, w \in Int : Sum(u, x, w, y) = 1 BY DEF Coprime, Combines
<1>2. Sum(w, y, u, x) = 1 BY <1>1 DEF Sum
<1> QED BY <1>2 DEF Coprime, Combines

\* Lowest terms, by sums of multiples
LEMMA CoprimeIs ==
  ASSUME NEW x \in Int, NEW y \in Int \ {0}
  PROVE  Coprime(x, y) <=> V!Gcd(x, y) = 1
<1> DEFINE g == V!Gcd(x, y)
<1>1. IsGcd(g, x, y) BY GcdIs
<1> HIDE DEF g
<1>2. ASSUME Coprime(x, y) PROVE g = 1
  <2>1. x = 1 * x /\ y = 1 * y OBVIOUS
  <2>2. IsGcd(1, x, y) BY <1>2, <2>1 DEF IsGcd, Divides, Coprime
  <2> QED BY <1>1, <2>2, GcdUnique
<1>3. ASSUME g = 1 PROVE Coprime(x, y) BY <1>1, <1>3 DEF IsGcd, Coprime
<1> QED BY <1>2, <1>3 DEF g

\* What is left of two numbers when each is divided by the greatest common divisor
LEMMA GcdParts ==
  ASSUME NEW x \in Int, NEW y \in Int \ {0}
  PROVE  LET g == V!Gcd(x, y) IN
         /\ g \in Nat \ {0} /\ V!Cut(x, g) \in Int /\ V!Cut(y, g) \in Int \ {0}
         /\ x = g * V!Cut(x, g) /\ y = g * V!Cut(y, g) /\ Coprime(V!Cut(x, g), V!Cut(y, g))
<1> DEFINE g == V!Gcd(x, y)
<1>1. IsGcd(g, x, y) BY GcdIs
<1> HIDE DEF g
<1>2. PICK k \in Int : x = g * k BY <1>1 DEF IsGcd, Divides
<1>3. PICK l \in Int : y = g * l BY <1>1 DEF IsGcd, Divides
<1>4. PICK u, w \in Int : Sum(u, x, w, y) = g BY <1>1 DEF IsGcd, Combines
<1>5. g \in Nat \ {0} BY <1>1 DEF IsGcd
<1>6. V!Cut(x, g) = k /\ V!Cut(y, g) = l BY <1>2, <1>3, <1>5, CutIs
<1>7. u * k + w * l = 1
  <2> DEFINE sum == u * k + w * l
  <2>1. u * (g * k) + w * (g * l) = g * sum BY <1>5
  <2>2. g * sum = g * 1 BY <1>2, <1>3, <1>4, <1>5, <2>1 DEF Sum
  <2>3. sum \in Int OBVIOUS
  <2> HIDE DEF sum
  <2>4. V!Cut(g * sum, g) = sum /\ V!Cut(g * 1, g) = 1 BY <1>5, <2>3, CutIs
  <2> QED BY <2>2, <2>4 DEF sum
<1>8. l # 0 BY <1>3, <1>5
<1> QED BY <1>2, <1>3, <1>5, <1>6, <1>7, <1>8 DEF Coprime, Combines, Sum, g

\* A product of two numbers with nothing in common with a third has nothing in common with it.
LEMMA CoprimeProduct ==
  ASSUME NEW x \in Int, NEW y \in Int, NEW z \in Int, Coprime(x, z), Coprime(y, z)
  PROVE  Coprime(x * y, z)
<1>1. PICK u, w \in Int : Sum(u, x, w, z) = 1 BY DEF Coprime, Combines
<1>2. PICK s, t \in Int : Sum(s, y, t, z) = 1 BY DEF Coprime, Combines
<1>3. (u * x + w * z) * (s * y + t * z) = (u * s) * (x * y) + (u * x * t + w * s * y + w * z * t) * z OBVIOUS
<1>4. (u * s) * (x * y) + (u * x * t + w * s * y + w * z * t) * z = 1 BY <1>1, <1>2, <1>3 DEF Sum
<1>5. u * s \in Int /\ u * x * t + w * s * y + w * z * t \in Int OBVIOUS
<1> QED BY <1>4, <1>5 DEF Coprime, Combines, Sum

\* Nor have their divisors.
LEMMA CoprimePart ==
  ASSUME NEW x \in Int, NEW y \in Int, NEW g \in Int, NEW k \in Int, x = g * k, Coprime(x, y)
  PROVE  Coprime(k, y)
<1>1. PICK u, w \in Int : Sum(u, x, w, y) = 1 BY DEF Coprime, Combines
<1>2. u * (g * k) + w * y = (u * g) * k + w * y /\ u * g \in Int OBVIOUS
<1>3. Sum(u * g, k, w, y) = 1 BY <1>1, <1>2 DEF Sum
<1> QED BY <1>2, <1>3 DEF Coprime, Combines

Lowest(r) == r.num \in Int /\ r.den \in Nat \ {0} /\ Coprime(r.num, r.den)

LEMMA LowestIs == ASSUME NEW r, Lowest(r) PROVE V!InLowestTerms(r)
  BY CoprimeIs DEF Lowest, V!InLowestTerms

\* Two factors that are not 0 can be left away.
LEMMA Cancel == ASSUME NEW x \in Int, NEW y \in Int, NEW z \in Int \ {0}, z * x = z * y PROVE x = y
<1>1. V!Cut(z * x, z) = x /\ V!Cut(z * y, z) = y BY CutIs
<1> QED BY <1>1

\* reduce(): the lowest terms of a fraction
LEMMA ReduceIs ==
  ASSUME NEW num \in Int, NEW den \in Int \ {0}
  PROVE  Lowest(V!Reduce(num, den)) /\ V!Same(V!Reduce(num, den), num, den)
         /\ V!Reduce(num, den) = [num |-> V!Reduce(num, den).num, den |-> V!Reduce(num, den).den]
<1> DEFINE g == V!Gcd(num, den)
<1> DEFINE e == IF den > 0 THEN 1 ELSE -1
<1> DEFINE k == V!Cut(num, g)
<1> DEFINE l == V!Cut(den, g)
<1>1. g \in Nat \ {0} /\ k \in Int /\ l \in Int \ {0} /\ num = g * k /\ den = g * l /\ Coprime(k, l)
  BY GcdParts
<1>2. V!Reduce(num, den) = [num |-> V!Cut(num, g * e), den |-> V!Cut(den, g * e)] BY DEF V!Reduce
<1>3. e \in {1, -1} /\ (den > 0 <=> e = 1) OBVIOUS
<1> HIDE DEF g, k, l, e
<1>4. g * e \in Int \ {0} BY <1>1, <1>3
<1>5. num = (g * e) * (e * k) /\ den = (g * e) * (e * l) BY <1>1, <1>3
<1>6. V!Cut(num, g * e) = e * k /\ V!Cut(den, g * e) = e * l
  <2>1. e * k \in Int /\ e * l \in Int BY <1>1, <1>3
  <2> QED BY <1>4, <1>5, <2>1, CutIs
<1>7. e * l > 0
  <2>1. CASE e = 1
    <3>1. l > 0
      <4>1. ~(l < 0)
        <5> SUFFICES ASSUME l < 0 PROVE FALSE OBVIOUS
        <5>1. g * l < 0 BY <1>1
        <5> QED BY <1>1, <1>3, <2>1, <5>1
      <4> QED BY <1>1, <4>1
    <3> QED BY <1>1, <2>1, <3>1
  <2>2. CASE e = -1
    <3>1. ~(l > 0)
      <4> SUFFICES ASSUME l > 0 PROVE FALSE OBVIOUS
      <4>1. g * l > 0 BY <1>1
      <4> QED BY <1>1, <1>3, <2>2, <4>1
    <3> QED BY <1>1, <2>2, <3>1
  <2> QED BY <1>3, <2>1, <2>2
<1>8. Coprime(e * k, e * l)
  <2>1. PICK u, w \in Int : Sum(u, k, w, l) = 1 BY <1>1 DEF Coprime, Combines
  <2>2. (u * e) * (e * k) + (w * e) * (e * l) = u * k + w * l BY <1>1, <1>3
  <2>3. u * e \in Int /\ w * e \in Int BY <1>3
  <2> QED BY <2>1, <2>2, <2>3 DEF Coprime, Combines, Sum
<1>9. (e * k) * (g * l) = (g * k) * (e * l) BY <1>1, <1>3
<1>10. e * k \in Int /\ e * l \in Nat \ {0} BY <1>1, <1>3, <1>7
<1>11. V!Reduce(num, den) = [num |-> e * k, den |-> e * l] BY <1>2, <1>6
<1> QED BY <1>1, <1>8, <1>9, <1>10, <1>11 DEF Lowest, V!Same

Rational == [num : Int, den : Nat \ {0}]

LEMMA MakeIs ==
  ASSUME NEW num \in Int, NEW den \in Int \ {0}
  PROVE  Lowest(V!Make(num, den)) /\ V!Same(V!Make(num, den), num, den) /\ V!Make(num, den) \in Rational
<1>1. CASE den < 0
  <2> DEFINE r == V!Reduce(-num, -den)
  <2>1. -num \in Int /\ -den \in Int \ {0} BY <1>1
  <2>2. Lowest(r) /\ V!Same(r, -num, -den) /\ r = [num |-> r.num, den |-> r.den] BY <2>1, ReduceIs
  <2>3. V!Make(num, den) = r BY <1>1 DEF V!Make
  <2> HIDE DEF r
  <2>4. r.num \in Int /\ r.den \in Nat \ {0} BY <2>2 DEF Lowest
  <2>5. r.num * (-den) = -(r.num * den) /\ (-num) * r.den = -(num * r.den) BY <2>4
  <2>6. r.num * den \in Int /\ num * r.den \in Int BY <2>4
  <2>7. r.num * den = num * r.den BY <2>2, <2>5, <2>6 DEF V!Same
  <2> QED BY <2>2, <2>3, <2>4, <2>7 DEF V!Same, Rational
<1>2. CASE ~(den < 0)
  <2> DEFINE r == V!Reduce(num, den)
  <2>1. Lowest(r) /\ V!Same(r, num, den) /\ r = [num |-> r.num, den |-> r.den] BY ReduceIs
  <2>2. V!Make(num, den) = r BY <1>2 DEF V!Make
  <2> HIDE DEF r
  <2> QED BY <2>1, <2>2 DEF Lowest, Rational
<1> QED BY <1>1, <1>2

\* Fractions in lowest terms that are the same number are the same fraction.
LEMMA LowestUnique ==
  ASSUME NEW a, NEW b, Lowest(a), Lowest(b), V!Same(a, b.num, b.den)
  PROVE  V!Equals(a, b)
<1> DEFINE m == a.num
<1> DEFINE n == a.den
<1> DEFINE p == b.num
<1> DEFINE q == b.den
<1>1. /\ m \in Int /\ n \in Nat \ {0} /\ p \in Int /\ q \in Nat \ {0} /\ m * q = p * n
      /\ Coprime(m, n) /\ Coprime(p, q)
  BY DEF Lowest, V!Same
<1> HIDE DEF m, n, p, q
<1>2. Divides(n, q)
  <2>1. PICK u, w \in Int : Sum(u, m, w, n) = 1 BY <1>1 DEF Coprime, Combines
  <2>2. (u * m + w * n) * q = u * (m * q) + w * n * q BY <1>1
  <2>3. u * (p * n) + w * n * q = n * (u * p + w * q) BY <1>1
  <2>6. u * m + w * n = 1 BY <2>1 DEF Sum
  <2>7. (u * m + w * n) * q = q BY <1>1, <2>6
  <2>8. m * q = p * n BY <1>1
  <2>4. q = n * (u * p + w * q) BY <2>2, <2>3, <2>7, <2>8
  <2>5. u * p + w * q \in Int BY <1>1
  <2> QED BY <2>4, <2>5 DEF Divides
<1>3. Divides(q, n)
  <2>1. PICK u, w \in Int : Sum(u, p, w, q) = 1 BY <1>1 DEF Coprime, Combines
  <2>2. (u * p + w * q) * n = u * (p * n) + w * q * n BY <1>1
  <2>3. u * (m * q) + w * q * n = q * (u * m + w * n) BY <1>1
  <2>6. u * p + w * q = 1 BY <2>1 DEF Sum
  <2>7. (u * p + w * q) * n = n BY <1>1, <2>6
  <2>8. p * n = m * q BY <1>1
  <2>4. n = q * (u * m + w * n) BY <2>2, <2>3, <2>7, <2>8
  <2>5. u * m + w * n \in Int BY <1>1
  <2> QED BY <2>4, <2>5 DEF Divides
<1>4. n = q BY <1>1, <1>2, <1>3, DividesLess
<1>5. n * m = n * p BY <1>1, <1>4
<1>6. m = p BY <1>1, <1>5, Cancel
<1> QED BY <1>4, <1>6 DEF V!Equals, m, n, p, q

\* What is the same number as one fraction is the same number as any equal one.
LEMMA SameAs ==
  ASSUME NEW x, x.num \in Int, x.den \in Int,
         NEW n \in Int, NEW d \in Int \ {0}, NEW k \in Int, NEW l \in Int, V!Same(x, n, d), n * l = k * d
  PROVE  V!Same(x, k, l)
<1> DEFINE i == x.num
<1> DEFINE j == x.den
<1>1. i \in Int /\ j \in Int /\ i * d = n * j BY DEF V!Same
<1> HIDE DEF i, j
<1>2. d * (i * l) = (i * d) * l /\ (n * j) * l = (n * l) * j /\ (k * d) * j = d * (k * j) BY <1>1
<1>3. d * (i * l) = d * (k * j) BY <1>1, <1>2
<1>4. i * l \in Int /\ k * j \in Int BY <1>1
<1> QED BY <1>3, <1>4, Cancel DEF V!Same, i, j

LEMMA NotZero == ASSUME NEW x \in Int \ {0}, NEW y \in Int \ {0} PROVE x * y \in Int \ {0}
<1>1. CASE x * y = 0
  <2>1. x * y = x * 0 BY <1>1
  <2>2. y = 0 BY <2>1, Cancel
  <2> QED BY <2>2
<1> QED BY <1>1

\* Sum and difference
LEMMA PlusIs ==
  ASSUME NEW p \in Int, NEW q \in Int \ {0}, NEW r \in Int, NEW s \in Int \ {0},
         NEW a, NEW b, Lowest(a), Lowest(b), V!Same(a, p, q), V!Same(b, r, s)
  PROVE  /\ Lowest(V!Plus(a, b)) /\ V!Same(V!Plus(a, b), p * s + r * q, q * s)
         /\ Lowest(V!Minus(a, b)) /\ V!Same(V!Minus(a, b), p * s - r * q, q * s)
<1> DEFINE i == a.num
<1> DEFINE j == a.den
<1> DEFINE k == b.num
<1> DEFINE l == b.den
<1> DEFINE g == V!Gcd(j, l)
<1> DEFINE c == V!Cut(j, g)
<1> DEFINE e == V!Cut(l, g)
<1>1. i \in Int /\ j \in Nat \ {0} /\ k \in Int /\ l \in Nat \ {0} /\ i * q = p * j /\ k * s = r * l
  BY DEF Lowest, V!Same
<1>3. V!Plus(a, b) = V!Reduce(i * e + k * c, j * e) /\ V!Minus(a, b) = V!Reduce(i * e - k * c, j * e)
  BY DEF V!Plus, V!Minus
<1> HIDE DEF i, j, k, l
<1>2. g \in Nat \ {0} /\ c \in Int /\ e \in Int \ {0} /\ j = g * c /\ l = g * e
  <2>1. j \in Int /\ l \in Int \ {0} BY <1>1
  <2> QED BY <2>1, GcdParts
<1> HIDE DEF g, c, e
<1>4. j * e \in Int \ {0} /\ q * s \in Int \ {0} /\ j * l \in Int \ {0} BY <1>1, <1>2, NotZero
<1>5. ASSUME NEW z \in {1, -1}
      PROVE  /\ Lowest(V!Reduce(i * e + z * (k * c), j * e))
             /\ V!Same(V!Reduce(i * e + z * (k * c), j * e), p * s + z * (r * q), q * s)
  <2> DEFINE num == i * e + z * (k * c)
  <2> DEFINE x == V!Reduce(num, j * e)
  <2> DEFINE whole == p * s + z * (r * q)
  <2>1. num \in Int /\ whole \in Int BY <1>1, <1>2
  <2>2. num * (q * s) = whole * (j * e)
    <3> DEFINE left == num * (q * s)
    <3> DEFINE right == whole * (j * e)
    <3>1. left \in Int /\ right \in Int BY <1>1, <1>2
    <3>2. l * left = (i * q) * s * e * l + z * ((k * s) * c * q * l) BY <1>1, <1>2
    <3>3. c * l = j * e
      <4>1. c * (g * e) = (g * c) * e BY <1>2
      <4> QED BY <1>2, <4>1
    <3>4. (k * s) * c * q * l = (k * s) * q * (c * l) BY <1>1, <1>2
    <3>5. l * left = (p * j) * s * e * l + z * ((r * l) * q * (j * e)) BY <1>1, <3>2, <3>3, <3>4
    <3>6. l * right = (p * j) * s * e * l + z * ((r * l) * q * (j * e)) BY <1>1, <1>2
    <3> HIDE DEF left, right
    <3>7. left = right BY <1>1, <3>1, <3>5, <3>6, Cancel
    <3> QED BY <3>7 DEF left, right
  <2>3. Lowest(x) /\ V!Same(x, num, j * e) BY <1>4, <2>1, ReduceIs
  <2> HIDE DEF num, x, whole
  <2>4. V!Same(x, whole, q * s) BY <1>4, <2>1, <2>2, <2>3, SameAs DEF Lowest
  <2> QED BY <2>3, <2>4 DEF num, x, whole
<1>6. i * e + 1 * (k * c) = i * e + k * c /\ i * e + (-1) * (k * c) = i * e - k * c BY <1>1, <1>2
<1>7. p * s + 1 * (r * q) = p * s + r * q /\ p * s + (-1) * (r * q) = p * s - r * q OBVIOUS
<1>8. Lowest(V!Plus(a, b)) /\ V!Same(V!Plus(a, b), p * s + r * q, q * s)
  <2>1. 1 \in {1, -1} OBVIOUS
  <2> QED BY <2>1, <1>3, <1>5, <1>6, <1>7
<1>9. Lowest(V!Minus(a, b)) /\ V!Same(V!Minus(a, b), p * s - r * q, q * s)
  <2>1. -1 \in {1, -1} OBVIOUS
  <2> QED BY <2>1, <1>3, <1>5, <1>6, <1>7
<1> QED BY <1>8, <1>9

\* The product of two fractions, of each of which the other's half is taken out first
LEMMA CrossLowest ==
  ASSUME NEW i \in Int, NEW j \in Int \ {0}, NEW k \in Int, NEW l \in Int \ {0},
         Coprime(i, j), Coprime(k, l)
  PROVE  LET g == V!Gcd(i, l)
             h == V!Gcd(k, j)
             num == V!Cut(i, g) * V!Cut(k, h)
             den == V!Cut(j, h) * V!Cut(l, g)
         IN  num \in Int /\ den \in Int \ {0} /\ Coprime(num, den) /\ num * (j * l) = (i * k) * den
<1> DEFINE g == V!Gcd(i, l)
<1> DEFINE h == V!Gcd(k, j)
<1> DEFINE m == V!Cut(i, g)
<1> DEFINE n == V!Cut(k, h)
<1> DEFINE x == V!Cut(j, h)
<1> DEFINE y == V!Cut(l, g)
<1>1. /\ g \in Nat \ {0} /\ m \in Int /\ y \in Int \ {0} /\ i = g * m /\ l = g * y /\ Coprime(m, y)
      /\ h \in Nat \ {0} /\ n \in Int /\ x \in Int \ {0} /\ k = h * n /\ j = h * x /\ Coprime(n, x)
  BY GcdParts
<1> HIDE DEF g, h, m, n, x, y
<1>2. m * n \in Int /\ x * y \in Int \ {0} BY <1>1, NotZero
<1>3. (m * n) * ((h * x) * (g * y)) = ((g * m) * (h * n)) * (x * y) BY <1>1
<1>4. Coprime(x, m)
  <2>1. Coprime(m, j) BY <1>1, CoprimePart
  <2>2. Coprime(j, m) BY <1>1, <2>1, CoprimeTurned
  <2> QED BY <1>1, <2>2, CoprimePart
<1>5. Coprime(y, n)
  <2>1. Coprime(n, l) BY <1>1, CoprimePart
  <2>2. Coprime(l, n) BY <1>1, <2>1, CoprimeTurned
  <2> QED BY <1>1, <2>2, CoprimePart
<1>6. Coprime(y, m) /\ Coprime(x, n) BY <1>1, CoprimeTurned
<1>7. Coprime(x * y, m) /\ Coprime(x * y, n) BY <1>1, <1>4, <1>5, <1>6, CoprimeProduct
<1>8. Coprime(m, x * y) /\ Coprime(n, x * y) BY <1>1, <1>2, <1>7, CoprimeTurned
<1>9. Coprime(m * n, x * y) BY <1>1, <1>2, <1>8, CoprimeProduct
<1> QED BY <1>1, <1>2, <1>3, <1>9 DEF g, h, m, n, x, y

\* Product
LEMMA TimesIs ==
  ASSUME NEW p \in Int, NEW q \in Int \ {0}, NEW r \in Int, NEW s \in Int \ {0},
         NEW a, NEW b, Lowest(a), Lowest(b), V!Same(a, p, q), V!Same(b, r, s)
  PROVE  Lowest(V!Times(a, b)) /\ V!Same(V!Times(a, b), p * r, q * s)
<1> DEFINE i == a.num
<1> DEFINE j == a.den
<1> DEFINE k == b.num
<1> DEFINE l == b.den
<1> DEFINE num == V!Cut(i, V!Gcd(i, l)) * V!Cut(k, V!Gcd(k, j))
<1> DEFINE den == V!Cut(j, V!Gcd(k, j)) * V!Cut(l, V!Gcd(i, l))
<1>1. /\ i \in Int /\ j \in Nat \ {0} /\ k \in Int /\ l \in Nat \ {0} /\ i * q = p * j /\ k * s = r * l
      /\ Coprime(i, j) /\ Coprime(k, l)
  BY DEF Lowest, V!Same
<1>3. V!Times(a, b) = [num |-> num, den |-> den] BY DEF V!Times
<1> HIDE DEF i, j, k, l
<1>2. num \in Int /\ den \in Int \ {0} /\ Coprime(num, den) /\ num * (j * l) = (i * k) * den
  <2>1. j \in Int \ {0} /\ l \in Int \ {0} BY <1>1
  <2> QED BY <1>1, <2>1, CrossLowest
<1>4. den > 0
  <2> DEFINE g == V!Gcd(i, l)
  <2> DEFINE h == V!Gcd(k, j)
  <2> DEFINE x == V!Cut(j, h)
  <2> DEFINE y == V!Cut(l, g)
  <2>1. g \in Nat \ {0} /\ y \in Int \ {0} /\ l = g * y /\ h \in Nat \ {0} /\ x \in Int \ {0} /\ j = h * x
    <3>1. i \in Int /\ j \in Int \ {0} /\ k \in Int /\ l \in Int \ {0} BY <1>1
    <3> QED BY <3>1, GcdParts
  <2>2. den = x * y OBVIOUS
  <2> HIDE DEF g, h, x, y, den
  <2>3. x > 0
    <3> SUFFICES ASSUME x < 0 PROVE FALSE BY <2>1
    <3>1. h * x < 0 BY <2>1
    <3> QED BY <1>1, <2>1, <3>1
  <2>4. y > 0
    <3> SUFFICES ASSUME y < 0 PROVE FALSE BY <2>1
    <3>1. g * y < 0 BY <2>1
    <3> QED BY <1>1, <2>1, <3>1
  <2>5. x * y > 0 BY <2>1, <2>3, <2>4
  <2> QED BY <2>2, <2>5
<1> DEFINE t == [num |-> num, den |-> den]
<1> HIDE DEF num, den
<1>5. Lowest(t) BY <1>2, <1>4 DEF Lowest
<1>6. V!Same(t, i * k, j * l) BY <1>2 DEF V!Same
<1>7. (i * k) * (q * s) = (p * r) * (j * l)
  <2>1. (i * k) * (q * s) = (i * q) * (k * s) BY <1>1
  <2>2. (p * j) * (r * l) = (p * r) * (j * l) BY <1>1
  <2> QED BY <1>1, <2>1, <2>2
<1>8. i * k \in Int /\ j * l \in Int \ {0} /\ p * r \in Int /\ q * s \in Int BY <1>1, NotZero
<1> HIDE DEF t
<1>9. V!Same(t, p * r, q * s) BY <1>5, <1>6, <1>7, <1>8, SameAs DEF Lowest
<1> QED BY <1>3, <1>5, <1>9 DEF t

\* Quotient
LEMMA OverIs ==
  ASSUME NEW p \in Int, NEW q \in Int \ {0}, NEW r \in Int \ {0}, NEW s \in Int \ {0},
         NEW a, NEW b, Lowest(a), Lowest(b), V!Same(a, p, q), V!Same(b, r, s)
  PROVE  Lowest(V!Over(a, b, FALSE)) /\ V!Same(V!Over(a, b, FALSE), p * s, q * r)
<1> DEFINE i == a.num
<1> DEFINE j == a.den
<1> DEFINE k == b.num
<1> DEFINE l == b.den
<1> DEFINE num == V!Cut(i, V!Gcd(i, k)) * V!Cut(l, V!Gcd(j, l))
<1> DEFINE den == V!Cut(j, V!Gcd(j, l)) * V!Cut(k, V!Gcd(i, k))
<1>1. /\ i \in Int /\ j \in Nat \ {0} /\ k \in Int /\ l \in Nat \ {0} /\ i * q = p * j /\ k * s = r * l
      /\ Coprime(i, j) /\ Coprime(k, l)
  BY DEF Lowest, V!Same
<1>2. V!Over(a, b, FALSE) = IF den < 0 THEN [num |-> -num, den |-> -den] ELSE [num |-> num, den |-> den]
  BY DEF V!Over
<1> HIDE DEF i, j, k, l
<1>3. k # 0
  <2> SUFFICES ASSUME k = 0 PROVE FALSE OBVIOUS
  <2>1. r * l = 0 BY <1>1
  <2>2. r * l \in Int \ {0} BY <1>1, NotZero
  <2> QED BY <2>1, <2>2
<1>4. V!Gcd(j, l) = V!Gcd(l, j)
  <2>1. j \in Int \ {0} /\ l \in Int \ {0} BY <1>1
  <2>2. IsGcd(V!Gcd(j, l), j, l) /\ IsGcd(V!Gcd(l, j), l, j) BY <2>1, GcdIs
  <2>3. IsGcd(V!Gcd(j, l), l, j) BY <2>1, <2>2, GcdTurned
  <2> QED BY <2>1, <2>2, <2>3, GcdUnique
<1>5. num \in Int /\ den \in Int \ {0} /\ Coprime(num, den) /\ num * (j * k) = (i * l) * den
  <2>1. i \in Int /\ j \in Int \ {0} /\ l \in Int /\ k \in Int \ {0} BY <1>1, <1>3
  <2>2. Coprime(l, k) BY <1>1, CoprimeTurned
  <2> QED BY <1>1, <1>4, <2>1, <2>2, CrossLowest
<1> HIDE DEF num, den
<1>6. ASSUME NEW e \in {1, -1}, NEW t, t = [num |-> e * num, den |-> e * den], e * den > 0
      PROVE  Lowest(t) /\ V!Same(t, p * s, q * r)
  <2>1. Coprime(e * num, e * den)
    <3>1. PICK u, w \in Int : Sum(u, num, w, den) = 1 BY <1>5 DEF Coprime, Combines
    <3>2. (u * e) * (e * num) + (w * e) * (e * den) = u * num + w * den BY <1>5
    <3>3. u * e \in Int /\ w * e \in Int OBVIOUS
    <3> QED BY <3>1, <3>2, <3>3 DEF Coprime, Combines, Sum
  <2>2. Lowest(t) BY <1>5, <1>6, <2>1 DEF Lowest
  <2>3. (e * num) * (j * k) = (i * l) * (e * den)
    <3>1. (e * num) * (j * k) = e * (num * (j * k)) /\ (i * l) * (e * den) = e * ((i * l) * den)
      BY <1>1, <1>5
    <3> QED BY <1>5, <3>1
  <2>4. V!Same(t, i * l, j * k) BY <1>6, <2>3 DEF V!Same
  <2>5. (i * l) * (q * r) = (p * s) * (j * k)
    <3>1. (i * l) * (q * r) = (i * q) * (r * l) BY <1>1
    <3>2. (p * j) * (k * s) = (p * s) * (j * k) BY <1>1
    <3> QED BY <1>1, <3>1, <3>2
  <2>6. i * l \in Int /\ j * k \in Int \ {0} /\ p * s \in Int /\ q * r \in Int BY <1>1, <1>3, NotZero
  <2>7. V!Same(t, p * s, q * r) BY <2>2, <2>4, <2>5, <2>6, SameAs DEF Lowest
  <2> QED BY <2>2, <2>7
<1>7. CASE den < 0
  <2>1. -num = (-1) * num /\ -den = (-1) * den /\ (-1) * den > 0 /\ -1 \in {1, -1} BY <1>5, <1>7
  <2>2. V!Over(a, b, FALSE) = [num |-> (-1) * num, den |-> (-1) * den] BY <1>2, <1>7, <2>1
  <2> QED BY <1>6, <2>1, <2>2
<1>8. CASE ~(den < 0)
  <2>1. num = 1 * num /\ den = 1 * den /\ 1 * den > 0 /\ 1 \in {1, -1} BY <1>5, <1>8
  <2>2. V!Over(a, b, FALSE) = [num |-> 1 * num, den |-> 1 * den] BY <1>2, <1>8, <2>1
  <2> QED BY <1>6, <2>1, <2>2
<1> QED BY <1>7, <1>8

\* The operators of ratio are those of the field of fractions, and give lowest terms with a
\* positive denominator, whatever fractions they are given (math/ratio.h; with a type of numbers
\* as wide as the products).
LEMMA RatioHolds ==
  \A p, r \in Int : \A q, s \in Int \ {0} : V!RatioExact(p, q, r, s)
<1> TAKE p, r \in Int
<1> TAKE q, s \in Int \ {0}
<1> DEFINE a == V!Make(p, q)
<1> DEFINE b == V!Make(r, s)
<1>1. Lowest(a) /\ V!Same(a, p, q) /\ Lowest(b) /\ V!Same(b, r, s) BY MakeIs
<1> DEFINE none == V!Make(0, 1)
<1> DEFINE two == V!Make(2, 1)
<1>2. Lowest(none) /\ V!Same(none, 0, 1) /\ Lowest(two) /\ V!Same(two, 2, 1) BY MakeIs
<1> HIDE DEF a, b, none, two
<1>3. q * s \in Int \ {0} /\ q * q \in Int \ {0} /\ 1 * q \in Int \ {0} BY NotZero
<1>4. /\ Lowest(V!Plus(a, b)) /\ V!Same(V!Plus(a, b), p * s + r * q, q * s)
      /\ Lowest(V!Minus(a, b)) /\ V!Same(V!Minus(a, b), p * s - r * q, q * s)
  BY <1>1, PlusIs
<1>5. Lowest(V!Times(a, b)) /\ V!Same(V!Times(a, b), p * r, q * s) BY <1>1, TimesIs
<1>6. ASSUME r # 0 PROVE Lowest(V!Over(a, b, FALSE)) /\ V!Same(V!Over(a, b, FALSE), p * s, q * r)
  BY <1>1, <1>6, OverIs
<1>7. V!Equals(V!Plus(V!Minus(a, b), b), a)
  <2> DEFINE x == V!Plus(V!Minus(a, b), b)
  <2>1. p * s - r * q \in Int OBVIOUS
  <2>2. Lowest(x) /\ V!Same(x, (p * s - r * q) * s + r * (q * s), (q * s) * s)
    BY <1>1, <1>3, <1>4, <2>1, PlusIs
  <2> HIDE DEF x
  <2> DEFINE i == a.num
  <2> DEFINE j == a.den
  <2>3. i \in Int /\ j \in Nat \ {0} /\ i * q = p * j BY <1>1 DEF Lowest, V!Same
  <2> HIDE DEF i, j
  <2>4. ((p * s - r * q) * s + r * (q * s)) * j = i * ((q * s) * s)
    <3>1. ((p * s - r * q) * s + r * (q * s)) * j = (p * j) * (s * s) BY <2>3
    <3>2. i * ((q * s) * s) = (i * q) * (s * s) BY <2>3
    <3> QED BY <2>3, <3>1, <3>2
  <2>5. (p * s - r * q) * s + r * (q * s) \in Int /\ (q * s) * s \in Int \ {0} BY <1>3, NotZero
  <2>6. V!Same(x, i, j) BY <2>2, <2>3, <2>4, <2>5, SameAs DEF Lowest
  <2>7. V!Equals(x, a) BY <1>1, <2>2, <2>6, LowestUnique DEF i, j
  <2> QED BY <2>7 DEF x
<1>8. V!Equals(V!Minus(a, a), none)
  <2> DEFINE x == V!Minus(a, a)
  <2>1. Lowest(x) /\ V!Same(x, p * q - p * q, q * q) BY <1>1, PlusIs
  <2> HIDE DEF x
  <2> DEFINE i == none.num
  <2> DEFINE j == none.den
  <2>2. i \in Int /\ j \in Nat \ {0} /\ i * 1 = 0 * j BY <1>2 DEF Lowest, V!Same
  <2> HIDE DEF i, j
  <2>3. (p * q - p * q) * j = i * (q * q)
    <3>1. i = 0 /\ p * q - p * q = 0 BY <2>2
    <3> QED BY <2>2, <3>1
  <2>4. p * q - p * q \in Int OBVIOUS
  <2>5. V!Same(x, i, j) BY <1>3, <2>1, <2>2, <2>3, <2>4, SameAs DEF Lowest
  <2>6. V!Equals(x, none) BY <1>2, <2>1, <2>5, LowestUnique DEF i, j
  <2> QED BY <2>6 DEF x
<1>9. V!Equals(V!Plus(a, a), V!Times(two, a))
  <2> DEFINE x == V!Plus(a, a)
  <2> DEFINE y == V!Times(two, a)
  <2>1. Lowest(x) /\ V!Same(x, p * q + p * q, q * q) BY <1>1, PlusIs
  <2>2. Lowest(y) /\ V!Same(y, 2 * p, 1 * q) BY <1>1, <1>2, TimesIs
  <2> HIDE DEF x, y
  <2> DEFINE i == y.num
  <2> DEFINE j == y.den
  <2>3. i \in Int /\ j \in Nat \ {0} /\ i * (1 * q) = (2 * p) * j BY <2>2 DEF Lowest, V!Same
  <2> HIDE DEF i, j
  <2>4. (p * q + p * q) * j = i * (q * q)
    <3>1. (p * q + p * q) * j = ((2 * p) * j) * q BY <2>3
    <3>2. i * (q * q) = (i * (1 * q)) * q BY <2>3
    <3> QED BY <2>3, <3>1, <3>2
  <2>5. p * q + p * q \in Int OBVIOUS
  <2>6. V!Same(x, i, j) BY <1>3, <2>1, <2>3, <2>4, <2>5, SameAs DEF Lowest
  <2>7. V!Equals(x, y) BY <2>1, <2>2, <2>6, LowestUnique DEF i, j
  <2> QED BY <2>7 DEF x, y
<1>10. V!InLowestTerms(a) /\ V!InLowestTerms(V!Plus(a, b)) /\ V!InLowestTerms(V!Minus(a, b)) /\ V!InLowestTerms(V!Times(a, b))
  BY <1>1, <1>4, <1>5, LowestIs
<1>11. r # 0 => V!InLowestTerms(V!Over(a, b, FALSE)) BY <1>6, LowestIs
<1> QED BY <1>1, <1>4, <1>5, <1>6, <1>7, <1>8, <1>9, <1>10, <1>11 DEF V!RatioExact, a, b, none, two

-----------------------------------------------------------------------------
(* Vectors of any dimension                                                *)

OfDim(n) == INSTANCE Vector WITH N <- n

\* The first component in which two vectors differ decides.
LEMMA VectorOrder ==
  ASSUME NEW n \in Nat, NEW a \in [1..n -> Int], NEW b \in [1..n -> Int]
  PROVE  /\ OfDim(n)!Less(a, b) <=> ~OfDim(n)!Less(b, a) /\ ~OfDim(n)!Equal(a, b)
         /\ OfDim(n)!Less(a, b) => /\ OfDim(n)!Less(OfDim(n)!Plus(a, a), OfDim(n)!Plus(b, a))
                                   /\ ~OfDim(n)!Less(OfDim(n)!Negate(a), OfDim(n)!Negate(b))
                                   /\ OfDim(n)!Less(OfDim(n)!Minus(a, b), OfDim(n)!Zero)
<1> USE DEF OfDim!Less, OfDim!Equal, OfDim!Dims
<1>1. ASSUME NEW i \in 1..n, a[i] < b[i], \A j \in 1..(i - 1) : a[j] = b[j],
             NEW k \in 1..n, a[k] >= b[k], \A j \in 1..(k - 1) : a[j] = b[j], a[k] # b[k]
      PROVE  FALSE
  <2>1. a[i] \in Int /\ b[i] \in Int /\ a[k] \in Int /\ b[k] \in Int OBVIOUS
  <2>2. i \in Int /\ k \in Int /\ (i < k \/ i = k \/ k < i) OBVIOUS
  <2>3. CASE i < k
    <3>1. i \in 1..(k - 1) BY <2>3
    <3> QED BY <1>1, <2>1, <3>1
  <2>4. CASE k < i
    <3>1. k \in 1..(i - 1) BY <2>4
    <3> QED BY <1>1, <2>1, <3>1
  <2>5. CASE k = i BY <1>1, <2>1, <2>5
  <2> QED BY <2>2, <2>3, <2>4, <2>5
<1>2. OfDim(n)!Less(a, b) => ~OfDim(n)!Less(b, a) /\ ~OfDim(n)!Equal(a, b)
  <2> SUFFICES ASSUME NEW i \in 1..n, a[i] < b[i], \A j \in 1..(i - 1) : a[j] = b[j]
               PROVE  ~OfDim(n)!Less(b, a) /\ ~OfDim(n)!Equal(a, b)
    OBVIOUS
  <2>1. a[i] \in Int /\ b[i] \in Int OBVIOUS
  <2>2. ~OfDim(n)!Equal(a, b) BY <2>1
  <2>3. ASSUME NEW k \in 1..n, b[k] < a[k], \A j \in 1..(k - 1) : b[j] = a[j] PROVE FALSE
    <3>1. a[k] \in Int /\ b[k] \in Int OBVIOUS
    <3>2. a[k] >= b[k] /\ a[k] # b[k] BY <2>3, <3>1
    <3> QED BY <1>1, <2>3, <3>2
  <2> QED BY <2>2, <2>3
<1>3. ~OfDim(n)!Less(b, a) /\ ~OfDim(n)!Equal(a, b) => OfDim(n)!Less(a, b)
  <2> SUFFICES ASSUME ~OfDim(n)!Less(b, a), ~OfDim(n)!Equal(a, b) PROVE OfDim(n)!Less(a, b) OBVIOUS
  <2> DEFINE T == {i \in 1..n : a[i] # b[i]}
  <2>a. PICK i \in 1..n : a[i] # b[i] OBVIOUS
  <2>b. i \in T BY <2>a
  <2>c. T \subseteq Nat OBVIOUS
  <2>d. \A j \in T : j \in 1..n /\ a[j] # b[j] OBVIOUS
  <2>e. \A j \in 1..n : j \notin T => a[j] = b[j] OBVIOUS
  <2> HIDE DEF T
  <2>1. T # {} BY <2>b
  <2>2. PICK l \in T : \A j \in T : l <= j BY <2>1, <2>c, LeastOf
  <2>3. \A j \in 1..(l - 1) : a[j] = b[j]
    <3> TAKE j \in 1..(l - 1)
    <3>1. j \in 1..n /\ ~(l <= j) BY <2>d
    <3> QED BY <2>2, <2>e, <3>1
  <2>4. a[l] \in Int /\ b[l] \in Int /\ a[l] # b[l] /\ l \in 1..n BY <2>d
  <2>5. CASE b[l] < a[l]
    <3>1. \A j \in 1..(l - 1) : b[j] = a[j] BY <2>3
    <3> QED BY <2>4, <2>5, <3>1
  <2>6. CASE a[l] < b[l] BY <2>3, <2>4, <2>6
  <2> QED BY <2>4, <2>5, <2>6
<1>4. ASSUME OfDim(n)!Less(a, b)
      PROVE  /\ OfDim(n)!Less(OfDim(n)!Plus(a, a), OfDim(n)!Plus(b, a))
             /\ ~OfDim(n)!Less(OfDim(n)!Negate(a), OfDim(n)!Negate(b))
             /\ OfDim(n)!Less(OfDim(n)!Minus(a, b), OfDim(n)!Zero)
  <2>1. PICK i \in 1..n : a[i] < b[i] /\ \A j \in 1..(i - 1) : a[j] = b[j] BY <1>4
  <2>2. a[i] \in Int /\ b[i] \in Int /\ \A j \in 1..(i - 1) : j \in 1..n /\ a[j] \in Int /\ b[j] \in Int OBVIOUS
  <2>3. OfDim(n)!Less(OfDim(n)!Plus(a, a), OfDim(n)!Plus(b, a))
    <3> DEFINE p == OfDim(n)!Plus(a, a)
    <3> DEFINE q == OfDim(n)!Plus(b, a)
    <3>1. p[i] < q[i] BY <2>1, <2>2 DEF OfDim!Plus
    <3>2. \A j \in 1..(i - 1) : p[j] = q[j] BY <2>1, <2>2 DEF OfDim!Plus
    <3> QED BY <3>1, <3>2
  <2>4. ASSUME NEW k \in 1..n, OfDim(n)!Negate(a)[k] < OfDim(n)!Negate(b)[k],
               \A j \in 1..(k - 1) : OfDim(n)!Negate(a)[j] = OfDim(n)!Negate(b)[j]
        PROVE  FALSE
    <3>1. a[k] \in Int /\ b[k] \in Int /\ \A j \in 1..(k - 1) : j \in 1..n /\ a[j] \in Int /\ b[j] \in Int OBVIOUS
    <3>2. -a[k] < -b[k] BY <2>4 DEF OfDim!Negate
    <3>3. \A j \in 1..(k - 1) : -a[j] = -b[j] BY <2>4, <3>1 DEF OfDim!Negate
    <3>4. a[k] >= b[k] /\ a[k] # b[k] BY <3>1, <3>2
    <3>5. \A j \in 1..(k - 1) : a[j] = b[j]
      <4> TAKE j \in 1..(k - 1)
      <4> QED BY <3>1, <3>3
    <3> QED BY <1>1, <2>1, <3>4, <3>5
  <2>5. OfDim(n)!Less(OfDim(n)!Minus(a, b), OfDim(n)!Zero)
    <3> DEFINE p == OfDim(n)!Minus(a, b)
    <3>1. p[i] < 0 /\ OfDim(n)!Zero[i] = 0 BY <2>1, <2>2 DEF OfDim!Minus, OfDim!Zero
    <3>2. \A j \in 1..(i - 1) : p[j] = 0 /\ OfDim(n)!Zero[j] = 0 BY <2>1, <2>2 DEF OfDim!Minus, OfDim!Zero
    <3> QED BY <3>1, <3>2
  <2> QED BY <2>3, <2>4, <2>5
<1> QED BY <1>2, <1>3, <1>4

\* The sum of sums is the sum.
LEMMA TotalPlus ==
  ASSUME NEW f, NEW g, NEW h
  PROVE  \A n \in Nat : (\A i \in 1..n : g[i] \in Int /\ h[i] \in Int /\ f[i] = g[i] + h[i]) =>
           Total(f, 1..n) = Total(g, 1..n) + Total(h, 1..n)
<1> DEFINE T == {n \in Nat : (\A i \in 1..n : g[i] \in Int /\ h[i] \in Int /\ f[i] = g[i] + h[i]) =>
                               Total(f, 1..n) = Total(g, 1..n) + Total(h, 1..n)}
<1>1. 0 \in T
  <2>1. Total(f, 1..0) = 0 /\ Total(g, 1..0) = 0 /\ Total(h, 1..0) = 0 BY TotalRange
  <2> QED BY <2>1
<1>2. ASSUME NEW n \in Nat, n \in T PROVE n + 1 \in T
  <2> DEFINE d == n + 1
  <2> SUFFICES ASSUME \A i \in 1..d : g[i] \in Int /\ h[i] \in Int /\ f[i] = g[i] + h[i]
               PROVE  Total(f, 1..d) = Total(g, 1..d) + Total(h, 1..d)
    OBVIOUS
  <2>1. d \in Int /\ d - 1 = n /\ 1 <= d /\ d \in 1..d OBVIOUS
  <2>2. Total(f, 1..n) = Total(g, 1..n) + Total(h, 1..n) BY <1>2
  <2> HIDE DEF d, T
  <2>3. /\ Total(f, 1..d) = f[d] + Total(f, 1..n)
        /\ Total(g, 1..d) = g[d] + Total(g, 1..n)
        /\ Total(h, 1..d) = h[d] + Total(h, 1..n)
    BY <2>1, TotalRange
  <2>4. Total(g, 1..n) \in Int /\ Total(h, 1..n) \in Int BY <2>1, TotalRange
  <2>5. g[d] \in Int /\ h[d] \in Int /\ f[d] = g[d] + h[d] BY <2>1
  <2> QED BY <2>2, <2>3, <2>4, <2>5
<1> HIDE DEF T
<1>3. \A n \in Nat : n \in T BY <1>1, <1>2, FromBefore
<1> QED BY <1>3 DEF T

\* The inner product is a sum over the dimensions.
LEMMA InnerIs ==
  ASSUME NEW n \in Nat, NEW a, NEW b
  PROVE  OfDim(n)!Inner(a, b) = Total([i \in 1..n |-> a[i] * b[i]], 1..n)
BY DEF OfDim!Inner, OfDim!Dims, OfDim!SumFunction, OfDim!SumFunctionOnSet, OfDim!FoldFunctionOnSet,
       OfDim!MapThenFoldSet, Total, F!MapThenSumSet, F!MapThenFoldSet

\* The norm of a sum
LEMMA VectorNorm ==
  ASSUME NEW n \in Nat, NEW a \in [1..n -> Int], NEW b \in [1..n -> Int]
  PROVE  OfDim(n)!Norm(OfDim(n)!Plus(a, b)) =
           OfDim(n)!Norm(a) + 2 * OfDim(n)!Inner(a, b) + OfDim(n)!Norm(b)
<1> DEFINE c == OfDim(n)!Plus(a, b)
<1> DEFINE cc == [i \in 1..n |-> c[i] * c[i]]
<1> DEFINE aa == [i \in 1..n |-> a[i] * a[i]]
<1> DEFINE ab == [i \in 1..n |-> a[i] * b[i]]
<1> DEFINE bb == [i \in 1..n |-> b[i] * b[i]]
<1> DEFINE p == [i \in 1..n |-> aa[i] + ab[i]]
<1> DEFINE q == [i \in 1..n |-> bb[i] + ab[i]]
<1>1. ASSUME NEW i \in 1..n
      PROVE  /\ aa[i] \in Int /\ ab[i] \in Int /\ bb[i] \in Int /\ p[i] \in Int /\ q[i] \in Int
             /\ p[i] = aa[i] + ab[i] /\ q[i] = bb[i] + ab[i] /\ cc[i] = p[i] + q[i]
  <2> DEFINE x == a[i]
  <2> DEFINE y == b[i]
  <2>1. x \in Int /\ y \in Int OBVIOUS
  <2>2. c[i] = x + y BY DEF OfDim!Plus, OfDim!Dims
  <2>3. aa[i] = x * x /\ ab[i] = x * y /\ bb[i] = y * y /\ cc[i] = (x + y) * (x + y) BY <2>2
  <2>4. p[i] = x * x + x * y /\ q[i] = y * y + x * y BY <2>3
  <2> HIDE DEF x, y, c, aa, ab, bb, cc, p, q
  <2>5. x * x \in Int /\ x * y \in Int /\ y * y \in Int BY <2>1
  <2>6. (x + y) * (x + y) = (x * x + x * y) + (y * y + x * y) BY <2>1
  <2> QED BY <2>3, <2>4, <2>5, <2>6
<1>2. OfDim(n)!Norm(c) = Total(cc, 1..n) /\ OfDim(n)!Norm(a) = Total(aa, 1..n)
      /\ OfDim(n)!Inner(a, b) = Total(ab, 1..n) /\ OfDim(n)!Norm(b) = Total(bb, 1..n)
  BY InnerIs DEF OfDim!Norm
<1> HIDE DEF c, cc, aa, ab, bb, p, q
<1>3. Total(cc, 1..n) = Total(p, 1..n) + Total(q, 1..n) BY <1>1, TotalPlus
<1>4. Total(p, 1..n) = Total(aa, 1..n) + Total(ab, 1..n) BY <1>1, TotalPlus
<1>5. Total(q, 1..n) = Total(bb, 1..n) + Total(ab, 1..n) BY <1>1, TotalPlus
<1>6. Total(aa, 1..n) \in Int /\ Total(ab, 1..n) \in Int /\ Total(bb, 1..n) \in Int BY <1>1, TotalRange
<1> QED BY <1>2, <1>3, <1>4, <1>5, <1>6 DEF c

\* A product is divided by its factor without a rest.
LEMMA VectorCut ==
  ASSUME NEW n \in Nat, NEW x \in Int, NEW m \in Int \ {0}
  PROVE  OfDim(n)!Cut(m * x, m) = x
<1> USE DEF OfDim!Cut, OfDim!Abs
<1>0. m * x \in Int /\ (-m) * x = -(m * x) /\ m * (-x) = -(m * x) /\ (-m) * (-x) = m * x OBVIOUS
<1>1. CASE m > 0 /\ x >= 0
  <2>1. m * x >= 0 BY <1>1
  <2>2. (m * x) \div m = x BY <1>1, DivExact
  <2> QED BY <1>0, <1>1, <2>1, <2>2
<1>2. CASE m > 0 /\ x < 0
  <2>1. m * x < 0 BY <1>2
  <2>2. (m * (-x)) \div m = -x BY <1>2, DivExact
  <2> QED BY <1>0, <1>2, <2>1, <2>2
<1>3. CASE m < 0 /\ x > 0
  <2>1. m * x < 0 BY <1>3
  <2>2. ((-m) * x) \div (-m) = x BY <1>3, DivExact
  <2> QED BY <1>0, <1>3, <2>1, <2>2
<1>4. CASE m < 0 /\ x <= 0
  <2>1. m * x >= 0 BY <1>4
  <2>2. ((-m) * (-x)) \div (-m) = -x BY <1>4, DivExact
  <2>3. CASE x = 0
    <3>1. m * x = 0 BY <2>3
    <3>2. ((-m) * 0) \div (-m) = 0 /\ (-m) * 0 = 0 BY <1>4, DivExact
    <3> QED BY <1>4, <2>3, <3>1, <3>2
  <2>4. CASE x < 0
    <3>1. m * x > 0 BY <1>4, <2>4
    <3> QED BY <1>0, <1>4, <2>2, <2>4, <3>1
  <2> QED BY <1>4, <2>3, <2>4
<1> QED BY <1>1, <1>2, <1>3, <1>4

\* Scaling by a component and dividing by it
LEMMA VectorScaled ==
  ASSUME NEW n \in Nat, NEW a \in [1..n -> Int], NEW k \in 1..n
  PROVE  /\ a[k] # 0 => OfDim(n)!DivideBy(a, k)[k] = 1
         /\ OfDim(n)!ScaleBy(a, k)[k] = a[k] * a[k]
         /\ a[k] # 0 => OfDim(n)!Equal(OfDim(n)!Divide(OfDim(n)!ScaleBy(a, k), a[k]), a)
<1> DEFINE m == a[k]
<1>0. m \in Int OBVIOUS
<1>1. \A i \in 1..n : OfDim(n)!ScaleBy(a, k)[i] = m * a[i] /\ a[i] \in Int
  BY DEF OfDim!ScaleBy, OfDim!Scale, OfDim!Dims
<1>2. ASSUME m # 0 PROVE OfDim(n)!DivideBy(a, k)[k] = 1
  <2>1. OfDim(n)!DivideBy(a, k)[k] = OfDim(n)!Cut(m, m)
    BY DEF OfDim!DivideBy, OfDim!Divide, OfDim!Dims
  <2> HIDE DEF m
  <2>2. OfDim(n)!Cut(m * 1, m) = 1 BY <1>0, <1>2, VectorCut
  <2>3. m * 1 = m BY <1>0
  <2> QED BY <2>1, <2>2, <2>3
<1>3. ASSUME m # 0 PROVE OfDim(n)!Equal(OfDim(n)!Divide(OfDim(n)!ScaleBy(a, k), m), a)
  <2>1. \A i \in 1..n : OfDim(n)!Divide(OfDim(n)!ScaleBy(a, k), m)[i] = OfDim(n)!Cut(m * a[i], m)
    <3> HIDE DEF m
    <3> QED BY <1>1 DEF OfDim!Divide, OfDim!Dims
  <2> HIDE DEF m
  <2>2. \A i \in 1..n : OfDim(n)!Cut(m * a[i], m) = a[i]
    <3> TAKE i \in 1..n
    <3>1. a[i] \in Int OBVIOUS
    <3> QED BY <1>0, <1>3, <3>1, VectorCut
  <2> QED BY <2>1, <2>2 DEF OfDim!Equal, OfDim!Dims
<1> QED BY <1>1, <1>2, <1>3

\* The outer product in two dimensions
LEMMA VectorOuter2 ==
  ASSUME NEW a \in [1..2 -> Int], NEW b \in [1..2 -> Int]
  PROVE  V!Outer2(a, b) * V!Outer2(a, b) + OfDim(2)!Inner(a, b) * OfDim(2)!Inner(a, b)
           = OfDim(2)!Norm(a) * OfDim(2)!Norm(b)
<1>1. ASSUME NEW c \in [1..2 -> Int], NEW d \in [1..2 -> Int]
      PROVE  OfDim(2)!Inner(c, d) = c[1] * d[1] + c[2] * d[2]
  <2> DEFINE p == [i \in 1..2 |-> c[i] * d[i]]
  <2>1. OfDim(2)!Inner(c, d) = Total(p, 1..2) BY InnerIs
  <2>2. p[1] = c[1] * d[1] /\ p[2] = c[2] * d[2] /\ \A i \in 1..2 : p[i] \in Int OBVIOUS
  <2>0. p[1] \in Int /\ p[2] \in Int OBVIOUS
  <2>a. \A i \in 1..2 : p[i] \in Int BY <2>0
  <2> HIDE DEF p
  <2>3. ASSUME NEW j \in 1..2 PROVE Total(p, 1..j) = p[j] + Total(p, 1..(j - 1))
    <3>1. j \in Int /\ 1 <= j /\ \A i \in 1..j : p[i] \in Int BY <2>a
    <3> QED BY <3>1, TotalRange
  <2>4. Total(p, 1..2) = p[2] + Total(p, 1..1) BY <2>3, 2 - 1 = 1
  <2>5. Total(p, 1..1) = p[1] + Total(p, 1..0) BY <2>3, 1 - 1 = 0
  <2>6. Total(p, 1..0) = 0 BY TotalRange
  <2> QED BY <2>0, <2>1, <2>2, <2>4, <2>5, <2>6
<1> DEFINE x == a[1]
<1> DEFINE y == a[2]
<1> DEFINE z == b[1]
<1> DEFINE w == b[2]
<1>2. x \in Int /\ y \in Int /\ z \in Int /\ w \in Int OBVIOUS
<1>3. /\ OfDim(2)!Inner(a, b) = x * z + y * w
      /\ OfDim(2)!Norm(a) = x * x + y * y
      /\ OfDim(2)!Norm(b) = z * z + w * w
  BY <1>1 DEF OfDim!Norm
<1>4. V!Outer2(a, b) = x * w - y * z BY DEF V!Outer2
<1> HIDE DEF x, y, z, w
<1>5. (x * w - y * z) * (x * w - y * z) + (x * z + y * w) * (x * z + y * w)
        = (x * x + y * y) * (z * z + w * w)
  BY <1>2
<1> QED BY <1>3, <1>4, <1>5

\* The outer product in three dimensions
LEMMA VectorOuter3 ==
  ASSUME NEW a \in [1..3 -> Int], NEW b \in [1..3 -> Int]
  PROVE  /\ OfDim(3)!Inner(V!Outer3(a, b), a) = 0
         /\ OfDim(3)!Inner(V!Outer3(a, b), b) = 0
<1>1. ASSUME NEW c, c[1] \in Int, c[2] \in Int, c[3] \in Int, NEW d \in [1..3 -> Int]
      PROVE  OfDim(3)!Inner(c, d) = c[1] * d[1] + c[2] * d[2] + c[3] * d[3]
  <2> DEFINE p == [i \in 1..3 |-> c[i] * d[i]]
  <2>1. OfDim(3)!Inner(c, d) = Total(p, 1..3) BY InnerIs
  <2>2. p[1] = c[1] * d[1] /\ p[2] = c[2] * d[2] /\ p[3] = c[3] * d[3] OBVIOUS
  <2>0. p[1] \in Int /\ p[2] \in Int /\ p[3] \in Int BY <1>1
  <2>a. \A i \in 1..3 : p[i] \in Int BY <2>0
  <2> HIDE DEF p
  <2>3. ASSUME NEW j \in 1..3 PROVE Total(p, 1..j) = p[j] + Total(p, 1..(j - 1))
    <3>1. j \in Int /\ 1 <= j /\ \A i \in 1..j : p[i] \in Int BY <2>a
    <3> QED BY <3>1, TotalRange
  <2>4. Total(p, 1..3) = p[3] + Total(p, 1..2) BY <2>3, 3 - 1 = 2
  <2>5. Total(p, 1..2) = p[2] + Total(p, 1..1) BY <2>3, 2 - 1 = 1
  <2>6. Total(p, 1..1) = p[1] + Total(p, 1..0) BY <2>3, 1 - 1 = 0
  <2>7. Total(p, 1..0) = 0 BY TotalRange
  <2> QED BY <2>0, <2>1, <2>2, <2>4, <2>5, <2>6, <2>7
<1> DEFINE x == a[1]
<1> DEFINE y == a[2]
<1> DEFINE z == a[3]
<1> DEFINE u == b[1]
<1> DEFINE r == b[2]
<1> DEFINE w == b[3]
<1> DEFINE o == V!Outer3(a, b)
<1>2. x \in Int /\ y \in Int /\ z \in Int /\ u \in Int /\ r \in Int /\ w \in Int OBVIOUS
<1>3. o[1] = y * w - z * r /\ o[2] = z * u - x * w /\ o[3] = x * r - y * u BY DEF V!Outer3
<1> HIDE DEF o
<1>4. o[1] \in Int /\ o[2] \in Int /\ o[3] \in Int
  <2> HIDE DEF x, y, z, u, r, w
  <2> QED BY <1>2, <1>3
<1>5. OfDim(3)!Inner(o, a) = o[1] * x + o[2] * y + o[3] * z BY <1>1, <1>4
<1>6. OfDim(3)!Inner(o, b) = o[1] * u + o[2] * r + o[3] * w BY <1>1, <1>4
<1> HIDE DEF x, y, z, u, r, w
<1>7. /\ (y * w - z * r) * x + (z * u - x * w) * y + (x * r - y * u) * z = 0
      /\ (y * w - z * r) * u + (z * u - x * w) * r + (x * r - y * u) * w = 0
  BY <1>2
<1> QED BY <1>3, <1>5, <1>6, <1>7 DEF o

\* What is written is read back.
LEMMA VectorRead ==
  ASSUME NEW n \in Nat, NEW a \in [1..n -> Int], NEW b \in [1..n -> Int]
  PROVE  OfDim(n)!Equal(OfDim(n)!Read(OfDim(n)!Write(a) \o OfDim(n)!Write(b), 0), a)
<1> DEFINE s == [i \in 1..n |-> a[i]]
<1> DEFINE t == [i \in 1..n |-> b[i]]
<1>1. s \in Seq(Int) /\ t \in Seq(Int) /\ Len(s) = n /\ Len(t) = n OBVIOUS
<1>2. \A i \in 1..n : s[i] = a[i] OBVIOUS
<1>3. OfDim(n)!Write(a) = s /\ OfDim(n)!Write(b) = t BY DEF OfDim!Write, OfDim!Dims
<1> HIDE DEF s, t
<1> DEFINE st == s \o t
<1>4. Len(st) = n + n
  <2>1. \A p, q \in Seq(Int) : Len(p \o q) = Len(p) + Len(q) OBVIOUS
  <2>2. Len(s \o t) = Len(s) + Len(t) BY <1>1, <2>1
  <2> QED BY <1>1, <2>2
<1>5. \A i \in 1..n : st[i] = s[i]
  <2> TAKE i \in 1..n
  <2>1. i \in 1..(Len(s) + Len(t)) /\ i <= Len(s) BY <1>1
  <2> QED BY <1>1, <2>1
<1>6. OfDim(n)!Write(a) \o OfDim(n)!Write(b) = st BY <1>3
<1> HIDE DEF st
<1>7. \A i \in 1..n : i <= Len(st) BY <1>4
<1>8. \A i \in 1..n : OfDim(n)!Read(st, 0)[i] = st[i] BY <1>7 DEF OfDim!Read, OfDim!Dims
<1> QED BY <1>2, <1>5, <1>6, <1>8 DEF OfDim!Equal, OfDim!Dims

\* The laws hold in every dimension.
LEMMA VectorLawsHold ==
  ASSUME NEW n \in Nat, NEW a \in [1..n -> Int], NEW b \in [1..n -> Int]
  PROVE  OfDim(n)!VectorLaws(a, b)
<1>1. \A k \in 1..n : /\ a[k] # 0 => OfDim(n)!DivideBy(a, k)[k] = 1
                      /\ OfDim(n)!ScaleBy(a, k)[k] = a[k] * a[k]
                      /\ a[k] # 0 => OfDim(n)!Equal(OfDim(n)!Divide(OfDim(n)!ScaleBy(a, k), a[k]), a)
  BY VectorScaled
<1>4. OfDim(n)!Norm(OfDim(n)!Plus(a, b)) = OfDim(n)!Norm(a) + 2 * OfDim(n)!Inner(a, b) + OfDim(n)!Norm(b)
  BY VectorNorm
<1>5. OfDim(n)!Equal(OfDim(n)!Read(OfDim(n)!Write(a) \o OfDim(n)!Write(b), 0), a) BY VectorRead
<1>6. /\ OfDim(n)!Less(a, b) <=> ~OfDim(n)!Less(b, a) /\ ~OfDim(n)!Equal(a, b)
      /\ OfDim(n)!Less(a, b) => /\ OfDim(n)!Less(OfDim(n)!Plus(a, a), OfDim(n)!Plus(b, a))
                                /\ ~OfDim(n)!Less(OfDim(n)!Negate(a), OfDim(n)!Negate(b))
                                /\ OfDim(n)!Less(OfDim(n)!Minus(a, b), OfDim(n)!Zero)
  BY VectorOrder
<1> QED BY <1>1, <1>4, <1>5, <1>6, Zenon DEF OfDim!VectorLaws, OfDim!Dims

\* The classes are the vectors of their dimensions.
LEMMA ClassLawsHold ==
  ASSUME NEW n \in Nat, NEW a \in [1..n -> Int], NEW b \in [1..n -> Int]
  PROVE  V!ClassLaws(n, a, b)
<1>0. OfDim(n)!VectorLaws(a, b) BY VectorLawsHold
<1>1. ASSUME n = 2 PROVE V!vector2!VectorLaws(a, b)
  <2>1. OfDim(2)!VectorLaws(a, b) BY <1>0, <1>1, Zenon
  <2> QED
    BY <2>1, Zenon DEF
      OfDim!VectorLaws, OfDim!Less, OfDim!Equal, OfDim!Plus, OfDim!Negate, OfDim!Minus, OfDim!Zero,
      OfDim!Norm, OfDim!Inner, OfDim!DivideBy, OfDim!ScaleBy, OfDim!Divide, OfDim!Scale, OfDim!Cut,
      OfDim!Abs, OfDim!Read, OfDim!Write, OfDim!Dims, OfDim!SumFunction,
      OfDim!SumFunctionOnSet, OfDim!FoldFunctionOnSet, OfDim!MapThenFoldSet,
      V!vector2!VectorLaws, V!vector2!Less, V!vector2!Equal, V!vector2!Plus, V!vector2!Negate,
      V!vector2!Minus, V!vector2!Zero, V!vector2!Norm, V!vector2!Inner, V!vector2!DivideBy,
      V!vector2!ScaleBy, V!vector2!Divide, V!vector2!Scale, V!vector2!Cut, V!vector2!Abs,
      V!vector2!Read, V!vector2!Write, V!vector2!Dims,
      V!vector2!SumFunction, V!vector2!SumFunctionOnSet, V!vector2!FoldFunctionOnSet,
      V!vector2!MapThenFoldSet
<1>2. ASSUME n = 3 PROVE V!vector3!VectorLaws(a, b)
  <2>1. OfDim(3)!VectorLaws(a, b) BY <1>0, <1>2, Zenon
  <2> QED
    BY <2>1, Zenon DEF
      OfDim!VectorLaws, OfDim!Less, OfDim!Equal, OfDim!Plus, OfDim!Negate, OfDim!Minus, OfDim!Zero,
      OfDim!Norm, OfDim!Inner, OfDim!DivideBy, OfDim!ScaleBy, OfDim!Divide, OfDim!Scale, OfDim!Cut,
      OfDim!Abs, OfDim!Read, OfDim!Write, OfDim!Dims, OfDim!SumFunction,
      OfDim!SumFunctionOnSet, OfDim!FoldFunctionOnSet, OfDim!MapThenFoldSet,
      V!vector3!VectorLaws, V!vector3!Less, V!vector3!Equal, V!vector3!Plus, V!vector3!Negate,
      V!vector3!Minus, V!vector3!Zero, V!vector3!Norm, V!vector3!Inner, V!vector3!DivideBy,
      V!vector3!ScaleBy, V!vector3!Divide, V!vector3!Scale, V!vector3!Cut, V!vector3!Abs,
      V!vector3!Read, V!vector3!Write, V!vector3!Dims,
      V!vector3!SumFunction, V!vector3!SumFunctionOnSet, V!vector3!FoldFunctionOnSet,
      V!vector3!MapThenFoldSet
<1>3. ASSUME n = 4 PROVE V!vector4!VectorLaws(a, b)
  <2>1. OfDim(4)!VectorLaws(a, b) BY <1>0, <1>3, Zenon
  <2> QED
    BY <2>1, Zenon DEF
      OfDim!VectorLaws, OfDim!Less, OfDim!Equal, OfDim!Plus, OfDim!Negate, OfDim!Minus, OfDim!Zero,
      OfDim!Norm, OfDim!Inner, OfDim!DivideBy, OfDim!ScaleBy, OfDim!Divide, OfDim!Scale, OfDim!Cut,
      OfDim!Abs, OfDim!Read, OfDim!Write, OfDim!Dims, OfDim!SumFunction,
      OfDim!SumFunctionOnSet, OfDim!FoldFunctionOnSet, OfDim!MapThenFoldSet,
      V!vector4!VectorLaws, V!vector4!Less, V!vector4!Equal, V!vector4!Plus, V!vector4!Negate,
      V!vector4!Minus, V!vector4!Zero, V!vector4!Norm, V!vector4!Inner, V!vector4!DivideBy,
      V!vector4!ScaleBy, V!vector4!Divide, V!vector4!Scale, V!vector4!Cut, V!vector4!Abs,
      V!vector4!Read, V!vector4!Write, V!vector4!Dims,
      V!vector4!SumFunction, V!vector4!SumFunctionOnSet, V!vector4!FoldFunctionOnSet,
      V!vector4!MapThenFoldSet
<1>4. ASSUME n = 5 PROVE V!vector5!VectorLaws(a, b)
  <2>1. OfDim(5)!VectorLaws(a, b) BY <1>0, <1>4, Zenon
  <2> QED
    BY <2>1, Zenon DEF
      OfDim!VectorLaws, OfDim!Less, OfDim!Equal, OfDim!Plus, OfDim!Negate, OfDim!Minus, OfDim!Zero,
      OfDim!Norm, OfDim!Inner, OfDim!DivideBy, OfDim!ScaleBy, OfDim!Divide, OfDim!Scale, OfDim!Cut,
      OfDim!Abs, OfDim!Read, OfDim!Write, OfDim!Dims, OfDim!SumFunction,
      OfDim!SumFunctionOnSet, OfDim!FoldFunctionOnSet, OfDim!MapThenFoldSet,
      V!vector5!VectorLaws, V!vector5!Less, V!vector5!Equal, V!vector5!Plus, V!vector5!Negate,
      V!vector5!Minus, V!vector5!Zero, V!vector5!Norm, V!vector5!Inner, V!vector5!DivideBy,
      V!vector5!ScaleBy, V!vector5!Divide, V!vector5!Scale, V!vector5!Cut, V!vector5!Abs,
      V!vector5!Read, V!vector5!Write, V!vector5!Dims,
      V!vector5!SumFunction, V!vector5!SumFunctionOnSet, V!vector5!FoldFunctionOnSet,
      V!vector5!MapThenFoldSet
<1>5. ASSUME n = 6 PROVE V!vector6!VectorLaws(a, b)
  <2>1. OfDim(6)!VectorLaws(a, b) BY <1>0, <1>5, Zenon
  <2> QED
    BY <2>1, Zenon DEF
      OfDim!VectorLaws, OfDim!Less, OfDim!Equal, OfDim!Plus, OfDim!Negate, OfDim!Minus, OfDim!Zero,
      OfDim!Norm, OfDim!Inner, OfDim!DivideBy, OfDim!ScaleBy, OfDim!Divide, OfDim!Scale, OfDim!Cut,
      OfDim!Abs, OfDim!Read, OfDim!Write, OfDim!Dims, OfDim!SumFunction,
      OfDim!SumFunctionOnSet, OfDim!FoldFunctionOnSet, OfDim!MapThenFoldSet,
      V!vector6!VectorLaws, V!vector6!Less, V!vector6!Equal, V!vector6!Plus, V!vector6!Negate,
      V!vector6!Minus, V!vector6!Zero, V!vector6!Norm, V!vector6!Inner, V!vector6!DivideBy,
      V!vector6!ScaleBy, V!vector6!Divide, V!vector6!Scale, V!vector6!Cut, V!vector6!Abs,
      V!vector6!Read, V!vector6!Write, V!vector6!Dims,
      V!vector6!SumFunction, V!vector6!SumFunctionOnSet, V!vector6!FoldFunctionOnSet,
      V!vector6!MapThenFoldSet
<1>6. ASSUME n = 7 PROVE V!vector7!VectorLaws(a, b)
  <2>1. OfDim(7)!VectorLaws(a, b) BY <1>0, <1>6, Zenon
  <2> QED
    BY <2>1, Zenon DEF
      OfDim!VectorLaws, OfDim!Less, OfDim!Equal, OfDim!Plus, OfDim!Negate, OfDim!Minus, OfDim!Zero,
      OfDim!Norm, OfDim!Inner, OfDim!DivideBy, OfDim!ScaleBy, OfDim!Divide, OfDim!Scale, OfDim!Cut,
      OfDim!Abs, OfDim!Read, OfDim!Write, OfDim!Dims, OfDim!SumFunction,
      OfDim!SumFunctionOnSet, OfDim!FoldFunctionOnSet, OfDim!MapThenFoldSet,
      V!vector7!VectorLaws, V!vector7!Less, V!vector7!Equal, V!vector7!Plus, V!vector7!Negate,
      V!vector7!Minus, V!vector7!Zero, V!vector7!Norm, V!vector7!Inner, V!vector7!DivideBy,
      V!vector7!ScaleBy, V!vector7!Divide, V!vector7!Scale, V!vector7!Cut, V!vector7!Abs,
      V!vector7!Read, V!vector7!Write, V!vector7!Dims,
      V!vector7!SumFunction, V!vector7!SumFunctionOnSet, V!vector7!FoldFunctionOnSet,
      V!vector7!MapThenFoldSet
<1>7. ASSUME n = 8 PROVE V!vector8!VectorLaws(a, b)
  <2>1. OfDim(8)!VectorLaws(a, b) BY <1>0, <1>7, Zenon
  <2> QED
    BY <2>1, Zenon DEF
      OfDim!VectorLaws, OfDim!Less, OfDim!Equal, OfDim!Plus, OfDim!Negate, OfDim!Minus, OfDim!Zero,
      OfDim!Norm, OfDim!Inner, OfDim!DivideBy, OfDim!ScaleBy, OfDim!Divide, OfDim!Scale, OfDim!Cut,
      OfDim!Abs, OfDim!Read, OfDim!Write, OfDim!Dims, OfDim!SumFunction,
      OfDim!SumFunctionOnSet, OfDim!FoldFunctionOnSet, OfDim!MapThenFoldSet,
      V!vector8!VectorLaws, V!vector8!Less, V!vector8!Equal, V!vector8!Plus, V!vector8!Negate,
      V!vector8!Minus, V!vector8!Zero, V!vector8!Norm, V!vector8!Inner, V!vector8!DivideBy,
      V!vector8!ScaleBy, V!vector8!Divide, V!vector8!Scale, V!vector8!Cut, V!vector8!Abs,
      V!vector8!Read, V!vector8!Write, V!vector8!Dims,
      V!vector8!SumFunction, V!vector8!SumFunctionOnSet, V!vector8!FoldFunctionOnSet,
      V!vector8!MapThenFoldSet
<1>8. ASSUME n = 9 PROVE V!vector9!VectorLaws(a, b)
  <2>1. OfDim(9)!VectorLaws(a, b) BY <1>0, <1>8, Zenon
  <2> QED
    BY <2>1, Zenon DEF
      OfDim!VectorLaws, OfDim!Less, OfDim!Equal, OfDim!Plus, OfDim!Negate, OfDim!Minus, OfDim!Zero,
      OfDim!Norm, OfDim!Inner, OfDim!DivideBy, OfDim!ScaleBy, OfDim!Divide, OfDim!Scale, OfDim!Cut,
      OfDim!Abs, OfDim!Read, OfDim!Write, OfDim!Dims, OfDim!SumFunction,
      OfDim!SumFunctionOnSet, OfDim!FoldFunctionOnSet, OfDim!MapThenFoldSet,
      V!vector9!VectorLaws, V!vector9!Less, V!vector9!Equal, V!vector9!Plus, V!vector9!Negate,
      V!vector9!Minus, V!vector9!Zero, V!vector9!Norm, V!vector9!Inner, V!vector9!DivideBy,
      V!vector9!ScaleBy, V!vector9!Divide, V!vector9!Scale, V!vector9!Cut, V!vector9!Abs,
      V!vector9!Read, V!vector9!Write, V!vector9!Dims,
      V!vector9!SumFunction, V!vector9!SumFunctionOnSet, V!vector9!FoldFunctionOnSet,
      V!vector9!MapThenFoldSet
<1>9. ASSUME n = 10 PROVE V!vector10!VectorLaws(a, b)
  <2>1. OfDim(10)!VectorLaws(a, b) BY <1>0, <1>9, Zenon
  <2> QED
    BY <2>1, Zenon DEF
      OfDim!VectorLaws, OfDim!Less, OfDim!Equal, OfDim!Plus, OfDim!Negate, OfDim!Minus, OfDim!Zero,
      OfDim!Norm, OfDim!Inner, OfDim!DivideBy, OfDim!ScaleBy, OfDim!Divide, OfDim!Scale, OfDim!Cut,
      OfDim!Abs, OfDim!Read, OfDim!Write, OfDim!Dims, OfDim!SumFunction,
      OfDim!SumFunctionOnSet, OfDim!FoldFunctionOnSet, OfDim!MapThenFoldSet,
      V!vector10!VectorLaws, V!vector10!Less, V!vector10!Equal, V!vector10!Plus, V!vector10!Negate,
      V!vector10!Minus, V!vector10!Zero, V!vector10!Norm, V!vector10!Inner, V!vector10!DivideBy,
      V!vector10!ScaleBy, V!vector10!Divide, V!vector10!Scale, V!vector10!Cut, V!vector10!Abs,
      V!vector10!Read, V!vector10!Write, V!vector10!Dims,
      V!vector10!SumFunction, V!vector10!SumFunctionOnSet, V!vector10!FoldFunctionOnSet,
      V!vector10!MapThenFoldSet
<1>10. ASSUME n = 2 PROVE V!array_vector2!VectorLaws(a, b)
  <2>1. OfDim(2)!VectorLaws(a, b) BY <1>0, <1>10, Zenon
  <2> QED
    BY <2>1, Zenon DEF
      OfDim!VectorLaws, OfDim!Less, OfDim!Equal, OfDim!Plus, OfDim!Negate, OfDim!Minus, OfDim!Zero,
      OfDim!Norm, OfDim!Inner, OfDim!DivideBy, OfDim!ScaleBy, OfDim!Divide, OfDim!Scale, OfDim!Cut,
      OfDim!Abs, OfDim!Read, OfDim!Write, OfDim!Dims, OfDim!SumFunction,
      OfDim!SumFunctionOnSet, OfDim!FoldFunctionOnSet, OfDim!MapThenFoldSet,
      V!array_vector2!VectorLaws, V!array_vector2!Less, V!array_vector2!Equal, V!array_vector2!Plus,
      V!array_vector2!Negate, V!array_vector2!Minus, V!array_vector2!Zero, V!array_vector2!Norm,
      V!array_vector2!Inner, V!array_vector2!DivideBy, V!array_vector2!ScaleBy, V!array_vector2!Divide,
      V!array_vector2!Scale, V!array_vector2!Cut, V!array_vector2!Abs,
      V!array_vector2!Read, V!array_vector2!Write, V!array_vector2!Dims,
      V!array_vector2!SumFunction, V!array_vector2!SumFunctionOnSet, V!array_vector2!FoldFunctionOnSet,
      V!array_vector2!MapThenFoldSet
<1>11. ASSUME n = 3 PROVE V!array_vector3!VectorLaws(a, b)
  <2>1. OfDim(3)!VectorLaws(a, b) BY <1>0, <1>11, Zenon
  <2> QED
    BY <2>1, Zenon DEF
      OfDim!VectorLaws, OfDim!Less, OfDim!Equal, OfDim!Plus, OfDim!Negate, OfDim!Minus, OfDim!Zero,
      OfDim!Norm, OfDim!Inner, OfDim!DivideBy, OfDim!ScaleBy, OfDim!Divide, OfDim!Scale, OfDim!Cut,
      OfDim!Abs, OfDim!Read, OfDim!Write, OfDim!Dims, OfDim!SumFunction,
      OfDim!SumFunctionOnSet, OfDim!FoldFunctionOnSet, OfDim!MapThenFoldSet,
      V!array_vector3!VectorLaws, V!array_vector3!Less, V!array_vector3!Equal, V!array_vector3!Plus,
      V!array_vector3!Negate, V!array_vector3!Minus, V!array_vector3!Zero, V!array_vector3!Norm,
      V!array_vector3!Inner, V!array_vector3!DivideBy, V!array_vector3!ScaleBy, V!array_vector3!Divide,
      V!array_vector3!Scale, V!array_vector3!Cut, V!array_vector3!Abs,
      V!array_vector3!Read, V!array_vector3!Write, V!array_vector3!Dims,
      V!array_vector3!SumFunction, V!array_vector3!SumFunctionOnSet, V!array_vector3!FoldFunctionOnSet,
      V!array_vector3!MapThenFoldSet
<1>12. ASSUME n = 4 PROVE V!array_vector4!VectorLaws(a, b)
  <2>1. OfDim(4)!VectorLaws(a, b) BY <1>0, <1>12, Zenon
  <2> QED
    BY <2>1, Zenon DEF
      OfDim!VectorLaws, OfDim!Less, OfDim!Equal, OfDim!Plus, OfDim!Negate, OfDim!Minus, OfDim!Zero,
      OfDim!Norm, OfDim!Inner, OfDim!DivideBy, OfDim!ScaleBy, OfDim!Divide, OfDim!Scale, OfDim!Cut,
      OfDim!Abs, OfDim!Read, OfDim!Write, OfDim!Dims, OfDim!SumFunction,
      OfDim!SumFunctionOnSet, OfDim!FoldFunctionOnSet, OfDim!MapThenFoldSet,
      V!array_vector4!VectorLaws, V!array_vector4!Less, V!array_vector4!Equal, V!array_vector4!Plus,
      V!array_vector4!Negate, V!array_vector4!Minus, V!array_vector4!Zero, V!array_vector4!Norm,
      V!array_vector4!Inner, V!array_vector4!DivideBy, V!array_vector4!ScaleBy, V!array_vector4!Divide,
      V!array_vector4!Scale, V!array_vector4!Cut, V!array_vector4!Abs,
      V!array_vector4!Read, V!array_vector4!Write, V!array_vector4!Dims,
      V!array_vector4!SumFunction, V!array_vector4!SumFunctionOnSet, V!array_vector4!FoldFunctionOnSet,
      V!array_vector4!MapThenFoldSet
<1>13. ASSUME n = 2 PROVE V!Outer2(a, b) * V!Outer2(a, b) + V!vector2!Inner(a, b) * V!vector2!Inner(a, b)
                           = V!vector2!Norm(a) * V!vector2!Norm(b)
  <2>1. V!Outer2(a, b) * V!Outer2(a, b) + OfDim(2)!Inner(a, b) * OfDim(2)!Inner(a, b)
          = OfDim(2)!Norm(a) * OfDim(2)!Norm(b)
    BY <1>13, VectorOuter2
  <2> QED
    BY <2>1, Zenon DEF
      OfDim!Norm, OfDim!Inner, OfDim!Dims, OfDim!SumFunction, OfDim!SumFunctionOnSet,
      OfDim!FoldFunctionOnSet, OfDim!MapThenFoldSet,
      V!vector2!Norm, V!vector2!Inner, V!vector2!Dims, V!vector2!SumFunction,
      V!vector2!SumFunctionOnSet, V!vector2!FoldFunctionOnSet, V!vector2!MapThenFoldSet
<1>14. ASSUME n = 3 PROVE V!vector3!Inner(V!Outer3(a, b), a) = 0 /\ V!vector3!Inner(V!Outer3(a, b), b) = 0
  <2>1. OfDim(3)!Inner(V!Outer3(a, b), a) = 0 /\ OfDim(3)!Inner(V!Outer3(a, b), b) = 0
    BY <1>14, VectorOuter3
  <2> QED
    BY <2>1, Zenon DEF
      OfDim!Inner, OfDim!Dims, OfDim!SumFunction, OfDim!SumFunctionOnSet,
      OfDim!FoldFunctionOnSet, OfDim!MapThenFoldSet,
      V!vector3!Inner, V!vector3!Dims, V!vector3!SumFunction,
      V!vector3!SumFunctionOnSet, V!vector3!FoldFunctionOnSet, V!vector3!MapThenFoldSet
<1> QED
  BY <1>1, <1>2, <1>3, <1>4, <1>5, <1>6, <1>7, <1>8, <1>9, <1>10, <1>11, <1>12, <1>13, <1>14 DEF V!ClassLaws

-----------------------------------------------------------------------------
(* The values of a database                                                *)

\* What a variable takes of a value, kind by kind
LEMMA SqlTakes ==
  ASSUME NEW kind, NEW k, NEW x, k \notin {"throw", "undefined"}
  PROVE  LET y == Q!FromSql(kind, Q!Value(k, x)) IN
         /\ kind = k => y = Q!Value(k, x)
         /\ kind # k /\ kind = "string" => y = Q!Value("string", <<>>)
         /\ kind = "int32" /\ k = "int64" => y = Q!Narrowed(x)
         /\ kind = "int64" /\ k = "int32" => y = Q!Value("int64", x)
         /\ kind # k /\ kind # "string" /\ ~(kind = "int32" /\ k = "int64") /\ ~(kind = "int64" /\ k = "int32")
              => y = Q!Throw
<1> DEFINE w == Q!Value(k, x)
<1>1. w.kind = k /\ w.value = x BY DEF Q!Value
<1>0. Q!Throw.kind = "throw" /\ Q!Undefined.kind = "undefined" BY DEF Q!Throw, Q!Undefined, Q!Value
<1> HIDE DEF w
<1>a. w \notin {Q!Throw, Q!Undefined} BY <1>0, <1>1
<1>2. kind = k => Q!FromSql(kind, w) = w BY <1>1, <1>a DEF Q!FromSql
<1>3. kind # k /\ kind = "string" => Q!FromSql(kind, w) = Q!Value("string", <<>>) BY <1>1, <1>a DEF Q!FromSql
<1>4. kind = "int32" /\ k = "int64" => Q!FromSql(kind, w) = Q!Narrowed(x) BY <1>1, <1>a DEF Q!FromSql
<1>5. kind = "int64" /\ k = "int32" => Q!FromSql(kind, w) = Q!Value("int64", x) BY <1>1, <1>a DEF Q!FromSql
<1>6. kind # k /\ kind # "string" /\ ~(kind = "int32" /\ k = "int64") /\ ~(kind = "int64" /\ k = "int32")
        => Q!FromSql(kind, w) = Q!Throw
  BY <1>1, <1>a DEF Q!FromSql
<1> QED BY <1>2, <1>3, <1>4, <1>5, <1>6 DEF w

\* That is what SqlReadBack says it can take, if an int32 is one.
LEMMA SqlTaken ==
  ASSUME NEW kind \in Q!Kinds, NEW k, NEW x, k \notin {"throw", "undefined"}, k = "int32" => Q!FitsInt32(x)
  PROVE  Q!FromSql(kind, Q!Value(k, x)) = Q!Taken(kind, Q!Value(k, x))
<1> DEFINE w == Q!Value(k, x)
<1>1. w.kind = k /\ w.value = x BY DEF Q!Value
<1>2. Q!Undefined.kind = "undefined" BY DEF Q!Undefined, Q!Value
<1> HIDE DEF w
<1>3. w # Q!Undefined BY <1>1, <1>2
<1>4. CASE kind = "string"
  <2>1. Q!Taken(kind, w) = IF k = "string" THEN w ELSE Q!Value("string", <<>>)
    BY <1>1, <1>3, <1>4 DEF Q!Taken
  <2> QED BY <1>4, <2>1, SqlTakes DEF w
<1>5. CASE kind \in {"int32", "int64"} /\ k \in {"int32", "int64"}
  <2>1. Q!Taken(kind, w) = IF kind = "int64" \/ Q!FitsInt32(x) THEN Q!Value(kind, x) ELSE Q!Throw
    BY <1>1, <1>3, <1>5 DEF Q!Taken
  <2> QED BY <1>5, <2>1, SqlTakes DEF w, Q!Narrowed
<1>6. CASE kind # "string" /\ ~(kind \in {"int32", "int64"} /\ k \in {"int32", "int64"})
  <2>1. Q!Taken(kind, w) = IF k = kind THEN w ELSE Q!Throw BY <1>1, <1>3, <1>6 DEF Q!Taken
  <2> QED BY <1>6, <2>1, SqlTakes DEF w
<1> QED BY <1>4, <1>5, <1>6 DEF w

\* Of an integer a variable takes the same in either width.
LEMMA SqlWidths ==
  ASSUME NEW kind \in Q!Kinds, NEW k \in {"int32", "int64"}, NEW l \in {"int32", "int64"}, NEW n
  PROVE  Q!Taken(kind, Q!Value(k, n)) = Q!Taken(kind, Q!Value(l, n))
<1>1. ASSUME NEW w, w.kind \in {"int32", "int64"}, w.value = n
      PROVE  Q!Taken(kind, w) = CASE kind = "string" -> Q!Value("string", <<>>)
                                  [] kind \in {"int32", "int64"} ->
                                       IF kind = "int64" \/ Q!FitsInt32(n) THEN Q!Value(kind, n) ELSE Q!Throw
                                  [] OTHER -> Q!Throw
  <2>1. Q!Undefined.kind = "undefined" BY DEF Q!Undefined, Q!Value
  <2>2. w # Q!Undefined BY <1>1, <2>1
  <2>3. CASE kind = "string" BY <1>1, <2>2, <2>3 DEF Q!Taken
  <2>4. CASE kind \in {"int32", "int64"} BY <1>1, <2>2, <2>4 DEF Q!Taken
  <2>5. CASE kind \notin {"string", "int32", "int64"} BY <1>1, <2>2, <2>5 DEF Q!Taken
  <2> QED BY <2>3, <2>4, <2>5
<1>2. \A m \in {"int32", "int64"} : Q!Value(m, n).kind = m /\ Q!Value(m, n).value = n BY DEF Q!Value
<1> QED BY <1>1, <1>2

\* Nothing is taken of a value that was not to be had, and of an unknown one only the empty text.
LEMMA SqlNotTaken ==
  ASSUME NEW kind \in Q!Kinds
  PROVE  /\ Q!FromSql(kind, Q!Throw) = Q!Throw
         /\ Q!FromSql(kind, Q!Undefined) = Q!Undefined /\ Q!Taken(kind, Q!Undefined) = Q!Undefined
         /\ \A x : Q!FromSql(kind, Q!Value("unknown", x)) = IF kind = "string" THEN Q!Value("string", <<>>) ELSE Q!Throw
<1>0. Q!Throw.kind = "throw" /\ Q!Undefined.kind = "undefined" BY DEF Q!Throw, Q!Undefined, Q!Value
<1>1. Q!FromSql(kind, Q!Throw) = Q!Throw /\ Q!FromSql(kind, Q!Undefined) = Q!Undefined BY <1>0 DEF Q!FromSql
<1>2. Q!Taken(kind, Q!Undefined) = Q!Undefined BY <1>0 DEF Q!Taken
<1>3. \A x : Q!FromSql(kind, Q!Value("unknown", x)) = IF kind = "string" THEN Q!Value("string", <<>>) ELSE Q!Throw
  <2>1. kind # "unknown" /\ "unknown" \notin {"throw", "undefined"} BY DEF Q!Kinds
  <2> QED BY <2>1, SqlTakes
<1> QED BY <1>1, <1>2, <1>3

\* What MySQL gives back of a value, before it is taken by a variable
MyColumns(x) == {Q!FromBind(column, Q!ToBind(x).value) : column \in Q!ColumnsFor(Q!ToBind(x).type)}

LEMMA SqlMysqlIs ==
  ASSUME NEW x, NEW kind
  PROVE  Q!MysqlReads(x, kind) = {Q!FromSql(kind, y) : y \in MyColumns(x)}
BY DEF Q!MysqlReads, MyColumns

LEMMA MyColumnsAre ==
  /\ \A b \in BOOLEAN : MyColumns(Q!Value("bool", b)) =
       {Q!Value("int32", IF b THEN 1 ELSE 0), Q!Value("int64", IF b THEN 1 ELSE 0)}
  /\ \A n : MyColumns(Q!Value("int32", n)) = {Q!Value("int32", n), Q!Value("int64", n)}
  /\ \A n : MyColumns(Q!Value("int64", n)) = {Q!Value("int64", n)}
  /\ \A n : MyColumns(Q!Value("float", n)) = {Q!Value("float", n)}
  /\ \A t : MyColumns(Q!Value("timestamp", t)) = {Q!Value("timestamp", t)}
  /\ \A s : MyColumns(Q!Value("string", s)) = {Q!Value("string", s), Q!Throw}
  /\ MyColumns(Q!Null) = {}
<1> USE DEF MyColumns
<1>0. \A k, x : Q!Value(k, x).kind = k /\ Q!Value(k, x).value = x BY DEF Q!Value
<1>1. ASSUME NEW b \in BOOLEAN
      PROVE  MyColumns(Q!Value("bool", b)) =
               {Q!Value("int32", IF b THEN 1 ELSE 0), Q!Value("int64", IF b THEN 1 ELSE 0)}
  <2> DEFINE x == Q!Value("bool", b)
  <2>1. x.kind = "bool" /\ x.value = b BY <1>0
  <2> HIDE DEF x
  <2>2. Q!ToBind(x) = [type |-> "LONG", value |-> IF b THEN 1 ELSE 0] BY <2>1 DEF Q!ToBind
  <2>3. Q!ColumnsFor("LONG") = {"LONG", "LONGLONG"} BY DEF Q!ColumnsFor
  <2>4. \A y : Q!FromBind("LONG", y) = Q!Value("int32", y) /\ Q!FromBind("LONGLONG", y) = Q!Value("int64", y)
    BY DEF Q!FromBind
  <2> QED BY <2>2, <2>3, <2>4 DEF x
<1>2. ASSUME NEW n PROVE MyColumns(Q!Value("int32", n)) = {Q!Value("int32", n), Q!Value("int64", n)}
  <2> DEFINE x == Q!Value("int32", n)
  <2>1. x.kind = "int32" /\ x.value = n BY <1>0
  <2> HIDE DEF x
  <2>2. Q!ToBind(x) = [type |-> "LONG", value |-> n] BY <2>1 DEF Q!ToBind
  <2>3. Q!ColumnsFor("LONG") = {"LONG", "LONGLONG"} BY DEF Q!ColumnsFor
  <2>4. \A y : Q!FromBind("LONG", y) = Q!Value("int32", y) /\ Q!FromBind("LONGLONG", y) = Q!Value("int64", y)
    BY DEF Q!FromBind
  <2> QED BY <2>2, <2>3, <2>4 DEF x
<1>3. ASSUME NEW n PROVE MyColumns(Q!Value("int64", n)) = {Q!Value("int64", n)}
  <2> DEFINE x == Q!Value("int64", n)
  <2>1. x.kind = "int64" /\ x.value = n BY <1>0
  <2> HIDE DEF x
  <2>2. Q!ToBind(x) = [type |-> "LONGLONG", value |-> n] BY <2>1 DEF Q!ToBind
  <2>3. Q!ColumnsFor("LONGLONG") = {"LONGLONG"} BY DEF Q!ColumnsFor
  <2>4. \A y : Q!FromBind("LONGLONG", y) = Q!Value("int64", y) BY DEF Q!FromBind
  <2> QED BY <2>2, <2>3, <2>4 DEF x
<1>4. ASSUME NEW n PROVE MyColumns(Q!Value("float", n)) = {Q!Value("float", n)}
  <2> DEFINE x == Q!Value("float", n)
  <2>1. x.kind = "float" /\ x.value = n BY <1>0
  <2> HIDE DEF x
  <2>2. Q!ToBind(x) = [type |-> "DOUBLE", value |-> n] BY <2>1 DEF Q!ToBind
  <2>3. Q!ColumnsFor("DOUBLE") = {"DOUBLE"} BY DEF Q!ColumnsFor
  <2>4. \A y : Q!FromBind("DOUBLE", y) = Q!Value("float", y) BY DEF Q!FromBind
  <2> QED BY <2>2, <2>3, <2>4 DEF x
<1>5. ASSUME NEW t PROVE MyColumns(Q!Value("timestamp", t)) = {Q!Value("timestamp", t)}
  <2> DEFINE x == Q!Value("timestamp", t)
  <2>1. x.kind = "timestamp" /\ x.value = t BY <1>0
  <2> HIDE DEF x
  <2>2. Q!ToBind(x) = [type |-> "TIMESTAMP", value |-> t] BY <2>1 DEF Q!ToBind
  <2>3. Q!ColumnsFor("TIMESTAMP") = {"DATETIME", "TIMESTAMP"} BY DEF Q!ColumnsFor
  <2>4. \A y : Q!FromBind("DATETIME", y) = Q!Value("timestamp", y) /\ Q!FromBind("TIMESTAMP", y) = Q!Value("timestamp", y)
    BY DEF Q!FromBind
  <2> QED BY <2>2, <2>3, <2>4 DEF x
<1>6. ASSUME NEW s PROVE MyColumns(Q!Value("string", s)) = {Q!Value("string", s), Q!Throw}
  <2> DEFINE x == Q!Value("string", s)
  <2>1. x.kind = "string" /\ x.value = s BY <1>0
  <2> HIDE DEF x
  <2>2. Q!ToBind(x) = [type |-> "STRING", value |-> s] BY <2>1 DEF Q!ToBind
  <2>3. Q!ColumnsFor("STRING") = {"STRING", "BLOB", "VAR_STRING"} BY DEF Q!ColumnsFor
  <2>4. \A y : /\ Q!FromBind("STRING", y) = Q!Value("string", y) /\ Q!FromBind("BLOB", y) = Q!Value("string", y)
               /\ Q!FromBind("VAR_STRING", y) = Q!Throw
    BY DEF Q!FromBind
  <2> QED BY <2>2, <2>3, <2>4 DEF x
<1>7. MyColumns(Q!Null) = {}
  <2>1. Q!ToBind(Q!Null).type = "DECIMAL" BY DEF Q!ToBind, Q!Null, Q!Value
  <2>2. Q!ColumnsFor("DECIMAL") = {} BY DEF Q!ColumnsFor
  <2> QED BY <2>1, <2>2
<1> QED BY <1>1, <1>2, <1>3, <1>4, <1>5, <1>6, <1>7


\* Two digits read as a number, the recursion it is defined with, and its value
NumberOf(s, g, set) == IF set = {} THEN 0 ELSE 10 * g[set \ {Q!Max(set)}] + s[Q!Max(set)]
NumbersOf(s, g) == [set \in SUBSET DOMAIN s |-> NumberOf(s, g, set)]

LEMMA NumberFold == \A s : Q!Microseconds(s) = (CHOOSE g : g = NumbersOf(s, g))[DOMAIN s]
BY DEF Q!Microseconds, NumbersOf, NumberOf, Q!FoldLeft, Q!MapThenFoldSet

LEMMA NumberIs ==
  ASSUME NEW d \in Int, NEW e \in Int
  PROVE  Q!Microseconds(<<d, e>>) = 10 * d + e
<1> DEFINE s == <<d, e>>
<1> DEFINE next == [p \in Int \X Int |-> 10 * p[1] + p[2]]
<1>1. s \in [1..2 -> Int] /\ DOMAIN s = 1..2 /\ s[1] = d /\ s[2] = e
  <2>1. DOMAIN s = 1..2 /\ s[1] = d /\ s[2] = e OBVIOUS
  <2>2. \A i \in 1..2 : s[i] \in Int BY <2>1
  <2>3. s = [i \in 1..2 |-> s[i]] OBVIOUS
  <2> QED BY <2>1, <2>2, <2>3
<1>2. next \in [Int \X Int -> Int] /\ \A x, y \in Int : next[<<x, y>>] = 10 * x + y OBVIOUS
<1> HIDE DEF s, next
<1>3. \E g : g = FoldsOf(0, next, s, g) BY <1>1, FoldsExist
<1>4. PICK g : g = FoldsOf(0, next, s, g) BY <1>3
<1>5. \A set \in SUBSET (1..2) : g[set] \in Int
  <2>1. Folding(0, next, Int, Int, 2, s, g) BY <1>1, <1>2, <1>4 DEF Folding
  <2> QED BY <2>1, FoldIs
<1>6. \A set \in SUBSET (1..2) : FoldOf(0, next, s, g, set) = NumberOf(s, g, set)
  <2> TAKE set \in SUBSET (1..2)
  <2>1. CASE set = {} BY <2>1 DEF FoldOf, NumberOf
  <2>2. CASE set # {}
    <3> DEFINE x == Q!Max(set)
    <3>1. x \in 1..2 BY <2>2, LastOf
    <3> HIDE DEF x
    <3>2. s[x] \in Int /\ g[set \ {x}] \in Int BY <1>1, <1>5, <3>1
    <3>3. next[<<g[set \ {x}], s[x]>>] = 10 * g[set \ {x}] + s[x] BY <1>2, <3>2
    <3> QED BY <2>2, <3>3 DEF FoldOf, NumberOf, x
  <2> QED BY <2>1, <2>2
<1>7. g = NumbersOf(s, g) BY <1>1, <1>4, <1>6 DEF FoldsOf, NumbersOf
<1> DEFINE h == CHOOSE h : h = NumbersOf(s, h)
<1>8. h = NumbersOf(s, h) BY <1>7
<1>9. Q!Microseconds(s) = h[1..2] BY <1>1, NumberFold
<1> HIDE DEF h
<1>10. \A set \in SUBSET (1..2) : h[set] = NumberOf(s, h, set) BY <1>1, <1>8 DEF NumbersOf
<1>11. h[1..2] = 10 * h[1..1] + e
  <2>1. Q!Max(1..2) \in 1..2 /\ Q!Max(1..2) >= 2 BY LastOf
  <2>2. Q!Max(1..2) = 2 /\ (1..2) \ {2} = 1..1 /\ 1..2 # {} BY <2>1
  <2> QED BY <1>1, <1>10, <2>2 DEF NumberOf
<1>12. h[1..1] = 10 * 0 + d
  <2>1. Q!Max(1..1) \in 1..1 BY LastOf
  <2>2. Q!Max(1..1) = 1 /\ (1..1) \ {1} = {} /\ 1..1 # {} BY <2>1
  <2>3. h[{}] = 0 BY <1>10 DEF NumberOf
  <2>4. 1..1 \in SUBSET (1..2) OBVIOUS
  <2> QED BY <1>1, <1>10, <2>2, <2>3, <2>4 DEF NumberOf
<1> QED BY <1>9, <1>11, <1>12 DEF s

\* One digit
LEMMA DigitIs ==
  ASSUME NEW d \in Int
  PROVE  Q!Microseconds(<<d>>) = d
<1> DEFINE s == <<d>>
<1> DEFINE next == [p \in Int \X Int |-> 10 * p[1] + p[2]]
<1>1. s \in [1..1 -> Int] /\ DOMAIN s = 1..1 /\ s[1] = d
  <2>1. DOMAIN s = 1..1 /\ s[1] = d OBVIOUS
  <2>2. \A i \in 1..1 : s[i] \in Int BY <2>1
  <2>3. s = [i \in 1..1 |-> s[i]] OBVIOUS
  <2> QED BY <2>1, <2>2, <2>3
<1>2. next \in [Int \X Int -> Int] /\ \A x, y \in Int : next[<<x, y>>] = 10 * x + y OBVIOUS
<1> HIDE DEF s, next
<1>3. \E g : g = FoldsOf(0, next, s, g) BY <1>1, FoldsExist
<1>4. PICK g : g = FoldsOf(0, next, s, g) BY <1>3
<1>5. \A set \in SUBSET (1..1) : g[set] \in Int
  <2>1. Folding(0, next, Int, Int, 1, s, g) BY <1>1, <1>2, <1>4 DEF Folding
  <2> QED BY <2>1, FoldIs
<1>6. \A set \in SUBSET (1..1) : FoldOf(0, next, s, g, set) = NumberOf(s, g, set)
  <2> TAKE set \in SUBSET (1..1)
  <2>1. CASE set = {} BY <2>1 DEF FoldOf, NumberOf
  <2>2. CASE set # {}
    <3> DEFINE x == Q!Max(set)
    <3>1. x \in 1..1 BY <2>2, LastOf
    <3> HIDE DEF x
    <3>2. s[x] \in Int /\ g[set \ {x}] \in Int BY <1>1, <1>5, <3>1
    <3>3. next[<<g[set \ {x}], s[x]>>] = 10 * g[set \ {x}] + s[x] BY <1>2, <3>2
    <3> QED BY <2>2, <3>3 DEF FoldOf, NumberOf, x
  <2> QED BY <2>1, <2>2
<1>7. g = NumbersOf(s, g) BY <1>1, <1>4, <1>6 DEF FoldsOf, NumbersOf
<1> DEFINE h == CHOOSE h : h = NumbersOf(s, h)
<1>8. h = NumbersOf(s, h) BY <1>7
<1>9. Q!Microseconds(s) = h[1..1] BY <1>1, NumberFold
<1> HIDE DEF h
<1>10. \A set \in SUBSET (1..1) : h[set] = NumberOf(s, h, set) BY <1>1, <1>8 DEF NumbersOf
<1>11. h[1..1] = 10 * 0 + d
  <2>1. Q!Max(1..1) \in 1..1 BY LastOf
  <2>2. Q!Max(1..1) = 1 /\ (1..1) \ {1} = {} /\ 1..1 # {} BY <2>1
  <2>3. h[{}] = 0 BY <1>10 DEF NumberOf
  <2>4. 1..1 \in SUBSET (1..1) OBVIOUS
  <2> QED BY <1>1, <1>10, <2>2, <2>3, <2>4 DEF NumberOf
<1> QED BY <1>9, <1>11 DEF s

\* What PostgreSQL gives back of a value
PgColumns(x) == {Q!StrToSql(oid, Q!Printed(x)) : oid \in Q!Oids(x.kind)}

LEMMA SqlPostgresqlIs ==
  ASSUME NEW x, NEW kind
  PROVE  Q!PostgresqlReads(x, kind) = {Q!FromSql(kind, y) : y \in PgColumns(x)}
BY DEF Q!PostgresqlReads, PgColumns

LEMMA SqlFields == \A k, x : Q!Value(k, x).kind = k /\ Q!Value(k, x).value = x /\ (k # "null" => Q!Value(k, x) # Q!Null)
BY DEF Q!Value, Q!Null

\* A timestamp with two digits, with one, and with none
LEMMA PgTimestamp ==
  ASSUME NEW x, NEW f \in 0..99
  PROVE  LET t == [seconds |-> x, fraction |-> f] IN Q!ReadTimestamp(t) = Q!KeptByPostgresql(Q!Value("timestamp", t))
<1> DEFINE t == [seconds |-> x, fraction |-> f]
<1> DEFINE stamp == Q!Value("timestamp", t)
<1>a. stamp.kind = "timestamp" /\ stamp.value = t /\ t.fraction = f BY DEF Q!Value
<1>b. f \in Int /\ f \div 10 \in Int /\ f % 10 \in Int OBVIOUS
<1>c. Q!ReadTimestamp(t) = IF Q!Trimmed(f) = <<>> THEN Q!Undefined
                            ELSE Q!Value("timestamp", [t EXCEPT !.fraction = Q!Microseconds(Q!Trimmed(f))])
  <2>1. ASSUME NEW u, Q!Trimmed(u.fraction) = <<>>
        PROVE  Q!ReadTimestamp(u) = Q!Undefined
    BY <2>1 DEF Q!ReadTimestamp
  <2>2. ASSUME NEW u, Q!Trimmed(u.fraction) # <<>>
        PROVE  Q!ReadTimestamp(u) = Q!Value("timestamp", [u EXCEPT !.fraction = Q!Microseconds(Q!Trimmed(u.fraction))])
    BY <2>2 DEF Q!ReadTimestamp
  <2> HIDE DEF stamp, t
  <2> QED BY <1>a, <2>1, <2>2
<1>1. CASE f = 0
  <2>1. Q!Trimmed(f) = <<>> BY <1>1 DEF Q!Trimmed
  <2> HIDE DEF stamp, t
  <2>2. Q!KeptByPostgresql(stamp) = Q!Undefined BY <1>1, <1>a DEF Q!KeptByPostgresql
  <2>3. Q!ReadTimestamp(t) = Q!KeptByPostgresql(stamp) BY <1>c, <2>1, <2>2
  <2> QED BY <2>3 DEF stamp, t
<1>2. CASE f # 0 /\ f % 10 = 0
  <2>1. Q!Trimmed(f) = <<f \div 10>> BY <1>2 DEF Q!Trimmed
  <2>2. Q!Microseconds(<<f \div 10>>) = f \div 10 BY <1>b, DigitIs
  <2>3. Q!Trimmed(f) # <<>> BY <2>1
  <2> HIDE DEF stamp, t
  <2>4. Q!KeptByPostgresql(stamp) = Q!Value("timestamp", [t EXCEPT !.fraction = t.fraction \div 10])
    BY <1>2, <1>a DEF Q!KeptByPostgresql
  <2>5. Q!ReadTimestamp(t) = Q!KeptByPostgresql(stamp) BY <1>a, <1>c, <2>1, <2>2, <2>3, <2>4
  <2> QED BY <2>5 DEF stamp, t
<1>3. CASE f % 10 # 0
  <2>0. f # 0 BY <1>3
  <2>1. Q!Trimmed(f) = <<f \div 10, f % 10>> BY <1>3, <2>0 DEF Q!Trimmed
  <2>2. 10 * (f \div 10) + (f % 10) = f
    <3> HIDE DEF stamp, t
    <3> QED BY <1>b
  <2>3. Q!Microseconds(<<f \div 10, f % 10>>) = f BY <1>b, <2>2, NumberIs
  <2>4. Q!Trimmed(f) # <<>> BY <2>1
  <2>5. [t EXCEPT !.fraction = f] = t OBVIOUS
  <2> HIDE DEF stamp, t
  <2>6. Q!KeptByPostgresql(stamp) = stamp BY <1>3, <1>a, <2>0 DEF Q!KeptByPostgresql
  <2>7. Q!ReadTimestamp(t) = stamp BY <1>c, <2>1, <2>3, <2>4, <2>5 DEF stamp
  <2>8. Q!ReadTimestamp(t) = Q!KeptByPostgresql(stamp) BY <2>6, <2>7
  <2> QED BY <2>8 DEF stamp, t
<1> QED BY <1>1, <1>2, <1>3

LEMMA PgColumnsAre ==
  /\ \A b \in BOOLEAN : PgColumns(Q!Value("bool", b)) = {Q!Value("bool", b)}
  /\ \A n : PgColumns(Q!Value("int32", n)) = {Q!Value("int32", n), Q!Value("int64", n)}
  /\ \A n : PgColumns(Q!Value("int64", n)) = {Q!Value("int64", n)}
  /\ \A n \in Int : PgColumns(Q!Value("float", n)) = {Q!KeptByPostgresql(Q!Value("float", n))}
  /\ \A x : \A f \in 0..99 :
       PgColumns(Q!Value("timestamp", [seconds |-> x, fraction |-> f])) =
         {Q!KeptByPostgresql(Q!Value("timestamp", [seconds |-> x, fraction |-> f]))}
  /\ \A s : PgColumns(Q!Value("string", s)) = {Q!Value("string", s), Q!Value("unknown", s)}
  /\ PgColumns(Q!Null) = {Q!Null}
<1> USE DEF PgColumns
<1>0. \A k, x : k # "float" => Q!Printed(Q!Value(k, x)) = Q!Value(k, x) BY SqlFields DEF Q!Printed
<1>a. /\ Q!Oids("bool") = {"BOOL"} /\ Q!Oids("int32") = {"INT4", "INT8"} /\ Q!Oids("int64") = {"INT8"}
      /\ Q!Oids("float") = {"FLOAT8"} /\ Q!Oids("timestamp") = {"TIMESTAMP"}
      /\ Q!Oids("string") = {"TEXT", "VARCHAR", "BPCHAR"} /\ Q!Oids("null") = {"BOOL", "INT4", "FLOAT8", "TEXT"}
  BY DEF Q!Oids
<1>b. ASSUME NEW w, w # Q!Null
      PROVE  /\ Q!StrToSql("BOOL", w) = Q!Value("bool", w.value)
             /\ Q!StrToSql("INT4", w) = Q!Value("int32", w.value)
             /\ Q!StrToSql("INT8", w) = Q!Value("int64", w.value)
             /\ Q!StrToSql("FLOAT8", w) = Q!Value("float", w.value)
             /\ Q!StrToSql("TIMESTAMP", w) = Q!ReadTimestamp(w.value)
             /\ Q!StrToSql("TEXT", w) = Q!Value("string", w.value)
             /\ Q!StrToSql("VARCHAR", w) = Q!Value("string", w.value)
             /\ Q!StrToSql("BPCHAR", w) = Q!Value("unknown", w.value)
  BY <1>b DEF Q!StrToSql
<1>c. ASSUME NEW k, NEW x, k \notin {"null", "float"}
      PROVE  LET w == Q!Value(k, x) IN Q!Printed(w) = w /\ w # Q!Null /\ w.kind = k /\ w.value = x
  BY <1>0, <1>c, SqlFields
<1>1. ASSUME NEW b \in BOOLEAN PROVE PgColumns(Q!Value("bool", b)) = {Q!Value("bool", b)}
  <2> DEFINE w == Q!Value("bool", b)
  <2>1. Q!Printed(w) = w /\ w # Q!Null /\ w.kind = "bool" /\ w.value = b BY <1>c
  <2> HIDE DEF w
  <2>2. Q!StrToSql("BOOL", w) = Q!Value("bool", b) BY <1>b, <2>1
  <2> QED BY <1>a, <2>1, <2>2 DEF w
<1>2. ASSUME NEW n PROVE PgColumns(Q!Value("int32", n)) = {Q!Value("int32", n), Q!Value("int64", n)}
  <2> DEFINE w == Q!Value("int32", n)
  <2>1. Q!Printed(w) = w /\ w # Q!Null /\ w.kind = "int32" /\ w.value = n BY <1>c
  <2> HIDE DEF w
  <2>2. Q!StrToSql("INT4", w) = Q!Value("int32", n) /\ Q!StrToSql("INT8", w) = Q!Value("int64", n) BY <1>b, <2>1
  <2> QED BY <1>a, <2>1, <2>2 DEF w
<1>3. ASSUME NEW n PROVE PgColumns(Q!Value("int64", n)) = {Q!Value("int64", n)}
  <2> DEFINE w == Q!Value("int64", n)
  <2>1. Q!Printed(w) = w /\ w # Q!Null /\ w.kind = "int64" /\ w.value = n BY <1>c
  <2> HIDE DEF w
  <2>2. Q!StrToSql("INT8", w) = Q!Value("int64", n) BY <1>b, <2>1
  <2> QED BY <1>a, <2>1, <2>2 DEF w
<1>4. ASSUME NEW n \in Int PROVE PgColumns(Q!Value("float", n)) = {Q!KeptByPostgresql(Q!Value("float", n))}
  <2> DEFINE w == Q!Value("float", n)
  <2> DEFINE r == 10 * ((n + 5) \div 10)
  <2>1. w.kind = "float" /\ w.value = n BY SqlFields
  <2>2. r = n + 5 - ((n + 5) % 10) OBVIOUS
  <2> HIDE DEF w
  <2>3. Q!Printed(w) = Q!Value("float", r) BY <2>1 DEF Q!Printed
  <2>4. Q!KeptByPostgresql(w) = Q!Value("float", n + 5 - ((n + 5) % 10)) BY <2>1 DEF Q!KeptByPostgresql
  <2> HIDE DEF r
  <2>5. Q!StrToSql("FLOAT8", Q!Value("float", r)) = Q!Value("float", r) BY <1>b, SqlFields
  <2>6. PgColumns(w) = {Q!Value("float", r)} BY <1>a, <2>1, <2>3, <2>5
  <2> QED BY <2>2, <2>4, <2>6 DEF w
<1>5. ASSUME NEW x, NEW f \in 0..99
      PROVE  PgColumns(Q!Value("timestamp", [seconds |-> x, fraction |-> f])) =
               {Q!KeptByPostgresql(Q!Value("timestamp", [seconds |-> x, fraction |-> f]))}
  <2> DEFINE t == [seconds |-> x, fraction |-> f]
  <2>1. Q!ReadTimestamp(t) = Q!KeptByPostgresql(Q!Value("timestamp", t)) BY PgTimestamp
  <2> HIDE DEF t
  <2>2. PgColumns(Q!Value("timestamp", t)) = {Q!KeptByPostgresql(Q!Value("timestamp", t))}
    BY <1>0, <1>a, <1>b, <2>1, SqlFields
  <2> QED BY <2>2 DEF t
<1>6. ASSUME NEW s PROVE PgColumns(Q!Value("string", s)) = {Q!Value("string", s), Q!Value("unknown", s)}
  <2> DEFINE w == Q!Value("string", s)
  <2>1. Q!Printed(w) = w /\ w # Q!Null /\ w.kind = "string" /\ w.value = s BY <1>c
  <2> HIDE DEF w
  <2>2. /\ Q!StrToSql("TEXT", w) = Q!Value("string", s) /\ Q!StrToSql("VARCHAR", w) = Q!Value("string", s)
        /\ Q!StrToSql("BPCHAR", w) = Q!Value("unknown", s)
    BY <1>b, <2>1
  <2> QED BY <1>a, <2>1, <2>2 DEF w
<1>7. PgColumns(Q!Null) = {Q!Null}
  <2>1. Q!Printed(Q!Null) = Q!Null /\ Q!Null.kind = "null" BY <1>0 DEF Q!Null, Q!Value
  <2>2. \A oid : Q!StrToSql(oid, Q!Null) = Q!Null BY DEF Q!StrToSql
  <2> QED BY <1>a, <2>1, <2>2
<1> QED BY <1>1, <1>2, <1>3, <1>4, <1>5, <1>6, <1>7


\* The values of every kind are read back.
SqlValuesAll(x) ==
  \/ x = Q!Null
  \/ \E b \in BOOLEAN : x = Q!Value("bool", b)
  \/ \E s : x = Q!Value("string", s)
  \/ \E n \in Int, k \in {"int32", "int64", "float"} : x = Q!Value(k, n) /\ (k = "int32" => Q!FitsInt32(n))
  \/ \E s : \E f \in 0..99 : x = Q!Value("timestamp", [seconds |-> s, fraction |-> f])

\* What may be read of a text besides
MyTextLost(x) == IF x.kind = "string" THEN {Q!Throw} ELSE {}
PgTextLost(x, kind) == IF x.kind = "string" /\ kind = "string" THEN {Q!Value("string", <<>>)} ELSE {}

\* ... if what both servers give back of them may be read.
LEMMA SqlFromColumns ==
  ASSUME NEW x, NEW my, NEW pg, my = Q!KeptByMysql(x), pg = Q!KeptByPostgresql(x),
         \A kind \in Q!Kinds : \A y \in MyColumns(x) : Q!FromSql(kind, y) \in {Q!Taken(kind, my)} \cup MyTextLost(x),
         \A kind \in Q!Kinds : \A y \in PgColumns(x) :
            Q!FromSql(kind, y) \in {Q!Taken(kind, pg)} \cup PgTextLost(x, kind),
         x # Q!Null => my \in MyColumns(x) /\ pg \in PgColumns(x) /\ Q!FromSql(x.kind, pg) = pg
  PROVE  Q!SqlReadBack(x)
<1>1. Q!FromSql(my.kind, my) = my BY DEF Q!FromSql
<1>2. \A kind \in Q!Kinds : /\ Q!MysqlReads(x, kind) \subseteq {Q!Taken(kind, my)} \cup MyTextLost(x)
                            /\ Q!PostgresqlReads(x, kind) \subseteq {Q!Taken(kind, pg)} \cup PgTextLost(x, kind)
  BY SqlMysqlIs, SqlPostgresqlIs
<1>3. x # Q!Null => my \in Q!MysqlReads(x, my.kind) /\ pg \in Q!PostgresqlReads(x, x.kind)
  BY <1>1, SqlMysqlIs, SqlPostgresqlIs
<1> QED BY <1>2, <1>3 DEF Q!SqlReadBack, MyTextLost, PgTextLost

\* The values of which both servers keep themselves
LEMMA SqlKept ==
  ASSUME NEW x
  PROVE  /\ x.kind # "bool" => Q!KeptByMysql(x) = x
         /\ x.kind \notin {"float", "timestamp"} => Q!KeptByPostgresql(x) = x
         /\ x.kind = "bool" => Q!KeptByMysql(x) = Q!Value("int32", IF x.value THEN 1 ELSE 0)
BY DEF Q!KeptByMysql, Q!KeptByPostgresql

LEMMA SqlReadBackAll == ASSUME NEW x, SqlValuesAll(x) PROVE Q!SqlReadBack(x)
<1>0. Q!FromSql(x.kind, x) = x BY DEF Q!FromSql
<1>1. CASE x = Q!Null
  <2>1. x = Q!Value("null", <<>>) BY <1>1 DEF Q!Null
  <2>2. MyColumns(x) = {} /\ PgColumns(x) = {x} BY <1>1, MyColumnsAre, PgColumnsAre
  <2>3. \A kind \in Q!Kinds : Q!FromSql(kind, x) = Q!Taken(kind, x) BY <2>1, SqlTaken
  <2>4. x.kind = "null" BY <2>1, SqlFields
  <2>5. Q!KeptByPostgresql(x) = x BY <2>4, SqlKept
  <2> QED BY <1>1, <2>2, <2>3, <2>5, SqlFromColumns
<1>2. ASSUME NEW b \in BOOLEAN, x = Q!Value("bool", b) PROVE Q!SqlReadBack(x)
  <2> DEFINE n == IF b THEN 1 ELSE 0
  <2>1. x.kind = "bool" /\ x.value = b BY <1>2, SqlFields
  <2>2. MyColumns(x) = {Q!Value("int32", n), Q!Value("int64", n)} /\ PgColumns(x) = {x}
    BY <1>2, MyColumnsAre, PgColumnsAre
  <2>3. Q!KeptByMysql(x) = Q!Value("int32", n) /\ Q!KeptByPostgresql(x) = x BY <2>1, SqlKept
  <2>4. Q!FitsInt32(n) BY Assumed DEF Q!FitsInt32, Q!SqlValuesAssumption
  <2> HIDE DEF n
  <2>5. \A kind \in Q!Kinds : \A k \in {"int32", "int64"} :
           Q!FromSql(kind, Q!Value(k, n)) = Q!Taken(kind, Q!Value("int32", n))
    BY <2>4, SqlTaken, SqlWidths
  <2>6. \A kind \in Q!Kinds : Q!FromSql(kind, x) = Q!Taken(kind, x) BY <1>2, SqlTaken
  <2> QED BY <1>0, <2>2, <2>3, <2>5, <2>6, SqlFromColumns
<1>3. ASSUME NEW s, x = Q!Value("string", s) PROVE Q!SqlReadBack(x)
  <2>0. x.kind = "string" BY <1>3, SqlFields
  <2>1. MyColumns(x) = {x, Q!Throw} /\ PgColumns(x) = {x, Q!Value("unknown", s)}
    BY <1>3, MyColumnsAre, PgColumnsAre
  <2>2. \A kind \in Q!Kinds : Q!FromSql(kind, x) = Q!Taken(kind, x) BY <1>3, SqlTaken
  <2>3. Q!KeptByMysql(x) = x /\ Q!KeptByPostgresql(x) = x BY <2>0, SqlKept
  <2>4. \A kind \in Q!Kinds : Q!FromSql(kind, Q!Throw) \in MyTextLost(x) BY <2>0, SqlNotTaken DEF MyTextLost
  <2>5. \A kind \in Q!Kinds : Q!FromSql(kind, Q!Value("unknown", s)) \in {Q!Taken(kind, x)} \cup PgTextLost(x, kind)
    <3> TAKE kind \in Q!Kinds
    <3>1. CASE kind = "string" BY <2>0, <3>1, SqlNotTaken DEF PgTextLost
    <3>2. CASE kind # "string"
      <4>1. Q!Taken(kind, x) = Q!Throw BY <1>3, <2>2, <3>2, SqlTakes
      <4> QED BY <3>2, <4>1, SqlNotTaken
    <3> QED BY <3>1, <3>2
  <2> QED BY <1>0, <2>1, <2>2, <2>3, <2>4, <2>5, SqlFromColumns
<1>4. ASSUME NEW n \in Int, NEW k \in {"int32", "int64"}, x = Q!Value(k, n), k = "int32" => Q!FitsInt32(n)
      PROVE  Q!SqlReadBack(x)
  <2>1. x.kind = k /\ x.value = n BY <1>4, SqlFields
  <2>2. Q!KeptByMysql(x) = x /\ Q!KeptByPostgresql(x) = x BY <2>1, SqlKept
  <2>3. CASE k = "int32"
    <3>1. /\ MyColumns(x) = {Q!Value("int32", n), Q!Value("int64", n)}
          /\ PgColumns(x) = {Q!Value("int32", n), Q!Value("int64", n)}
      BY <1>4, <2>3, MyColumnsAre, PgColumnsAre
    <3>2. \A kind \in Q!Kinds : \A l \in {"int32", "int64"} : Q!FromSql(kind, Q!Value(l, n)) = Q!Taken(kind, x)
      BY <1>4, <2>3, SqlTaken, SqlWidths
    <3> QED BY <1>0, <1>4, <2>2, <2>3, <3>1, <3>2, SqlFromColumns
  <2>4. CASE k = "int64"
    <3>1. MyColumns(x) = {x} /\ PgColumns(x) = {x} BY <1>4, <2>4, MyColumnsAre, PgColumnsAre
    <3>2. \A kind \in Q!Kinds : Q!FromSql(kind, x) = Q!Taken(kind, x) BY <1>4, <2>4, SqlTaken
    <3> QED BY <1>0, <2>2, <3>1, <3>2, SqlFromColumns
  <2> QED BY <2>3, <2>4
<1>5. ASSUME NEW n \in Int, x = Q!Value("float", n) PROVE Q!SqlReadBack(x)
  <2>1. x.kind = "float" /\ x.value = n BY <1>5, SqlFields
  <2> DEFINE pg == Q!KeptByPostgresql(x)
  <2>2. MyColumns(x) = {x} /\ PgColumns(x) = {pg} BY <1>5, MyColumnsAre, PgColumnsAre
  <2>3. pg = Q!Value("float", n + 5 - ((n + 5) % 10)) BY <2>1 DEF Q!KeptByPostgresql
  <2>4. \A kind \in Q!Kinds : Q!FromSql(kind, x) = Q!Taken(kind, x) BY <1>5, SqlTaken
  <2>5. \A kind \in Q!Kinds : Q!FromSql(kind, pg) = Q!Taken(kind, pg) BY <2>3, SqlTaken
  <2>6. Q!FromSql(x.kind, pg) = pg BY <2>1, <2>3, SqlTakes
  <2>7. Q!KeptByMysql(x) = x BY <2>1, SqlKept
  <2> HIDE DEF pg
  <2> QED BY <2>2, <2>4, <2>5, <2>6, <2>7, SqlFromColumns DEF pg
<1>6. ASSUME NEW s, NEW f \in 0..99, x = Q!Value("timestamp", [seconds |-> s, fraction |-> f])
      PROVE  Q!SqlReadBack(x)
  <2>1. x.kind = "timestamp" BY <1>6, SqlFields
  <2> DEFINE pg == Q!KeptByPostgresql(x)
  <2>2. MyColumns(x) = {x} /\ PgColumns(x) = {pg} BY <1>6, MyColumnsAre, PgColumnsAre
  <2>3. pg = Q!Undefined \/ \E t : pg = Q!Value("timestamp", t)
    BY <1>6, <2>1 DEF Q!KeptByPostgresql
  <2>4. \A kind \in Q!Kinds : Q!FromSql(kind, x) = Q!Taken(kind, x) BY <1>6, SqlTaken
  <2>5. \A kind \in Q!Kinds : Q!FromSql(kind, pg) = Q!Taken(kind, pg) BY <2>3, SqlTaken, SqlNotTaken
  <2>6. Q!FromSql(x.kind, pg) = pg
    <3>1. x.kind \in Q!Kinds BY <2>1 DEF Q!Kinds
    <3> QED BY <2>1, <2>3, <3>1, SqlTakes, SqlNotTaken
  <2>7. Q!KeptByMysql(x) = x BY <2>1, SqlKept
  <2> HIDE DEF pg
  <2> QED BY <2>2, <2>4, <2>5, <2>6, <2>7, SqlFromColumns DEF pg
<1> QED BY <1>1, <1>2, <1>3, <1>4, <1>5, <1>6 DEF SqlValuesAll

-----------------------------------------------------------------------------
(* The rows of a database                                                  *)

\* The recursion of TextsFetched
RowFirst == [size |-> RowBuf, read |-> <<>>]
RowNext(acc, text) ==
  LET size == Q!Enlarged(acc.size, text)
  IN  [size |-> size, read |-> Append(acc.read, Q!Fetched(size, text))]
RowOf(s, g, set) == IF set = {} THEN RowFirst ELSE RowNext(g[set \ {Q!Max(set)}], s[Q!Max(set)])
RowsOf(s, g) == [set \in SUBSET DOMAIN s |-> RowOf(s, g, set)]

LEMMA RowFold == \A s : Q!TextsFetched(s) = (CHOOSE g : g = RowsOf(s, g))[DOMAIN s].read
BY DEF Q!TextsFetched, RowsOf, RowOf, RowFirst, RowNext, Q!FoldLeft, Q!MapThenFoldSet

\* A buffer holds the text it was enlarged for.
LEMMA RowText ==
  ASSUME NEW acc \in [size : Nat, read : Seq(Seq(Int))], NEW text \in Seq(Int)
  PROVE  RowNext(acc, text) = [size |-> Q!Enlarged(acc.size, text), read |-> Append(acc.read, text)]
         /\ Q!Enlarged(acc.size, text) \in Nat
<1> DEFINE size == Q!Enlarged(acc.size, text)
<1>1. size \in Nat /\ ~(size < Len(text)) BY DEF Q!Enlarged
<1> HIDE DEF size
<1>2. SubSeq(text, 1, Len(text)) = text OBVIOUS
<1>3. Q!Fetched(size, text) = text BY <1>1, <1>2 DEF Q!Fetched
<1> QED BY <1>1, <1>3 DEF RowNext, size

LEMMA TextsWhole ==
  ASSUME Q!SqlValuesAssumption, NEW s \in Seq(Seq(Int))
  PROVE  Q!TextsFetched(s) = s
<1> DEFINE Accs == [size : Nat, read : Seq(Seq(Int))]
<1> DEFINE Items == Seq(Int)
<1> DEFINE n == Len(s)
<1> DEFINE next == [p \in Accs \X Items |-> RowNext(p[1], p[2])]
<1>0. n \in Nat /\ s \in [1..n -> Items] /\ DOMAIN s = 1..n OBVIOUS
<1>1. RowFirst \in Accs BY DEF RowFirst, Q!SqlValuesAssumption
<1>2. \A acc \in Accs : \A text \in Items :
        RowNext(acc, text) \in Accs /\ RowNext(acc, text).read = Append(acc.read, text)
  <2> TAKE acc \in Accs
  <2> TAKE text \in Items
  <2>1. RowNext(acc, text) = [size |-> Q!Enlarged(acc.size, text), read |-> Append(acc.read, text)]
        /\ Q!Enlarged(acc.size, text) \in Nat
    BY RowText
  <2>2. Append(acc.read, text) \in Seq(Seq(Int)) OBVIOUS
  <2> QED BY <2>1, <2>2
<1>3. next \in [Accs \X Items -> Accs] /\ \A x \in Accs, y \in Items : next[<<x, y>>] = RowNext(x, y)
  BY <1>2
<1> HIDE DEF n, next, Accs, Items
<1>4. PICK g : g = FoldsOf(RowFirst, next, s, g) BY <1>0, FoldsExist
<1>5. \A set \in SUBSET (1..n) : g[set] \in Accs
  <2>1. Folding(RowFirst, next, Accs, Items, n, s, g) BY <1>0, <1>1, <1>3, <1>4 DEF Folding
  <2> QED BY <2>1, FoldIs
<1>6. \A set \in SUBSET (1..n) : FoldOf(RowFirst, next, s, g, set) = RowOf(s, g, set)
  <2> TAKE set \in SUBSET (1..n)
  <2>1. CASE set = {} BY <2>1 DEF FoldOf, RowOf
  <2>2. CASE set # {}
    <3> DEFINE x == Q!Max(set)
    <3>1. x \in 1..n BY <1>0, <2>2, LastOf
    <3> HIDE DEF x
    <3>2. s[x] \in Items /\ g[set \ {x}] \in Accs BY <1>0, <1>5, <3>1
    <3>3. next[<<g[set \ {x}], s[x]>>] = RowNext(g[set \ {x}], s[x]) BY <1>3, <3>2
    <3> QED BY <2>2, <3>3 DEF FoldOf, RowOf, x
  <2> QED BY <2>1, <2>2
<1>7. g = RowsOf(s, g) BY <1>0, <1>4, <1>6 DEF FoldsOf, RowsOf
<1> DEFINE h == CHOOSE h : h = RowsOf(s, h)
<1>8. h = RowsOf(s, h) BY <1>7
<1>9. Q!TextsFetched(s) = h[1..n].read BY <1>0, RowFold
<1> HIDE DEF h
<1>10. \A set \in SUBSET (1..n) : h[set] = RowOf(s, h, set) BY <1>0, <1>8 DEF RowsOf
<1> DEFINE T == {k \in Nat : k <= n => h[1..k] \in Accs /\ h[1..k].read = SubSeq(s, 1, k)}
<1>11. 0 \in T
  <2>1. 1..0 = {} /\ SubSeq(s, 1, 0) = <<>> OBVIOUS
  <2>2. h[1..0] = RowFirst BY <1>10, <2>1 DEF RowOf
  <2>3. RowFirst.read = <<>> BY DEF RowFirst
  <2>4. h[1..0] \in Accs /\ h[1..0].read = SubSeq(s, 1, 0) BY <1>1, <2>1, <2>2, <2>3
  <2> QED BY <2>4
<1>12. ASSUME NEW k \in Nat, k \in T PROVE k + 1 \in T
  <2> SUFFICES ASSUME k + 1 <= n
               PROVE  h[1..(k + 1)] \in Accs /\ h[1..(k + 1)].read = SubSeq(s, 1, k + 1)
    OBVIOUS
  <2> DEFINE l == k + 1
  <2>1. l \in 1..n /\ l - 1 = k /\ k <= n BY <1>0
  <2>2. h[1..k] \in Accs /\ h[1..k].read = SubSeq(s, 1, k) BY <1>12, <2>1
  <2> HIDE DEF T, l
  <2>3. 1..l \in SUBSET (1..n) /\ l \in 1..l BY <1>0, <2>1
  <2>4. Q!Max(1..l) \in 1..l /\ Q!Max(1..l) >= l BY <1>0, <2>3, LastOf
  <2>5. Q!Max(1..l) = l BY <2>1, <2>4
  <2>6. (1..l) \ {l} = 1..k BY <2>1
  <2>7. h[1..l] = RowNext(h[1..k], s[l]) BY <1>10, <2>3, <2>5, <2>6 DEF RowOf
  <2>8. s[l] \in Items BY <1>0, <2>1
  <2>9. h[1..l] \in Accs /\ h[1..l].read = Append(SubSeq(s, 1, k), s[l]) BY <1>2, <2>2, <2>7, <2>8
  <2>10. Append(SubSeq(s, 1, k), s[k + 1]) = SubSeq(s, 1, k + 1)
    <3>1. k + 1 <= Len(s) BY DEF n
    <3> QED BY <3>1
  <2> QED BY <2>9, <2>10 DEF l
<1> HIDE DEF T
<1>13. \A k \in Nat : k \in T BY <1>11, <1>12, FromBefore
<1>14. h[1..n].read = SubSeq(s, 1, n) BY <1>0, <1>13 DEF T
<1>15. SubSeq(s, 1, Len(s)) = s OBVIOUS
<1> QED BY <1>9, <1>14, <1>15 DEF n

\* A row is fetched whole, or not at all.
LEMMA RowsWhole ==
  ASSUME Q!SqlValuesAssumption, NEW Columns, NEW row \in Seq(Columns), NEW texts \in Seq(Seq(Int))
  PROVE  Q!RowsReadBack(texts, row)
<1> DEFINE n == Len(row)
<1> DEFINE kinds == [i \in DOMAIN row |-> row[i].kind]
<1>1. n \in Nat /\ DOMAIN row = 1..n /\ Len(kinds) = n /\ DOMAIN kinds = 1..n OBVIOUS
<1>2. \A x : Q!FromSql(x.kind, x) = x BY DEF Q!FromSql
<1>3. \A i \in 1..n : Q!FromSql(kinds[i], row[i]) = row[i] BY <1>1, <1>2
<1>4. row = [i \in 1..n |-> row[i]] OBVIOUS
<1> HIDE DEF n, kinds
<1>5. [i \in DOMAIN kinds |-> Q!FromSql(kinds[i], row[i])] = row BY <1>1, <1>3, <1>4
<1>6. ~(Len(row) < Len(kinds)) BY <1>1 DEF n
<1>7. Q!FetchRow(row, kinds) = IF Len(row) # Q!RowWidth(n) THEN Q!Throw ELSE row
  BY <1>1, <1>5, <1>6 DEF Q!FetchRow
<1>8. n <= 7 => Q!RowWidth(n) = Len(row) /\ Q!SentArgs(row) = row
  <2>1. n = Len(row) BY DEF n
  <2>2. n <= 7 => Q!RowWidth(n) = n /\ Q!RowWidth(n) \in Nat BY <1>1 DEF Q!RowWidth
  <2>3. Len(row) # 10 => Q!SentArgs(row) = row BY DEF Q!SentArgs
  <2>4. n <= 7 => n # 10 BY <1>1
  <2> QED BY <2>1, <2>2, <2>3, <2>4
<1>9. /\ Q!FetchRow(row, kinds) \in {row, Q!Throw}
      /\ Len(row) <= 7 => Q!FetchRow(Q!SentArgs(row), kinds) = row
  BY <1>7, <1>8 DEF n
<1> QED BY <1>9, TextsWhole DEF Q!RowsReadBack, kinds

-----------------------------------------------------------------------------
(* MCStores: a step is one of the component that runs, or changes nothing of it. *)

\* For any size and any increases, which may be negative: a query of a range of a fenwick_tree
\* is the sum of its numbers, though each of the numbers it adds is a sum itself.
THEOREM SumsExactHolds == Spec => []SumsExact
  <1>1. Init => TreeInv
    BY TreeInvInit, Inits, Assumed
  <1>2. TreeInv /\ [Next]_vars => TreeInv'
    BY TreeInvNext, Steps, Assumed
  <1>3. TreeInv => SumsExact
    BY TreeInvExact, Assumed DEF SumsExact
  <1>4. QED
    BY <1>1, <1>2, <1>3, PTL DEF Spec

\* For any variables, names, cells and lengths of arrays: what clone() gives shows what the
\* original did, whatever is then done to any other value, until something is put into it or
\* taken out of it through its own variable.
THEOREM ClonesApartHolds == Spec => []ClonesApart
  <1>1. Init => JsonInv
    BY JsonInvInit, Inits
  <1>2. JsonInv /\ [Next]_vars => JsonInv'
    BY JsonInvNext, Steps, Assumed
  <1>3. JsonInv => ClonesApart
    BY JsonInvExact DEF ClonesApart
  <1>4. QED
    BY <1>1, <1>2, <1>3, PTL DEF Spec

\* The items are values of their kinds.
LEMMA ItemsAre ==
  /\ Inputs["vector"].items \subseteq Int \X Int
  /\ Inputs["ratio"].items \subseteq Int
  /\ \A x \in Inputs["sql"].items : SqlValuesAll(x)
  /\ Inputs["row"].items = SqlColumns
  /\ DOMAIN Inputs = {"vector", "ratio", "sql", "row", "table"}
<1>1. Inputs["vector"].items \subseteq Int \X Int BY Assumed DEF Inputs, Components
<1>2. Inputs["ratio"].items \subseteq Int BY Assumed DEF Inputs
<1>3. ASSUME NEW x \in SqlItems PROVE SqlValuesAll(x)
  <2>1. Numbers \subseteq Int BY Assumed DEF Numbers
  <2>2. \/ x = Q!Null \/ x \in {Q!Value("bool", b) : b \in BOOLEAN} \/ x \in {Q!Value("string", s) : s \in Texts}
        \/ x \in {Q!Value("int32", n) : n \in {n \in Numbers : Q!FitsInt32(n)}}
        \/ x \in {Q!Value("int64", n) : n \in Numbers} \/ x \in {Q!Value("float", n) : n \in Numbers}
        \/ x \in {Q!Value("timestamp", [seconds |-> 1, fraction |-> f]) : f \in 0..99}
    BY <1>3, Zenon DEF SqlItems
  <2>3. CASE x \in {Q!Value("bool", b) : b \in BOOLEAN} BY <2>3 DEF SqlValuesAll
  <2>4. CASE x \in {Q!Value("string", s) : s \in Texts} BY <2>4 DEF SqlValuesAll
  <2>5. CASE \/ x \in {Q!Value("int32", n) : n \in {n \in Numbers : Q!FitsInt32(n)}}
             \/ x \in {Q!Value("int64", n) : n \in Numbers} \/ x \in {Q!Value("float", n) : n \in Numbers}
    <3>1. \E n \in Int, k \in {"int32", "int64", "float"} : x = Q!Value(k, n) /\ (k = "int32" => Q!FitsInt32(n))
      BY <2>1, <2>5
    <3> QED BY <3>1, Zenon DEF SqlValuesAll
  <2>6. CASE x \in {Q!Value("timestamp", [seconds |-> 1, fraction |-> f]) : f \in 0..99}
    <3>1. PICK f \in 0..99 : x = Q!Value("timestamp", [seconds |-> 1, fraction |-> f]) BY <2>6
    <3>2. \E s : \E g \in 0..99 : x = Q!Value("timestamp", [seconds |-> s, fraction |-> g]) BY <3>1, Zenon
    <3> QED BY <3>2 DEF SqlValuesAll
  <2> QED BY <2>2, <2>3, <2>4, <2>5, <2>6 DEF SqlValuesAll
<1>4. Inputs["sql"].items = SqlItems /\ Inputs["row"].items = SqlColumns BY DEF Inputs
<1>5. DOMAIN Inputs = {"vector", "ratio", "sql", "row", "table"} BY DEF Inputs
<1> QED BY <1>1, <1>2, <1>3, <1>4, <1>5

\* For vectors with any integers as components and fractions with any numerators and
\* denominators: `<' orders them totally, sums and products are those of the numbers, and
\* every operator of ratio gives lowest terms, by which its `==' compares.
THEOREM MathExactHolds == Spec => []MathExact
  <1>1. InputInv => MathExact
    <2> SUFFICES ASSUME InputInv PROVE MathExact OBVIOUS
    <2>1. ASSUME part = "vector"
          PROVE  V!ClassLaws(Len(input), [i \in DOMAIN input |-> input[i][1]], [i \in DOMAIN input |-> input[i][2]])
      <3> DEFINE n == Len(input)
      <3> DEFINE a == [i \in DOMAIN input |-> input[i][1]]
      <3> DEFINE b == [i \in DOMAIN input |-> input[i][2]]
      <3>1. input \in Seq(Inputs["vector"].items) BY <2>1, ItemsAre DEF InputInv
      <3>a. n \in Nat /\ DOMAIN input = 1..n /\ \A i \in 1..n : input[i] \in Inputs["vector"].items BY <3>1
      <3>2. n \in Nat /\ DOMAIN input = 1..n /\ \A i \in 1..n : input[i][1] \in Int /\ input[i][2] \in Int
        BY <3>a, ItemsAre
      <3>3. a \in [1..n -> Int] /\ b \in [1..n -> Int] BY <3>2
      <3> HIDE DEF n, a, b
      <3>4. V!ClassLaws(n, a, b) BY <3>2, <3>3, ClassLawsHold
      <3> QED BY <3>4 DEF n, a, b
    <2>2. ASSUME part = "ratio", Len(input) = 4, input[2] # 0, input[4] # 0
          PROVE  V!RatioExact(input[1], input[2], input[3], input[4])
      <3>1. input \in Seq(Inputs["ratio"].items) BY <2>2, ItemsAre DEF InputInv
      <3>a. \A i \in 1..Len(input) : input[i] \in Inputs["ratio"].items BY <3>1
      <3>2. \A i \in 1..4 : input[i] \in Int BY <2>2, <3>a, ItemsAre
      <3> QED BY <2>2, <3>2, RatioHolds
    <2> QED BY <2>1, <2>2 DEF MathExact
  <1>2. QED
    BY <1>1, InputInvHolds, PTL

\* For any values of the six kinds, whatever the limits of an int32 and of the row buffer: a
\* variable gets what it can take of the value as the server kept it, which for PostgreSQL is
\* not the value when it is a float of more than ten digits or a timestamp whose fraction ends
\* in zero, or throws; and rows of texts of any lengths arrive whole.
THEOREM SqlReadBackHolds == Spec => []SqlReadBack
  <1>1. InputInv => SqlReadBack
    <2> SUFFICES ASSUME InputInv PROVE SqlReadBack OBVIOUS
    <2>1. ASSUME part = "sql", NEW i \in DOMAIN input PROVE Q!SqlReadBack(input[i])
      <3>1. input \in Seq(Inputs["sql"].items) BY <2>1, ItemsAre DEF InputInv
      <3>2. input[i] \in Inputs["sql"].items BY <2>1, <3>1
      <3> QED BY <3>2, ItemsAre, SqlReadBackAll
    <2>2. ASSUME part = "row"
          PROVE  Q!RowsReadBack([i \in DOMAIN input |-> IF input[i].kind = "string" THEN input[i].value ELSE <<>>],
                                input)
      <3> DEFINE texts == [i \in DOMAIN input |-> IF input[i].kind = "string" THEN input[i].value ELSE <<>>]
      <3>1. input \in Seq(SqlColumns) BY <2>2, ItemsAre DEF InputInv
      <3>2. \A s \in Texts : s \in Seq(Int) BY Assumed DEF Texts
      <3>3. \A x \in SqlColumns : x.kind = "string" => x.value \in Seq(Int) BY <3>2 DEF SqlColumns, Q!Value, Q!Null
      <3>4. DOMAIN input = 1..Len(input) /\ Len(input) \in Nat /\ \A i \in DOMAIN input : input[i] \in SqlColumns
        BY <3>1
      <3>5. \A i \in 1..Len(input) : texts[i] \in Seq(Int) BY <3>3, <3>4
      <3>6. texts \in Seq(Seq(Int)) BY <3>4, <3>5
      <3> HIDE DEF texts
      <3>7. Q!RowsReadBack(texts, input) BY <3>1, <3>6, Assumed, RowsWhole
      <3> QED BY <3>7 DEF texts
    <2> QED BY <2>1, <2>2 DEF SqlReadBack
  <1>2. QED
    BY <1>1, InputInvHolds, PTL

=============================================================================
