-------------------------------- MODULE Fenwick --------------------------------
(***************************************************************************)
(* pfi::data::fenwick_tree (fenwick_tree.h) of n numbers: v[a] is the sum  *)
(* of those from a & (a + 1) to a.  Indices are from 0 on.                 *)
(***************************************************************************)
EXTENDS Integers, FiniteSets, FiniteSetsExt

CONSTANTS Size, Amounts, MaxIncreases  \* bound: the calls of increase()

FenwickAssumption == Size \in Nat \ {0} /\ Amounts \subseteq Int /\ MaxIncreases \in Nat

VARIABLES v,
          plain,  \* history: the numbers themselves
          count   \* history: the calls of increase()

vars == <<v, plain, count>>

Index == 0..(Size - 1)

Init == v = [i \in Index |-> 0] /\ plain = [i \in Index |-> 0] /\ count = 0

\* The value of the lowest bit of x that is set.
LowBit(x) ==
  LET low[y \in Nat \ {0}] == IF y % 2 = 1 THEN 1 ELSE 2 * low[y \div 2] IN low[x]

\* k | (k + 1), where increase() goes on.
Above(k) == k + LowBit(k + 1)

\* Fault: query() goes on at the place before, which v[a] may have the number of already.
Below_Previous(a) == a - 1

\* (a & (a + 1)) - 1, where query() goes on.
Below(a) == a - LowBit(a + 1)

\* The places increase() changes from k on.
Path(k) ==
  LET on[i \in 0..(2 * Size)] == IF i < Size THEN {i} \cup on[Above(i)] ELSE {} IN on[k]

Increase(k, n) ==
  /\ count < MaxIncreases
  /\ v' = [i \in Index |-> IF i \in Path(k) THEN v[i] + n ELSE v[i]]
  /\ plain' = [plain EXCEPT ![k] = @ + n]
  /\ count' = count + 1

\* query(a), and query(a, b)
Query(a) == LET upto[i \in -1..a] == IF i >= 0 THEN v[i] + upto[Below(i)] ELSE 0 IN upto[a]
QueryRange(a, b) == Query(b) - Query(a - 1)

Next == \E k \in Index, n \in Amounts : Increase(k, n)

Spec == Init /\ [][Next]_vars

-----------------------------------------------------------------------------
\* After any increases every range has the sum of its numbers, whatever the size.
SumsExact ==
  \A a, b \in Index : a <= b => QueryRange(a, b) = MapThenSumSet(LAMBDA i : plain[i], a..b)
=============================================================================
