----------------------------- MODULE RecencyList -----------------------------
(***************************************************************************)
(* What pfi::data::lru promises: the entries stand in the order of their   *)
(* last use, and the one that was not used for the longest time makes room *)
(* for a new one.                                                          *)
(***************************************************************************)
EXTENDS Integers, SequencesExt

CONSTANTS Keys, Values, MaxSize

VARIABLES order,  \* the cached keys, the least recently used first
          vals    \* the value of each of them

vars == <<order, vals>>

Init == order = <<>> /\ vals = <<>>

\* The key is used: it is the most recent now.
Use(k) ==
  /\ \E i \in DOMAIN order : order[i] = k /\ order' = Append(RemoveAt(order, i), k)
  /\ UNCHANGED vals

\* A key that is not there comes in, in the place of the least recent one if need be.
Enter(k, v) ==
  LET rest == IF Len(order) = MaxSize THEN Tail(order) ELSE order IN
  /\ ~Contains(order, k)
  /\ order' = Append(rest, k)
  /\ vals' = [x \in ToSet(order') |-> IF x = k THEN v ELSE vals[x]]

Leave(k) ==
  /\ \E i \in DOMAIN order : order[i] = k /\ order' = RemoveAt(order, i)
  /\ vals' = [x \in ToSet(order') |-> vals[x]]

Empty == order' = <<>> /\ vals' = <<>>

\* operator[] gives the value itself, which the caller may overwrite.
Overwrite(k, v) ==
  /\ \E i \in DOMAIN order : order[i] = k /\ order' = Append(RemoveAt(order, i), k)
  /\ vals' = [vals EXCEPT ![k] = v]

Next == \/ Empty
        \/ \E k \in Keys : Use(k) \/ Leave(k) \/ \E v \in Values : Enter(k, v) \/ Overwrite(k, v)

Spec == Init /\ [][Next]_vars
=============================================================================
