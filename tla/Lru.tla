--------------------------------- MODULE Lru ---------------------------------
(***************************************************************************)
(* pfi::data::lru (lru.h): a map from keys to a value and the time of its  *)
(* last use, and access_time, the same pairs the other way round, in order *)
(* of time.  access_time is a multiset; the times in it are all different, *)
(* so it is a set here.  The code is for one thread.                       *)
(***************************************************************************)
EXTENDS Integers, SequencesExt

CONSTANTS
  Keys, Values,
  Fresh,    \* V(), one of Values
  MaxSize,  \* max_size; the code says that it should be > 0, or set() never ends
  MaxCur    \* bound: how many uses there are, uint64_t in the code

LruAssumption ==
  /\ Fresh \in Values /\ MaxSize \in Nat \ {0} /\ MaxCur \in Nat

VARIABLES cur, cache, access_time

vars == <<cur, cache, access_time>>

Init == cur = 0 /\ cache = <<>> /\ access_time = {}

Has(k) == k \in DOMAIN cache

\* Fault: the pair of the last use stays.
Touched_KeepsOld(k) == access_time \cup {[time |-> cur, key |-> k]}

\* access_time after a use of k.
Touched(k) ==
  (access_time \ {[time |-> cache[k].time, key |-> k]}) \cup {[time |-> cur, key |-> k]}

\* touch(), and get() of a key that is there.
Touch(k) ==
  /\ Has(k) /\ cur < MaxCur
  /\ access_time' = Touched(k)
  /\ cache' = [cache EXCEPT ![k].time = cur]
  /\ cur' = cur + 1

\* What the loop of set() throws out: as many of the earliest as it takes to make room.
Evicted ==
  CHOOSE out \in SUBSET access_time :
    /\ Cardinality(out) = Max({0, Cardinality(DOMAIN cache) - MaxSize + 1})
    /\ \A x \in out, y \in access_time \ out : x.time < y.time

\* set() of a key that is not there; one that is there keeps its value and its time.
Set(k, v) ==
  LET gone == {x.key : x \in Evicted} IN
  /\ ~Has(k) /\ cur < MaxCur
  /\ access_time' = (access_time \ Evicted) \cup {[time |-> cur, key |-> k]}
  /\ cache' = [x \in (DOMAIN cache \ gone) \cup {k} |->
                 IF x = k THEN [val |-> v, time |-> cur] ELSE cache[x]]
  /\ cur' = cur + 1

\* operator[] with an assignment to what it returns: touch() or set() of V() comes first.
At(k, v) ==
  \/ /\ Has(k) /\ cur < MaxCur
     /\ access_time' = Touched(k)
     /\ cache' = [cache EXCEPT ![k] = [val |-> v, time |-> cur]]
     /\ cur' = cur + 1
  \/ Set(k, v)

\* operator[] that is only read
Peek(k) == Touch(k) \/ Set(k, Fresh)

\* remove(); of a key that is not there an entry is made and erased again.
RemoveKey(k) ==
  /\ Has(k)
  /\ access_time' = access_time \ {[time |-> cache[k].time, key |-> k]}
  /\ cache' = [x \in DOMAIN cache \ {k} |-> cache[x]]
  /\ UNCHANGED cur

Clear == cache' = <<>> /\ access_time' = {} /\ UNCHANGED cur

Next == \/ Clear
        \/ \E k \in Keys : Touch(k) \/ Peek(k) \/ RemoveKey(k) \/ \E v \in Values : Set(k, v) \/ At(k, v)

Spec == Init /\ [][Next]_vars

-----------------------------------------------------------------------------
\* The index tells the order, the map the values.
InOrder(uses) ==
  CHOOSE s \in [1..Cardinality(uses) -> uses] :
    \A i, j \in DOMAIN s : i < j => s[i].time < s[j].time

KeysOf(s) == [i \in DOMAIN s |-> s[i].key]
ValuesOf(c) == [k \in DOMAIN c |-> c[k].val]

R == INSTANCE RecencyList WITH order <- KeysOf(InOrder(access_time)), vals <- ValuesOf(cache)

\* Over any sequence of get, set, touch, remove, clear and operator[] the two structures
\* agree, the bound holds, and what set() throws out is the entry that was not used for the
\* longest time, of which all traces go.
ImplementsRecencyList == R!Spec
=============================================================================
