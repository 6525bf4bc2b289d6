------------------------------ MODULE DnsCache ------------------------------
(***************************************************************************)
(* pfi::network::cached_dns_resolver (dns.cpp): a cache of resolutions     *)
(* with an index by access time, shared by threads under one mutex that    *)
(* resolve() gives up while it asks the resolver proper.                   *)
(*                                                                         *)
(* `cache` maps a (host, port) key to the addresses found and a time;      *)
(* `access_time` is a multiset of (time, key) pairs, whose first element   *)
(* is the next to be evicted.  The addresses are abstracted away.  The     *)
(* resolver proper is external: it answers whatever and whenever it likes. *)
(***************************************************************************)
EXTENDS Integers, BagsExt, Bags, FiniteSets

CONSTANTS
  Threads,       \* the callers
  Keys,          \* the (host, port) pairs
  MaxSize,       \* impl::max_size
  ExpireSeconds, \* the values of impl::expire_second
  MaxTime,       \* bound on the clock
  MaxIndex,      \* bound on the index, which can grow for ever: no call starts above it
  Nobody         \* the owner of the free mutex

DnsCacheAssumption ==
  /\ MaxSize \in Nat \ {0}  \* with none, the eviction loop never ends
  /\ ExpireSeconds \subseteq Int
  /\ MaxTime \in Nat
  /\ MaxIndex \in Nat
  /\ Nobody \notin Threads

VARIABLES
  expire_second,  \* impl::expire_second, set by the constructor
  now,     \* time(NULL)
  cache,   \* key -> time of the entry; its domain is the set of cached keys
  access,  \* impl::access_time, a bag of [at, key] records
  owner,   \* impl::m: held across the steps of the eviction loop
  pc,      \* where each caller is in resolve()
  key,     \* key[t]: what t resolves
  cur      \* cur[t]: the time t read at the start

vars == <<expire_second, now, cache, access, owner, pc, key, cur>>

Times == 0..MaxTime
Stamps == [at : Times, key : Keys]

TypeOK ==
  /\ expire_second \in ExpireSeconds
  /\ now \in Times
  /\ DOMAIN cache \subseteq Keys
  /\ \A k \in DOMAIN cache : cache[k] \in Times
  /\ IsABag(access) /\ BagToSet(access) \subseteq Stamps
  /\ owner \in Threads \cup {Nobody}
  /\ pc \in [Threads -> {"idle", "lookup", "resolving", "evict"}]
  /\ key \in [Threads -> Keys]
  /\ cur \in [Threads -> Times]

AnyKey == CHOOSE k \in Keys : TRUE

Init ==
  /\ expire_second \in ExpireSeconds
  /\ now = 0
  /\ cache = [k \in {} |-> 0]
  /\ access = EmptyBag
  /\ owner = Nobody
  /\ pc = [t \in Threads |-> "idle"]
  /\ key = [t \in Threads |-> AnyKey]
  /\ cur = [t \in Threads |-> 0]

Goto(t, from, to) == pc[t] = from /\ pc' = [pc EXCEPT ![t] = to]

\* resolve() returns: the call's variables are no more.
Return(t, from) ==
  /\ Goto(t, from, "idle")
  /\ key' = [key EXCEPT ![t] = AnyKey]
  /\ cur' = [cur EXCEPT ![t] = 0]

Stamp(time, k) == [at |-> time, key |-> k]

\* std::map::erase, and cache[k] = (..., time)
Without(k) == [j \in DOMAIN cache \ {k} |-> cache[j]]
With(k, time) == [j \in DOMAIN cache \cup {k} |-> IF j = k THEN time ELSE cache[j]]

-----------------------------------------------------------------------------

\* The clock goes on; MaxTime bounds it.
Tick ==
  /\ now < MaxTime
  /\ now' = now + 1
  /\ UNCHANGED <<expire_second, cache, access, owner, pc, key, cur>>

\* resolve(host, port) begins and reads the clock.
Call(t) ==
  /\ BagCardinality(access) < MaxIndex
  /\ Goto(t, "idle", "lookup")
  /\ \E k \in Keys : key' = [key EXCEPT ![t] = k]
  /\ cur' = [cur EXCEPT ![t] = now]
  /\ UNCHANGED <<expire_second, now, cache, access, owner>>

\* The entry is there: it is stamped with the new time, in the index and in the
\* cache, and then asked whether its time is recent enough.  It is the new time
\* that is asked, so the answer depends on expire_second alone.
Hit(t) ==
  LET k == key[t]
      stamped == BagAdd(BagRemoveAll(access, Stamp(cache[k], k)), Stamp(cur[t], k))
      fresh == cur[t] - With(k, cur[t])[k] < expire_second
  IN
  /\ owner = Nobody
  /\ k \in DOMAIN cache
  /\ IF fresh
     THEN /\ Return(t, "lookup")
          /\ cache' = With(k, cur[t])
          /\ access' = stamped
     ELSE /\ Goto(t, "lookup", "resolving")
          /\ cache' = Without(k)
          /\ access' = BagRemoveAll(stamped, Stamp(cur[t], k))
          /\ UNCHANGED <<key, cur>>
  /\ UNCHANGED <<expire_second, now, owner>>

Miss(t) ==
  /\ owner = Nobody
  /\ key[t] \notin DOMAIN cache
  /\ Goto(t, "lookup", "resolving")
  /\ UNCHANGED <<expire_second, now, cache, access, owner, key, cur>>

\* norm.resolve returns and the mutex is taken again.
Resolved(t) ==
  /\ owner = Nobody
  /\ owner' = t
  /\ Goto(t, "resolving", "evict")
  /\ UNCHANGED <<expire_second, now, cache, access, key, cur>>

\* The body of the loop: the first of the index goes, and its key from the cache.
\* Keys with equal times are in an order of their own, here any.
Evict(t) ==
  /\ pc[t] = "evict"
  /\ Cardinality(DOMAIN cache) >= MaxSize
  /\ \E e \in BagToSet(access) :
       /\ \A f \in BagToSet(access) : e.at <= f.at
       /\ cache' = Without(e.key)
       /\ access' = BagRemove(access, e)
  /\ UNCHANGED <<expire_second, now, owner, pc, key, cur>>

\* Fault: the entry is registered without making room.
Register_Unchecked(t) ==
  /\ Return(t, "evict")
  /\ cache' = With(key[t], cur[t])
  /\ access' = BagAdd(access, Stamp(cur[t], key[t]))
  /\ owner' = Nobody
  /\ UNCHANGED <<expire_second, now>>

\* The entry is registered with the time read at the start of the call.
Register(t) ==
  /\ Cardinality(DOMAIN cache) < MaxSize
  /\ Return(t, "evict")
  /\ cache' = With(key[t], cur[t])
  /\ access' = BagAdd(access, Stamp(cur[t], key[t]))
  /\ owner' = Nobody
  /\ UNCHANGED <<expire_second, now>>

\* clear_cache()
Clear ==
  /\ owner = Nobody
  /\ cache' = [k \in {} |-> 0]
  /\ access' = EmptyBag
  /\ UNCHANGED <<expire_second, now, owner, pc, key, cur>>

\* Fault: the entry that cache[key] makes is not erased again.
Delete_KeepsDefault(k) ==
  /\ owner = Nobody
  /\ access' = BagRemoveAll(access, Stamp(IF k \in DOMAIN cache THEN cache[k] ELSE 0, k))
  /\ cache' = With(k, 0)
  /\ UNCHANGED <<expire_second, now, owner, pc, key, cur>>

\* delete_cache(host, port): for a key that is not cached, cache[key] makes an entry
\* of time 0, whose stamp goes from the index before the entry goes again.
Delete(k) ==
  /\ owner = Nobody
  /\ access' = BagRemoveAll(access, Stamp(IF k \in DOMAIN cache THEN cache[k] ELSE 0, k))
  /\ cache' = Without(k)
  /\ UNCHANGED <<expire_second, now, owner, pc, key, cur>>

Next ==
  \/ Tick \/ Clear
  \/ \E k \in Keys : Delete(k)
  \/ \E t \in Threads :
       Call(t) \/ Hit(t) \/ Miss(t) \/ Resolved(t) \/ Evict(t) \/ Register(t)

Spec == Init /\ [][Next]_vars

-----------------------------------------------------------------------------
(* Properties *)

\* The cache never holds more than max_size entries, though several callers that
\* missed store at about the same time.
SizeBounded == Cardinality(DOMAIN cache) <= MaxSize

\* Every cached entry is in the index under its own time, so that it can be found
\* for eviction and the loop never looks at the head of an empty index.
CachedAreIndexed == \A k \in DOMAIN cache : BagIn(Stamp(cache[k], k), access)

\* dns.cpp asserts in the eviction loop that the index has one stamp per entry.
EvictionAssert ==
  \A t \in Threads :
    pc[t] = "evict" /\ Cardinality(DOMAIN cache) >= MaxSize
      => BagCardinality(access) = Cardinality(DOMAIN cache)

\* dns.rst calls expire_second the longest time that an entry is held: what was
\* last asked for that long ago is not answered from the cache.
EntriesExpire ==
  [][\A t \in Threads :
       pc[t] = "lookup" /\ pc'[t] = "idle" => cur[t] - cache[key[t]] < expire_second]_vars

=============================================================================
