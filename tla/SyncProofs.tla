------------------------------ MODULE SyncProofs ------------------------------
(***************************************************************************)
(* Proofs about the primitives of MCSync, for any threads and any values   *)
(* of the other constants.  What a run of one primitive does is what its   *)
(* module says, so that its invariants are invariants of MCSync; those of  *)
(* CondMutex and MVar are proved in modules of their own and cited here.   *)
(***************************************************************************)
EXTENDS MCSync, FiniteSetTheorems, TLAPS

(* qsem                                                                     *)

QSemLocked == {"loop", "take", "wait_leave", "give", "signal_leave"}
QSemUnlocked == {"out", "wait_enter", "using", "signal_enter", "notify"}

QSemTypes ==
  /\ Q!M!TypeOK
  /\ quantity \in Int
  /\ pc \in [Threads -> Q!Labels]
  /\ asked \in [Threads -> Quantities \cup {0}]
  /\ inUse \in Int

\* What the monitor knows of a thread follows from where it is.
QSemRoomInv ==
  \A t \in Threads :
    /\ pc[t] \in QSemUnlocked => depth[t] = 0 /\ room[t] = "in"
    /\ pc[t] \in QSemLocked => depth[t] = 1 /\ room[t] = "in"
    /\ pc[t] = "waiting" => depth[t] = 1 /\ room[t] \in {"asleep", "woken"}

\* One thread at a time is between the lock and the unlock.
QSemLockInv ==
  \A t, u \in Threads : pc[t] \in QSemLocked /\ pc[u] \in QSemLocked => t = u

QSemInv == QSemTypes /\ QSemRoomInv /\ QSemLockInv /\ Q!NoLostWakeup

-----------------------------------------------------------------------------

LEMMA QSemAskedInt == ASSUME Q!QSemAssumption, QSemTypes PROVE \A t \in Threads : asked[t] \in Int
  <1> TAKE t \in Threads
  <1>1. asked[t] \in Quantities \cup {0}
    BY DEF QSemTypes
  <1>2. Quantities \subseteq Int
    BY DEF Q!QSemAssumption
  <1>3. 0 \in Int
    OBVIOUS
  <1>4. QED
    BY <1>1, <1>2, <1>3, Zenon

LEMMA QSemInvInit == Q!QSemAssumption /\ Q!Init => QSemInv
  BY DEF Q!QSemAssumption, Q!Init, QSemInv, QSemTypes, Q!Labels, QSemRoomInv, QSemUnlocked, QSemLocked, QSemLockInv, Q!NoLostWakeup,
         Q!M!Init, Q!M!TypeOK

LEMMA QSemInvNext == Q!QSemAssumption /\ QSemInv /\ [Q!Next]_qsemVars => QSemInv'
  <1> SUFFICES ASSUME Q!QSemAssumption, QSemInv, [Q!Next]_qsemVars PROVE QSemInv'
    OBVIOUS
  <1> USE DEF Q!QSemAssumption, QSemInv, QSemTypes, Q!Labels, QSemRoomInv, QSemUnlocked, QSemLocked, QSemLockInv, Q!NoLostWakeup,
        Q!Blocked, Q!Goto, Q!M!TypeOK
  <1>1. ASSUME NEW t \in Threads, Q!WaitCall(t) PROVE QSemInv'
    BY <1>1 DEF Q!WaitCall
  <1>2. ASSUME NEW t \in Threads, Q!Enter(t) PROVE QSemInv'
    BY <1>2 DEF Q!Enter, Q!M!Acquire, Q!M!Free, Q!M!Holds
  <1>3. ASSUME NEW t \in Threads, Q!Wait(t) PROVE QSemInv'
    BY <1>3 DEF Q!Wait, Q!M!Sleep, Q!M!Holds
  <1>4. ASSUME NEW t \in Threads, Q!Spurious(t) PROVE QSemInv'
    BY <1>4 DEF Q!Spurious, Q!M!Wake
  <1>5. ASSUME NEW t \in Threads, Q!Resume(t) PROVE QSemInv'
    BY <1>5 DEF Q!Resume, Q!M!Resume, Q!M!Free, Q!M!Holds
  <1>6. ASSUME NEW t \in Threads, Q!Pass(t) PROVE QSemInv'
    BY <1>6 DEF Q!Pass
  <1>7. ASSUME NEW t \in Threads, Q!Take(t) PROVE QSemInv'
    <2> USE <1>7 DEF Q!Take
    <2>1. QSemTypes' /\ QSemRoomInv' /\ QSemLockInv'
      OBVIOUS
    <2>2. ASSUME NEW s \in Threads, ~Q!Blocked(s)' PROVE ~Q!Blocked(s)
      <3>1. asked[s] \in Int
        BY QSemAskedInt
      <3>2. QED
        BY <2>2, <3>1
    <2>3. ASSUME NEW u \in Threads, pc[u] \in {"signal_leave", "notify"} PROVE pc'[u] = pc[u]
      BY <2>3
    <2>4. Q!NoLostWakeup'
      BY <2>2, <2>3
    <2>5. QED
      BY <2>1, <2>4
  <1>8. ASSUME NEW t \in Threads, Q!WaitLeave(t) PROVE QSemInv'
    BY <1>8 DEF Q!WaitLeave, Q!M!Release, Q!M!Holds
  <1>9. ASSUME NEW t \in Threads, Q!SignalCall(t) PROVE QSemInv'
    BY <1>9 DEF Q!SignalCall
  <1>10. ASSUME NEW t \in Threads, Q!Give(t) PROVE QSemInv'
    BY <1>10 DEF Q!Give
  <1>11. ASSUME NEW t \in Threads, Q!SignalLeave(t) PROVE QSemInv'
    BY <1>11 DEF Q!SignalLeave, Q!M!Release, Q!M!Holds
  <1>12. ASSUME NEW t \in Threads, Q!NotifyAll(t) PROVE QSemInv'
    BY <1>12 DEF Q!NotifyAll, Q!M!Wake
  <1>13. CASE UNCHANGED qsemVars
    BY <1>13 DEF qsemVars
  <1>14. QED
    BY <1>1, <1>2, <1>3, <1>4, <1>5, <1>6, <1>7, <1>8, <1>9, <1>10, <1>11, <1>12, <1>13
    DEF Q!Next, Q!Step

-----------------------------------------------------------------------------
(* lock() and unlock() *)

\* With the quantity 1 what is taken and given back is what was asked for, and
\* who passed the loop still finds a unit.
QSemUnitInv ==
  /\ quantity + inUse = Initial
  /\ quantity >= 0
  /\ \A t \in Threads :
       /\ pc[t] # "out" => asked[t] = 1
       /\ pc[t] = "take" => quantity >= 1

LEMMA QSemUnitInit == Q!QSemAssumption /\ Q!Init => QSemUnitInv
  BY DEF Q!QSemAssumption, Q!Init, QSemUnitInv

LEMMA QSemUnitNext ==
  Q!QSemAssumption /\ Quantities = {1} /\ QSemInv /\ QSemUnitInv /\ [Q!Next]_qsemVars => QSemUnitInv'
  <1> SUFFICES ASSUME Q!QSemAssumption, Quantities = {1}, QSemInv, QSemUnitInv, [Q!Next]_qsemVars PROVE QSemUnitInv'
    OBVIOUS
  <1> USE DEF Q!QSemAssumption, QSemInv, QSemTypes, Q!Labels, QSemUnitInv, Q!Goto
  <1>1. ASSUME NEW t \in Threads, Q!WaitCall(t) PROVE QSemUnitInv'
    BY <1>1 DEF Q!WaitCall
  <1>2. ASSUME NEW t \in Threads, Q!Enter(t) \/ Q!Wait(t) \/ Q!Spurious(t) \/ Q!Resume(t) PROVE QSemUnitInv'
    BY <1>2 DEF Q!Enter, Q!Wait, Q!Spurious, Q!Resume
  <1>3. ASSUME NEW t \in Threads, Q!Pass(t) PROVE QSemUnitInv'
    BY <1>3 DEF Q!Pass, Q!Blocked
  <1>4. ASSUME NEW t \in Threads, Q!Take(t) PROVE QSemUnitInv'
    <2> USE <1>4 DEF Q!Take
    <2>1. asked[t] = 1 /\ quantity >= 1
      OBVIOUS
    <2>2. quantity' + inUse' = Initial /\ quantity' >= 0
      BY <2>1
    <2>3. ASSUME NEW u \in Threads PROVE pc'[u] # "out" => asked'[u] = 1
      BY <2>1
    <2>4. ASSUME NEW u \in Threads PROVE pc'[u] # "take"
      BY DEF QSemLockInv, QSemLocked
    <2>5. QED
      BY <2>2, <2>3, <2>4
  <1>5. ASSUME NEW t \in Threads, Q!WaitLeave(t) \/ Q!SignalCall(t) PROVE QSemUnitInv'
    BY <1>5 DEF Q!WaitLeave, Q!SignalCall
  <1>6. ASSUME NEW t \in Threads, Q!Give(t) PROVE QSemUnitInv'
    BY <1>6 DEF Q!Give
  <1>7. ASSUME NEW t \in Threads, Q!SignalLeave(t) \/ Q!NotifyAll(t) PROVE QSemUnitInv'
    BY <1>7 DEF Q!SignalLeave, Q!NotifyAll
  <1>8. CASE UNCHANGED qsemVars
    BY <1>8 DEF qsemVars
  <1>9. QED
    BY <1>1, <1>2, <1>3, <1>4, <1>5, <1>6, <1>7, <1>8 DEF Q!Next, Q!Step
-----------------------------------------------------------------------------

-----------------------------------------------------------------------------
(* rw_mutex                                                                 *)

\* The pthread lock is exclusive, and nobody asks for a read lock with a try.
RWExclusive ==
  /\ writer # Nobody => readers = {}
  /\ \A t \in Readers : kind[t] # "try"

RWInv == W!TypeOK /\ RWExclusive /\ W!BeliefExact

LEMMA RWInvInit == W!RWMutexAssumption /\ W!Init => RWInv
  BY DEF W!RWMutexAssumption, W!Init, RWInv, W!TypeOK, W!Lockers, W!Kinds, RWExclusive, W!BeliefExact

\* A call that does not try a read lock answers whether the lock was granted.
LEMMA RWHonestResult ==
  ASSUME RWExclusive, NEW t \in W!Lockers, NEW success
  PROVE  W!LockResult(t, success) = success
  BY DEF RWExclusive, W!LockResult

LEMMA RWInvNext ==
  W!RWMutexAssumption /\ "try" \notin ReadKinds /\ RWInv /\ [W!Next]_rwVars => RWInv'
  <1> SUFFICES ASSUME W!RWMutexAssumption, "try" \notin ReadKinds, RWInv, [W!Next]_rwVars PROVE RWInv'
    OBVIOUS
  <1> USE DEF W!RWMutexAssumption, RWInv, W!TypeOK, W!Lockers, W!Kinds, RWExclusive, W!BeliefExact
  <1>1. ASSUME NEW t \in W!Lockers, W!Call(t) PROVE RWInv'
    <2>1. PICK k \in IF t \in Readers THEN ReadKinds ELSE WriteKinds :
            kind' = [kind EXCEPT ![t] = k]
      BY <1>1 DEF W!Call
    <2>2. kind' \in [W!Lockers -> W!Kinds] /\ \A u \in Readers : kind'[u] # "try"
      BY <2>1
    <2>3. QED
      BY <1>1, <2>2 DEF W!Call
  <1>2. ASSUME NEW t \in W!Lockers, W!Granted(t) PROVE RWInv'
    <2>1. W!Answer(t, TRUE)
      BY <1>2, RWHonestResult DEF W!Granted
    <2>2. /\ wpc' = [wpc EXCEPT ![t] = "block"]
          /\ locked' = [locked EXCEPT ![t] = TRUE]
          /\ kind' = kind
      BY <2>1 DEF W!Answer
    <2>3. writer = Nobody /\ (t \notin Readers => readers = {})
      BY <1>2 DEF W!Granted, W!CanLock
    <2>4. IF t \in Readers THEN readers' = readers \cup {t} /\ writer' = writer
                            ELSE writer' = t /\ readers' = readers
      BY <1>2 DEF W!Granted
    <2>5. W!TypeOK' /\ RWExclusive'
      BY <2>2, <2>3, <2>4
    <2>6. ASSUME NEW u \in W!Lockers
          PROVE  (u \in readers' \/ writer' = u) <=> (u = t \/ u \in readers \/ writer = u)
      BY <2>3, <2>4
    <2>7. ASSUME NEW u \in W!Lockers
          PROVE  (wpc'[u] = "block" <=> u = t \/ wpc[u] = "block") /\ (locked'[u] <=> u = t \/ locked[u])
      BY <2>2, Zenon
    <2>8. W!BeliefExact'
      BY <2>6, <2>7
    <2>9. QED
      BY <2>5, <2>8
  <1>3. ASSUME NEW t \in W!Lockers, W!Denied(t) PROVE RWInv'
    <2>1. W!Answer(t, FALSE)
      BY <1>3, RWHonestResult DEF W!Denied
    <2>2. QED
      BY <1>3, <2>1 DEF W!Denied, W!Answer
  <1>4. ASSUME NEW t \in W!Lockers, W!Unlock(t) PROVE RWInv'
    BY <1>4 DEF W!Unlock
  <1>5. CASE UNCHANGED rwVars
    BY <1>5 DEF rwVars
  <1>6. QED
    BY <1>1, <1>2, <1>3, <1>4, <1>5 DEF W!Next

-----------------------------------------------------------------------------
(* cached_dns_resolver                                                      *)

DnsFinite == IsFiniteSet(DOMAIN cache)

DnsInv == DnsFinite /\ D!SizeBounded /\ D!CachedAreIndexed

-----------------------------------------------------------------------------
(* What the operations of the index do to the set of its stamps. *)

LEMMA DnsCard == ASSUME NEW S PROVE D!Cardinality(S) = Cardinality(S)
  BY DEF D!Cardinality, Cardinality

LEMMA DnsAdded == ASSUME NEW B, NEW x PROVE DOMAIN D!BagAdd(B, x) = DOMAIN B \cup {x}
  BY DEF D!BagAdd

LEMMA DnsAllRemoved == ASSUME NEW B, NEW x PROVE DOMAIN D!BagRemoveAll(B, x) = DOMAIN B \ {x}
  BY DEF D!BagRemoveAll

LEMMA DnsRestamped ==
  ASSUME NEW B, NEW x, NEW y
  PROVE  DOMAIN D!BagAdd(D!BagRemoveAll(B, x), y) = (DOMAIN B \ {x}) \cup {y}
  <1>1. DOMAIN D!BagAdd(D!BagRemoveAll(B, x), y) = DOMAIN D!BagRemoveAll(B, x) \cup {y}
    BY DnsAdded
  <1>2. DOMAIN D!BagRemoveAll(B, x) = DOMAIN B \ {x}
    BY DnsAllRemoved
  <1>3. QED
    BY <1>1, <1>2

LEMMA DnsOneRemoved == ASSUME NEW B, NEW x PROVE DOMAIN B \ {x} \subseteq DOMAIN D!BagRemove(B, x)
  BY DEF D!BagRemove

\* Stamps of different keys differ.
LEMMA DnsStampKeys == ASSUME NEW m, NEW n, NEW j, NEW k, D!Stamp(m, j) = D!Stamp(n, k) PROVE j = k
  BY DEF D!Stamp

-----------------------------------------------------------------------------

LEMMA DnsInvInit == D!DnsCacheAssumption /\ D!Init => DnsInv
  BY FS_EmptySet, DnsCard DEF D!DnsCacheAssumption, D!Init, DnsInv, DnsFinite, D!SizeBounded, D!CachedAreIndexed

\* An entry that goes keeps the bound.
LEMMA DnsShrinks ==
  ASSUME NEW k, DnsFinite, D!SizeBounded, D!DnsCacheAssumption,
         cache' = D!Without(k)
  PROVE  DnsFinite' /\ D!SizeBounded'
  <1>1. DOMAIN cache' = DOMAIN cache \ {k}
    BY DEF D!Without
  <1>2. /\ IsFiniteSet(DOMAIN cache')
        /\ Cardinality(DOMAIN cache') <= Cardinality(DOMAIN cache)
        /\ Cardinality(DOMAIN cache) \in Nat /\ Cardinality(DOMAIN cache') \in Nat
    BY <1>1, FS_Subset, FS_CardinalityType DEF DnsFinite
  <1>3. QED
    BY <1>2, DnsCard DEF DnsFinite, D!SizeBounded, D!DnsCacheAssumption

\* A new entry keeps the bound when there is room, an old one always.
LEMMA DnsGrows ==
  ASSUME NEW k, NEW time, DnsFinite, D!SizeBounded, D!DnsCacheAssumption,
         k \in DOMAIN cache \/ Cardinality(DOMAIN cache) < MaxSize,
         cache' = D!With(k, time)
  PROVE  DnsFinite' /\ D!SizeBounded'
  <1>1. DOMAIN cache' = DOMAIN cache \cup {k}
    BY DEF D!With
  <1>2. Cardinality(DOMAIN cache) \in Nat
    BY FS_CardinalityType DEF DnsFinite
  <1>3. /\ IsFiniteSet(DOMAIN cache')
        /\ Cardinality(DOMAIN cache') =
             IF k \in DOMAIN cache THEN Cardinality(DOMAIN cache) ELSE Cardinality(DOMAIN cache) + 1
    BY <1>1, FS_AddElement DEF DnsFinite
  <1>4. QED
    BY <1>2, <1>3, DnsCard DEF DnsFinite, D!SizeBounded, D!DnsCacheAssumption

LEMMA DnsInvNext == D!DnsCacheAssumption /\ DnsInv /\ [D!Next]_dnsVars => DnsInv'
  <1> SUFFICES ASSUME D!DnsCacheAssumption, DnsInv, [D!Next]_dnsVars PROVE DnsInv'
    OBVIOUS
  <1> USE DEF DnsInv
  <1>1. ASSUME NEW t \in Resolvers, D!Hit(t) PROVE DnsInv'
    <2> DEFINE k == key[t]
               stamped == D!BagAdd(D!BagRemoveAll(access, D!Stamp(cache[k], k)), D!Stamp(cur[t], k))
    <2>1. k \in DOMAIN cache
      BY <1>1 DEF D!Hit
    <2>2. DOMAIN stamped = (DOMAIN access \ {D!Stamp(cache[k], k)}) \cup {D!Stamp(cur[t], k)}
      BY DnsRestamped
    <2>3. CASE cache' = D!With(k, cur[t]) /\ access' = stamped
      <3>1. DnsFinite' /\ D!SizeBounded'
        BY <2>1, <2>3, DnsGrows
      <3>2. ASSUME NEW j \in DOMAIN cache' PROVE D!Stamp(cache'[j], j) \in DOMAIN access'
        <4>1. CASE j = k
          BY <2>2, <2>3, <4>1 DEF D!With
        <4>2. CASE j # k
          <5>1. j \in DOMAIN cache /\ cache'[j] = cache[j]
            BY <2>3, <3>2, <4>2 DEF D!With
          <5>2. D!Stamp(cache[j], j) # D!Stamp(cache[k], k)
            BY <4>2, DnsStampKeys
          <5>3. QED
            BY <2>2, <2>3, <5>1, <5>2 DEF D!CachedAreIndexed, D!BagIn, D!BagToSet
        <4>3. QED
          BY <4>1, <4>2
      <3>3. QED
        BY <3>1, <3>2 DEF D!CachedAreIndexed, D!BagIn, D!BagToSet
    <2>4. CASE cache' = D!Without(k) /\ access' = D!BagRemoveAll(stamped, D!Stamp(cur[t], k))
      <3>1. DnsFinite' /\ D!SizeBounded'
        BY <2>4, DnsShrinks
      <3>2. DOMAIN access' = DOMAIN stamped \ {D!Stamp(cur[t], k)}
        BY <2>4, DnsAllRemoved
      <3>3. ASSUME NEW j \in DOMAIN cache' PROVE D!Stamp(cache'[j], j) \in DOMAIN access'
        <4>1. j \in DOMAIN cache /\ j # k /\ cache'[j] = cache[j]
          BY <2>4, <3>3 DEF D!Without
        <4>2. D!Stamp(cache[j], j) # D!Stamp(cache[k], k) /\ D!Stamp(cache[j], j) # D!Stamp(cur[t], k)
          BY <4>1, DnsStampKeys
        <4>3. QED
          BY <2>2, <3>2, <4>1, <4>2 DEF D!CachedAreIndexed, D!BagIn, D!BagToSet
      <3>4. QED
        BY <3>1, <3>3 DEF D!CachedAreIndexed, D!BagIn, D!BagToSet
    <2>5. QED
      BY <1>1, <2>3, <2>4 DEF D!Hit
  <1>2. ASSUME NEW t \in Resolvers, D!Evict(t) PROVE DnsInv'
    <2>1. PICK e \in DOMAIN access : cache' = D!Without(e.key) /\ access' = D!BagRemove(access, e)
      BY <1>2 DEF D!Evict, D!BagToSet
    <2>2. DnsFinite' /\ D!SizeBounded'
      BY <2>1, DnsShrinks
    <2>3. ASSUME NEW j \in DOMAIN cache' PROVE D!Stamp(cache'[j], j) \in DOMAIN access'
      <3>1. j \in DOMAIN cache /\ j # e.key /\ cache'[j] = cache[j]
        BY <2>1, <2>3 DEF D!Without
      <3>2. D!Stamp(cache[j], j) # e
        BY <3>1 DEF D!Stamp
      <3>3. QED
        BY <2>1, <3>1, <3>2, DnsOneRemoved DEF D!CachedAreIndexed, D!BagIn, D!BagToSet
    <2>4. QED
      BY <2>2, <2>3 DEF D!CachedAreIndexed, D!BagIn, D!BagToSet
  <1>3. ASSUME NEW t \in Resolvers, D!Register(t) PROVE DnsInv'
    <2>1. /\ Cardinality(DOMAIN cache) < MaxSize
          /\ cache' = D!With(key[t], cur[t])
          /\ access' = D!BagAdd(access, D!Stamp(cur[t], key[t]))
      BY <1>3, DnsCard DEF D!Register
    <2>2. DnsFinite' /\ D!SizeBounded'
      BY <2>1, DnsGrows
    <2>3. DOMAIN access' = DOMAIN access \cup {D!Stamp(cur[t], key[t])}
      BY <2>1, DnsAdded
    <2>4. QED
      BY <2>1, <2>2, <2>3 DEF D!With, D!CachedAreIndexed, D!BagIn, D!BagToSet
  <1>4. ASSUME NEW k \in Keys, D!Delete(k) PROVE DnsInv'
    <2> DEFINE e == D!Stamp(IF k \in DOMAIN cache THEN cache[k] ELSE 0, k)
    <2>1. cache' = D!Without(k) /\ access' = D!BagRemoveAll(access, e)
      BY <1>4 DEF D!Delete
    <2>2. DnsFinite' /\ D!SizeBounded'
      BY <2>1, DnsShrinks
    <2>3. ASSUME NEW j \in DOMAIN cache' PROVE D!Stamp(cache'[j], j) \in DOMAIN access'
      <3>1. j \in DOMAIN cache /\ j # k /\ cache'[j] = cache[j]
        BY <2>1, <2>3 DEF D!Without
      <3>2. D!Stamp(cache[j], j) # e
        BY <3>1, DnsStampKeys
      <3>3. DOMAIN access' = DOMAIN access \ {e}
        BY <2>1, DnsAllRemoved
      <3>4. D!Stamp(cache[j], j) \in DOMAIN access
        BY <3>1 DEF D!CachedAreIndexed, D!BagIn, D!BagToSet
      <3>5. QED
        BY <3>1, <3>2, <3>3, <3>4
    <2>4. QED
      BY <2>2, <2>3 DEF D!CachedAreIndexed, D!BagIn, D!BagToSet
  <1>5. CASE D!Clear
    BY <1>5, FS_EmptySet, DnsCard DEF D!Clear, D!DnsCacheAssumption, DnsFinite, D!SizeBounded, D!CachedAreIndexed
  <1>6. ASSUME UNCHANGED <<cache, access>> PROVE DnsInv'
    BY <1>6 DEF DnsFinite, D!SizeBounded, D!CachedAreIndexed
  <1>7. CASE D!Tick \/ UNCHANGED dnsVars
    BY <1>6, <1>7 DEF D!Tick, dnsVars
  <1>8. ASSUME NEW t \in Resolvers, D!Call(t) \/ D!Miss(t) \/ D!Resolved(t) PROVE DnsInv'
    BY <1>6, <1>8 DEF D!Call, D!Miss, D!Resolved
  <1>9. QED
    BY <1>1, <1>2, <1>3, <1>4, <1>5, <1>7, <1>8 DEF D!Next

-----------------------------------------------------------------------------
(* MCSync: a step is one of the primitive that runs, or changes nothing of it. *)

LEMMA Steps ==
  [Next]_vars => /\ [C!Next]_mutexVars /\ [Q!Next]_qsemVars /\ [M!Next]_mvarVars
                 /\ [W!Next]_rwVars /\ [D!Next]_dnsVars
  BY DEF Next, vars, OfMutex, OfQSem, OfMVar, OfRWMutex, OfDns

LEMMA Inits == Init => C!Init /\ Q!Init /\ M!Init /\ W!Init /\ D!Init
  BY DEF Init

\* Of any number of threads, the pthread mutex belongs to the one inside, the
\* holder test made with no lock held is exact, and the count stays negative.
THEOREM PlainMutexExactHolds == Spec => []PlainMutexExact
  <1>1. Init => C!Inv
    BY C!InvInit, Inits, MCSyncAssumption
  <1>2. C!Inv /\ [Next]_vars => C!Inv'
    BY C!InvNext, Steps, MCSyncAssumption DEF C!vars, mutexVars
  <1>3. C!Inv => PlainMutexExact
    <2> SUFFICES ASSUME C!Inv PROVE PlainMutexExact
      OBVIOUS
    <2>1. C!MutualExclusion
      BY DEF C!Inv
    <2>2. C!HolderTestExact
      BY DEF C!Inv, C!HolderInv
    <2>3. C!CountExact
      BY DEF C!Inv, C!PlainInv, C!CountExact
    <2>4. QED
      BY <2>1, <2>2, <2>3 DEF PlainMutexExact
  <1>4. QED
    BY <1>1, <1>2, <1>3, PTL DEF Spec

\* Whatever the quantities of a qsem and the calls of an mvar, nobody sleeps on
\* although what he waits for is there, unless somebody has still to notify.
THEOREM NoLostWakeupHolds == Spec => []NoLostWakeup
  <1>1. Q!QSemAssumption /\ M!MVarAssumption
    BY MCSyncAssumption
  <1>2. Init => QSemInv /\ M!Inv
    BY <1>1, QSemInvInit, M!InvInit, Inits
  <1>3. QSemInv /\ M!Inv /\ [Next]_vars => QSemInv' /\ M!Inv'
    BY <1>1, QSemInvNext, M!InvNext, Steps DEF M!vars, mvarVars
  <1>4. QSemInv /\ M!Inv => NoLostWakeup
    BY DEF QSemInv, M!Inv, NoLostWakeup
  <1>5. QED
    BY <1>2, <1>3, <1>4, PTL DEF Spec

\* mvar is the linearizable cell of SyncCell for any callers and calls: swap(), a
\* take() and a put() of which the first may wait, is one step to the others.
THEOREM ImplementsSyncCellHolds == Spec => ImplementsSyncCell
  <1>1. M!MVarAssumption
    BY MCSyncAssumption
  <1>2. Init => M!Inv /\ M!RefInv /\ M!Abstract!Init
    BY <1>1, M!InvInit, M!RefInit, M!AbstractInit, Inits
  <1>3. M!Inv /\ M!RefInv /\ [Next]_vars => M!Inv' /\ M!RefInv'
    BY <1>1, M!InvNext, M!RefNext, Steps DEF M!vars, mvarVars
  <1>4. M!Inv /\ M!RefInv /\ M!Inv' /\ M!RefInv' /\ [Next]_vars
          => [M!Abstract!Next]_(M!Abstract!vars)
    BY <1>1, M!AbstractNext, Steps DEF M!vars, mvarVars
  <1>5. QED
    BY <1>2, <1>3, <1>4, PTL DEF Spec, ImplementsSyncCell, M!ImplementsSyncCell, M!Abstract!Spec

\* lock() and unlock() of any number of threads (the quantity 1) never let more into
\* a qsem than there are units.  (With other quantities the run QSemQuantity shows that
\* they do.)
THEOREM NeverOverGrantedHolds == ASSUME Quantities = {1} PROVE Spec => []NeverOverGranted
  <1>1. Q!QSemAssumption
    BY MCSyncAssumption
  <1>2. Init => QSemInv /\ QSemUnitInv
    BY <1>1, QSemInvInit, QSemUnitInit, Inits
  <1>3. QSemInv /\ QSemUnitInv /\ [Next]_vars => QSemInv' /\ QSemUnitInv'
    BY <1>1, QSemInvNext, QSemUnitNext, Steps
  <1>4. QSemInv /\ QSemUnitInv => NeverOverGranted
    BY <1>1 DEF QSemInv, QSemTypes, QSemUnitInv, NeverOverGranted, Q!NeverOverGranted, Q!QSemAssumption
  <1>5. QED
    BY <1>2, <1>3, <1>4, PTL DEF Spec

\* With whatever kinds of calls but the tried read lock, need_unlock of a scoped
\* lock is TRUE exactly while its thread holds the lock, and a writer in its block
\* is alone in any block.  (With tried read locks the run RWMutexTryRead shows that
\* need_unlock lies.)
THEOREM LocksTrueHolds == ASSUME "try" \notin ReadKinds PROVE Spec => []LocksTrue
  <1>1. W!RWMutexAssumption
    BY MCSyncAssumption
  <1>2. Init => RWInv
    BY <1>1, RWInvInit, Inits
  <1>3. RWInv /\ [Next]_vars => RWInv'
    BY <1>1, RWInvNext, Steps
  <1>4. RWInv => LocksTrue
    <2>1. RWInv => W!BlocksExclude
      BY <1>1 DEF RWInv, W!TypeOK, RWExclusive, W!BeliefExact, W!BlocksExclude, W!Lockers, W!RWMutexAssumption
    <2>2. QED
      BY <2>1 DEF RWInv, LocksTrue, W!LocksTrue
  <1>5. QED
    BY <1>2, <1>3, <1>4, PTL DEF Spec

\* The cache of the resolver never holds more than max_size entries, for any number
\* of callers.
THEOREM SizeBoundedHolds == Spec => []SizeBounded
  <1>1. D!DnsCacheAssumption
    BY MCSyncAssumption
  <1>2. Init => DnsInv
    BY <1>1, DnsInvInit, Inits
  <1>3. DnsInv /\ [Next]_vars => DnsInv'
    BY <1>1, DnsInvNext, Steps
  <1>4. DnsInv => SizeBounded
    BY DEF DnsInv, SizeBounded
  <1>5. QED
    BY <1>2, <1>3, <1>4, PTL DEF Spec

\* Every cached entry is in the index under its own time, whatever stamps of
\* entries that are gone are there too.
THEOREM CachedAreIndexedHolds == Spec => []CachedAreIndexed
  <1>1. D!DnsCacheAssumption
    BY MCSyncAssumption
  <1>2. Init => DnsInv
    BY <1>1, DnsInvInit, Inits
  <1>3. DnsInv /\ [Next]_vars => DnsInv'
    BY <1>1, DnsInvNext, Steps
  <1>4. DnsInv => CachedAreIndexed
    BY DEF DnsInv, CachedAreIndexed
  <1>5. QED
    BY <1>2, <1>3, <1>4, PTL DEF Spec
===============================================================================
