------------------------------- MODULE MCSync -------------------------------
(* The primitives with few variables side by side: a run is of one of them, *)
(* the other ones keep their initial states.                                *)
EXTENDS Integers

CONSTANTS
  MutexThreads, NoHolder, ResetHolder,                      \* CondMutex, not recursive
  Threads, Initial, Quantities, MaxQuantity,                \* QSem
  Callers, Values, CallsOf,                                 \* MVar
  Readers, Writers, ReadKinds, WriteKinds,                  \* RWMutex
  Resolvers, Keys, MaxSize, ExpireSeconds, MaxTime, MaxIndex,  \* DnsCache
  Nobody,
  t1, t2, t3, a, b                                          \* names in MCCallsOf

VARIABLES
  part,                                  \* the primitive of this run
  mid, holder, cnt, cpc, saved, cdepth,  \* CondMutex
  depth, room, quantity, pc, asked, inUse,         \* QSem
  mdepth, mroom, p, mpc, call, doing, ret,         \* MVar
  readers, writer, wpc, kind, locked,              \* RWMutex
  expire_second, now, cache, access, owner, dpc, key, cur  \* DnsCache

mutexVars == <<mid, holder, cnt, cpc, saved, cdepth>>
qsemVars == <<depth, room, quantity, pc, asked, inUse>>
mvarVars == <<mdepth, mroom, p, mpc, call, doing, ret>>
rwVars == <<readers, writer, wpc, kind, locked>>
dnsVars == <<expire_second, now, cache, access, owner, dpc, key, cur>>
vars == <<part, mutexVars, qsemVars, mvarVars, rwVars, dnsVars>>

(* The modules with their lemmas, which SyncProofs cites.                    *)
C == INSTANCE CondMutexProofs WITH
  Threads <- MutexThreads, Recursive <- FALSE, MaxDepth <- 1, pc <- cpc, depth <- cdepth

Q == INSTANCE QSem

M == INSTANCE MVarProofs WITH
  Threads <- Callers, Empty <- Nobody, depth <- mdepth, room <- mroom, pc <- mpc

W == INSTANCE RWMutex WITH pc <- wpc

D == INSTANCE DnsCache WITH Threads <- Resolvers, pc <- dpc

(* TLC's callers of the mvar; what is not put does not matter. *)
Ask(ops, values) == [op : ops, val : values]
MCCallsOf == [t \in Callers |->
                CASE t = t1 -> Ask({"take", "read"}, {a})
                  [] t = t2 -> Ask({"put", "swap"}, {a, b}) \union Ask({"try_take", "try_put"}, {a})
                  [] t = t3 -> Ask({"take"}, {a}) \union Ask({"swap"}, {b})]

ASSUME MCSyncAssumption ==
  /\ C!CondMutexAssumption /\ Q!QSemAssumption /\ M!MVarAssumption
  /\ W!RWMutexAssumption /\ D!DnsCacheAssumption

Init == /\ part \in {"mutex", "qsem", "mvar", "rw_mutex", "dns"}
        /\ C!Init /\ Q!Init /\ M!Init /\ W!Init /\ D!Init
        /\ part = "dns" \/ expire_second = 0

OfMutex == part = "mutex" /\ UNCHANGED <<part, qsemVars, mvarVars, rwVars, dnsVars>>
OfQSem == part = "qsem" /\ UNCHANGED <<part, mutexVars, mvarVars, rwVars, dnsVars>>
OfMVar == part = "mvar" /\ UNCHANGED <<part, mutexVars, qsemVars, rwVars, dnsVars>>
OfDns == part = "dns" /\ UNCHANGED <<part, mutexVars, qsemVars, mvarVars, rwVars>>
OfRWMutex == part = "rw_mutex" /\ UNCHANGED <<part, mutexVars, qsemVars, mvarVars, dnsVars>>

Next == \/ C!Next /\ OfMutex
        \/ Q!Next /\ OfQSem
        \/ M!Next /\ OfMVar
        \/ W!Next /\ OfRWMutex
        \/ D!Next /\ OfDns

(* The fairness of the modules; since `part' never changes, that of a        *)
(* disjunction is that of the action of the primitive that runs.             *)
Spurious == \/ part = "qsem" /\ \E t \in Threads : Q!Spurious(t)
            \/ part = "mvar" /\ \E t \in Callers : M!Spurious(t)

Fairness ==
  /\ \A t \in Threads \union Readers \union Writers \union Resolvers :
       /\ WF_vars(\/ t \in Threads /\ Q!Step(t) /\ OfQSem
                  \/ t \in Readers \union Writers /\ W!Granted(t) /\ OfRWMutex)
       /\ WF_vars(\/ t \in Threads /\ Q!SignalCall(t) /\ OfQSem
                  \/ t \in Readers \union Writers /\ W!Unlock(t) /\ OfRWMutex
                  \/ t \in Resolvers /\ (D!Evict(t) \/ D!Register(t)) /\ OfDns)
  /\ \A t \in Callers : SF_vars(M!Step(t) /\ OfMVar)
  /\ <>[][~Spurious]_vars

Spec == Init /\ [][Next]_vars /\ Fairness

----------------------------------------------------------------------------

\* The plain mutex: the pthread mutex belongs to the thread inside, the holder
\* test made with no lock held is exact, and the count stays negative.
PlainMutexExact == C!MutualExclusion /\ C!HolderTestExact /\ C!CountExact

\* The units of a qsem in use never exceed those there were.
NeverOverGranted == Q!NeverOverGranted

\* mvar is a linearizable one-place cell.
ImplementsSyncCell == M!ImplementsSyncCell

\* A caller that sleeps on a qsem or an mvar while it could go on is about to be
\* woken, although both notify after their unlock.
NoLostWakeup == Q!NoLostWakeup /\ M!NoLostWakeup

\* need_unlock of the locks of an rw_mutex tells who holds it, and a writer in its
\* block is alone in any block.
LocksTrue == W!LocksTrue

\* The resolver's cache never holds more than max_size entries, though callers
\* that missed store at about the same time.
SizeBounded == D!SizeBounded

\* Every cached entry is in the index under its own time: it can be found for
\* eviction, and the loop never looks at the head of an empty index.
CachedAreIndexed == D!CachedAreIndexed

\* As long as somebody is in wait() of a qsem some wait() succeeds; a value
\* that a caller wants is taken out of an mvar, and one that a caller wants to
\* put gets in; while a writer asks for an rw_mutex some writer gets it; and a
\* caller of resolve() gets out of the eviction loop, although the index may name
\* keys that are no longer cached.
Waiting ==
  CASE part = "qsem" -> \E t \in Threads : pc[t] \in {"wait_enter", "loop", "waiting"}
    [] part = "mvar" -> p # Nobody /\ \E t \in Callers : M!Wants(t, "take")
    [] part = "rw_mutex" -> \E w \in Writers : wpc[w] = "asking" /\ kind[w] = "block"
    [] part = "dns" -> owner # Nobody
    [] OTHER -> FALSE
Served ==
  CASE part = "qsem" -> \E t \in Threads : pc[t] = "wait_leave"
    [] part = "mvar" -> p = Nobody
    [] part = "dns" -> owner = Nobody
    [] OTHER -> \E w \in Writers : wpc[w] = "block"
WaitsEnd ==
  /\ Waiting ~> Served
  /\ part = "mvar" /\ p = Nobody /\ (\E t \in Callers : M!Wants(t, "put")) ~> p # Nobody
============================================================================
