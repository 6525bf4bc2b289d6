------------------------------ MODULE CondMutex ------------------------------
(***************************************************************************)
(* pfi::concurrent::mutex / r_mutex (mutex.cpp, mutex_impl.h) and the      *)
(* condition a thread waits on with it (condition.cpp), one memory access  *)
(* per step.                                                               *)
(*                                                                         *)
(* A mutex is a pthread mutex `mid` plus two plain fields, `holder` and    *)
(* `cnt`, that the pthread mutex protects with one exception: a recursive  *)
(* lock(), every unlock() and every wait() compare `holder` with the       *)
(* caller's id without holding anything.  The comparison races with the    *)
(* holder's writes; `holder` is one aligned word, so the read returns the  *)
(* value of before or of after each write, which is what one step per      *)
(* access gives.                                                           *)
(*                                                                         *)
(* pthread_mutex_lock/unlock and pthread_cond_wait/signal/broadcast are    *)
(* external and modelled by what POSIX says of them, spurious wakeups      *)
(* included.  They never fail here: the mutex is initialised and nobody    *)
(* destroys it while it is in use.                                         *)
(***************************************************************************)
EXTENDS Integers

CONSTANTS
  Threads,      \* thread ids, none of them 0 or -1
  NoHolder,     \* the -1 of mutex.cpp: nobody holds the mutex
  ResetHolder,  \* the 0 that wait() stores into holder before it sleeps
  Recursive,    \* r_mutex (TRUE) or mutex (FALSE)
  MaxDepth      \* bound on the nesting of lock()

ASSUME CondMutexAssumption ==
  /\ NoHolder \notin Threads
  /\ ResetHolder \notin Threads
  /\ Recursive \in BOOLEAN
  /\ MaxDepth \in Nat \ {0}

VARIABLES
  mid,     \* the thread that owns the pthread mutex, or NoHolder
  holder,  \* impl::holder
  cnt,     \* impl::cnt: -1 for a mutex, the depth of an r_mutex
  pc,      \* where each thread is inside lock(), unlock() or wait()
  saved,   \* saved[t]: the local copy of cnt that t's wait() restores
  depth    \* history: lock() calls that took effect minus unlock() calls, per thread

vars == <<mid, holder, cnt, pc, saved, depth>>

Labels ==
  {"idle",
   "lock_mid", "lock_cnt", "lock_holder",
   "unlock_holder", "unlock_mid",
   "wait_holder", "wait_cnt", "wait_sleep",
   "asleep", "asleep_timed", "reacquire",
   "restore_cnt", "restore_holder"}

TypeOK ==
  /\ mid \in Threads \cup {NoHolder}
  /\ holder \in Threads \cup {NoHolder, ResetHolder}
  /\ cnt \in -1..MaxDepth
  /\ pc \in [Threads -> Labels]
  /\ saved \in [Threads -> -1..MaxDepth]
  /\ depth \in [Threads -> 0..MaxDepth]

Init ==
  /\ mid = NoHolder
  /\ holder = NoHolder
  /\ cnt = IF Recursive THEN 0 ELSE -1
  /\ pc = [t \in Threads |-> "idle"]
  /\ saved = [t \in Threads |-> -1]
  /\ depth = [t \in Threads |-> 0]

Goto(t, from, to) == pc[t] = from /\ pc' = [pc EXCEPT ![t] = to]

Deeper(t) == depth' = [depth EXCEPT ![t] = @ + 1]
Shallower(t) == depth' = [depth EXCEPT ![t] = @ - 1]

-----------------------------------------------------------------------------
(* lock() *)

\* Fault: the count is raised for whoever calls, as if holder were not compared.
LockAgain_AnyThread(t) ==
  /\ cnt >= 0
  /\ mid # NoHolder
  /\ depth[t] < MaxDepth
  /\ Goto(t, "idle", "idle")
  /\ cnt' = cnt + 1
  /\ Deeper(t)
  /\ UNCHANGED <<mid, holder, saved>>

\* The recursive holder counts one deeper; no pthread call.
LockAgain(t) ==
  /\ cnt >= 0
  /\ holder = t
  /\ depth[t] < MaxDepth
  /\ Goto(t, "idle", "idle")
  /\ cnt' = cnt + 1
  /\ Deeper(t)
  /\ UNCHANGED <<mid, holder, saved>>

\* Everyone else goes for the pthread mutex.  A client of the plain mutex never
\* locks it twice: that deadlocks in pthread_mutex_lock, as documented.
LockCall(t) ==
  /\ IF cnt < 0 THEN depth[t] = 0 ELSE holder # t
  /\ Goto(t, "idle", "lock_mid")
  /\ UNCHANGED <<mid, holder, cnt, saved, depth>>

\* pthread_mutex_lock returns.
LockMid(t) ==
  /\ mid = NoHolder
  /\ mid' = t
  /\ Goto(t, "lock_mid", IF cnt < 0 THEN "lock_holder" ELSE "lock_cnt")
  /\ Deeper(t)
  /\ UNCHANGED <<holder, cnt, saved>>

LockCnt(t) ==
  /\ Goto(t, "lock_cnt", "lock_holder")
  /\ cnt' = 1
  /\ UNCHANGED <<mid, holder, saved, depth>>

LockHolder(t) ==
  /\ Goto(t, "lock_holder", "idle")
  /\ holder' = t
  /\ UNCHANGED <<mid, cnt, saved, depth>>

-----------------------------------------------------------------------------
(* unlock() *)

\* The recursive holder leaves an inner level: true, nothing else happens.
UnlockInner(t) ==
  /\ cnt > 1
  /\ holder = t
  /\ Goto(t, "idle", "idle")
  /\ cnt' = cnt - 1
  /\ Shallower(t)
  /\ UNCHANGED <<mid, holder, saved>>

\* The recursive holder leaves the last level.
UnlockLast(t) ==
  /\ cnt = 1
  /\ holder = t
  /\ Goto(t, "idle", "unlock_holder")
  /\ cnt' = cnt - 1
  /\ UNCHANGED <<mid, holder, saved, depth>>

\* A plain mutex comes here at once: the client holds it, nothing is checked.
Unlocks(t) == pc[t] = "unlock_holder" \/ (cnt < 0 /\ depth[t] > 0 /\ pc[t] = "idle")

\* Fault: the last unlock() leaves holder as it is.
UnlockHolder_Forgotten(t) ==
  /\ Unlocks(t)
  /\ Goto(t, pc[t], "unlock_mid")
  /\ UNCHANGED <<mid, holder, cnt, saved, depth>>

UnlockHolder(t) ==
  /\ Unlocks(t)
  /\ Goto(t, pc[t], "unlock_mid")
  /\ holder' = NoHolder
  /\ UNCHANGED <<mid, cnt, saved, depth>>

\* pthread_mutex_unlock: the mutex is free.
UnlockMid(t) ==
  /\ Goto(t, "unlock_mid", "idle")
  /\ mid' = NoHolder
  /\ Shallower(t)
  /\ UNCHANGED <<holder, cnt, saved>>

-----------------------------------------------------------------------------
(* condition::wait(m) and wait(m, sec) *)

\* Fault: wait() does not ask who calls it.
WaitCall_AnyThread(t) ==
  /\ Goto(t, "idle", IF cnt >= 0 THEN "wait_holder" ELSE "wait_sleep")
  /\ saved' = [saved EXCEPT ![t] = cnt]
  /\ UNCHANGED <<mid, holder, cnt, depth>>

\* Only the holder waits; for anybody else wait() returns at once, as unlock()
\* of a recursive mutex returns false at once: both leave every variable alone.
\* cnt is copied to a local and, if the mutex is recursive, reset.
WaitCall(t) ==
  /\ holder = t
  /\ Goto(t, "idle", IF cnt >= 0 THEN "wait_holder" ELSE "wait_sleep")
  /\ saved' = [saved EXCEPT ![t] = cnt]
  /\ UNCHANGED <<mid, holder, cnt, depth>>

WaitHolder(t) ==
  /\ Goto(t, "wait_holder", "wait_cnt")
  /\ holder' = ResetHolder
  /\ UNCHANGED <<mid, cnt, saved, depth>>

WaitCnt(t) ==
  /\ Goto(t, "wait_cnt", "wait_sleep")
  /\ cnt' = 0
  /\ UNCHANGED <<mid, holder, saved, depth>>

\* pthread_cond_(timed)wait: unlock the pthread mutex and sleep, atomically.
WaitSleep(t) ==
  /\ \E sleep \in {"asleep", "asleep_timed"} : Goto(t, "wait_sleep", sleep)
  /\ mid' = NoHolder
  /\ UNCHANGED <<holder, cnt, saved, depth>>

\* A spurious wakeup, which POSIX allows either kind of wait.
WakeSpurious(t) ==
  /\ Goto(t, "asleep", "reacquire")
  /\ UNCHANGED <<mid, holder, cnt, saved, depth>>

\* The timed wait's deadline passes, or it wakes spuriously.
WakeTimed(t) ==
  /\ Goto(t, "asleep_timed", "reacquire")
  /\ UNCHANGED <<mid, holder, cnt, saved, depth>>

\* pthread_cond_(timed)wait has the pthread mutex back and returns.
Reacquire(t) ==
  /\ mid = NoHolder
  /\ mid' = t
  /\ Goto(t, "reacquire", "restore_cnt")
  /\ UNCHANGED <<holder, cnt, saved, depth>>

\* Fault: after the wait the mutex counts as locked once.
RestoreCnt_One(t) ==
  /\ Goto(t, "restore_cnt", "restore_holder")
  /\ cnt' = 1
  /\ saved' = [saved EXCEPT ![t] = -1]
  /\ UNCHANGED <<mid, holder, depth>>

RestoreCnt(t) ==
  /\ Goto(t, "restore_cnt", "restore_holder")
  /\ cnt' = saved[t]
  /\ saved' = [saved EXCEPT ![t] = -1]
  /\ UNCHANGED <<mid, holder, depth>>

RestoreHolder(t) ==
  /\ Goto(t, "restore_holder", "idle")
  /\ holder' = t
  /\ UNCHANGED <<mid, cnt, saved, depth>>

-----------------------------------------------------------------------------
(* condition::notify() and notify_all(), called with or without the mutex *)

Asleep(t) == pc[t] \in {"asleep", "asleep_timed"}

Notify(t) ==
  /\ pc[t] = "idle"
  /\ \E u \in Threads :
       /\ Asleep(u)
       /\ pc' = [pc EXCEPT ![u] = "reacquire"]
  /\ UNCHANGED <<mid, holder, cnt, saved, depth>>

NotifyAll(t) ==
  /\ pc[t] = "idle"
  /\ pc' = [u \in Threads |-> IF Asleep(u) THEN "reacquire" ELSE pc[u]]
  /\ UNCHANGED <<mid, holder, cnt, saved, depth>>

-----------------------------------------------------------------------------

Lock(t) == LockAgain(t) \/ LockCall(t) \/ LockMid(t) \/ LockCnt(t) \/ LockHolder(t)

Unlock(t) == UnlockInner(t) \/ UnlockLast(t) \/ UnlockHolder(t) \/ UnlockMid(t)

Wait(t) ==
  \/ WaitCall(t) \/ WaitHolder(t) \/ WaitCnt(t) \/ WaitSleep(t)
  \/ WakeSpurious(t) \/ WakeTimed(t)
  \/ Reacquire(t) \/ RestoreCnt(t) \/ RestoreHolder(t)

Next == \E t \in Threads : Lock(t) \/ Unlock(t) \/ Wait(t) \/ Notify(t) \/ NotifyAll(t)

Spec == Init /\ [][Next]_vars

-----------------------------------------------------------------------------
(* Properties *)

\* A thread is inside the monitor from the pthread call that let it in to the
\* one that lets it out; a waiting thread is outside.
Waiting(t) == pc[t] \in {"asleep", "asleep_timed", "reacquire"}
Inside(t) == depth[t] > 0 /\ ~Waiting(t)

\* The pthread mutex belongs to exactly the thread that is inside, although the
\* recursive paths of lock() and unlock() decide by `holder` and `cnt` whether
\* to touch it: two threads are never inside, and nobody inside has lost it.
MutualExclusion == \A t \in Threads : Inside(t) <=> mid = t

\* The unsynchronised test `self==holder` of lock(), unlock() and wait() is
\* exact: at the moment a thread can make it, it is true of the thread if and
\* only if the thread has locked the mutex more often than it unlocked it.
HolderTestExact ==
  \A t \in Threads : pc[t] = "idle" => (holder = t <=> depth[t] > 0)

\* The count is the holder's own depth whenever the holder runs client code,
\* also after waits during which other threads locked and unlocked to other
\* depths; the sign of the count, read with no lock held, never changes.
CountExact ==
  /\ Recursive <=> cnt >= 0
  /\ \A t \in Threads :
       Recursive /\ pc[t] = "idle" /\ depth[t] > 0 => cnt = depth[t]

Abstract == INSTANCE Monitor WITH
  depth <- depth,
  room <- [t \in Threads |-> CASE Asleep(t) -> "asleep"
                               [] pc[t] = "reacquire" -> "woken"
                               [] OTHER -> "in"]

\* The fields, the test on them and the pthread calls together behave as the
\* abstract monitor: locks nest, a waiter gives up all its levels at one point
\* and has all of them back when it resumes.
ImplementsMonitor == Abstract!Spec

=============================================================================
