--------------------------- MODULE CondMutexProofs ---------------------------
(***************************************************************************)
(* Proofs about CondMutex: the invariants of the runs hold for any set of  *)
(* threads, either kind of mutex and any bound on the nesting.             *)
(***************************************************************************)
EXTENDS CondMutex, TLAPS

(***************************************************************************)
(* The inductive invariant.  The fields `holder` and `cnt` are only        *)
(* written by the thread that owns the pthread mutex, so what they say of  *)
(* a thread can be told from where that thread is.                         *)
(***************************************************************************)

\* Only in client code and on the way into lock() can a thread have depth 0.
DepthInv ==
  \A t \in Threads :
    /\ pc[t] = "lock_mid" => depth[t] = 0
    /\ pc[t] \notin {"idle", "lock_mid"} => depth[t] > 0
    /\ pc[t] \in {"lock_cnt", "lock_holder", "unlock_holder", "unlock_mid"} => depth[t] = 1

\* A thread that leaves unlock() has withdrawn its claim to be the holder.
HolderInv ==
  /\ HolderTestExact
  /\ \A t \in Threads : pc[t] = "unlock_mid" => holder # t

\* A plain mutex stays at -1 and at depth one.
PlainInv ==
  ~Recursive =>
    /\ cnt = -1
    /\ \A t \in Threads :
         /\ saved[t] = -1
         /\ depth[t] <= 1
         /\ pc[t] \notin {"lock_cnt", "unlock_holder", "wait_holder", "wait_cnt"}

\* The count of a recursive mutex is its holder's depth, or on the way there;
\* during a wait the depth is kept in the waiter's local variable.
RecursiveInv ==
  Recursive =>
    /\ cnt >= 0
    /\ \A t \in Threads :
         /\ pc[t] \in {"idle", "restore_holder"} /\ depth[t] > 0 => cnt = depth[t]
         /\ pc[t] = "lock_holder" => cnt = 1
         /\ pc[t] \in {"wait_holder", "wait_cnt", "wait_sleep",
                       "asleep", "asleep_timed", "reacquire", "restore_cnt"}
              => saved[t] = depth[t]

Inv ==
  /\ TypeOK
  /\ MutualExclusion
  /\ DepthInv
  /\ HolderInv
  /\ PlainInv
  /\ RecursiveInv

-----------------------------------------------------------------------------

LEMMA InvInit == Init => Inv
  BY CondMutexAssumption
  DEF Init, Inv, TypeOK, Labels, MutualExclusion, Inside, Waiting, DepthInv, HolderInv,
      HolderTestExact, PlainInv, RecursiveInv

LEMMA InvNext == Inv /\ [Next]_vars => Inv'
  <1> SUFFICES ASSUME Inv, [Next]_vars PROVE Inv'
    OBVIOUS
  <1> USE CondMutexAssumption
  <1> USE DEF Inv, TypeOK, Labels, MutualExclusion, Inside, Waiting, DepthInv, HolderInv,
        HolderTestExact, PlainInv, RecursiveInv, Goto
  <1>1. ASSUME NEW t \in Threads, LockAgain(t) PROVE Inv'
    BY <1>1 DEF LockAgain, Deeper
  <1>2. ASSUME NEW t \in Threads, LockCall(t) PROVE Inv'
    BY <1>2 DEF LockCall
  <1>3. ASSUME NEW t \in Threads, LockMid(t) PROVE Inv'
    BY <1>3 DEF LockMid, Deeper
  <1>4. ASSUME NEW t \in Threads, LockCnt(t) PROVE Inv'
    BY <1>4 DEF LockCnt
  <1>5. ASSUME NEW t \in Threads, LockHolder(t) PROVE Inv'
    BY <1>5 DEF LockHolder
  <1>6. ASSUME NEW t \in Threads, UnlockInner(t) PROVE Inv'
    BY <1>6 DEF UnlockInner, Shallower
  <1>7. ASSUME NEW t \in Threads, UnlockLast(t) PROVE Inv'
    BY <1>7 DEF UnlockLast
  <1>8. ASSUME NEW t \in Threads, UnlockHolder(t) PROVE Inv'
    BY <1>8 DEF UnlockHolder, Unlocks
  <1>9. ASSUME NEW t \in Threads, UnlockMid(t) PROVE Inv'
    BY <1>9 DEF UnlockMid, Shallower
  <1>10. ASSUME NEW t \in Threads, WaitCall(t) PROVE Inv'
    BY <1>10 DEF WaitCall
  <1>11. ASSUME NEW t \in Threads, WaitHolder(t) PROVE Inv'
    BY <1>11 DEF WaitHolder
  <1>12. ASSUME NEW t \in Threads, WaitCnt(t) PROVE Inv'
    BY <1>12 DEF WaitCnt
  <1>13. ASSUME NEW t \in Threads, WaitSleep(t) PROVE Inv'
    BY <1>13 DEF WaitSleep
  <1>14. ASSUME NEW t \in Threads, WakeSpurious(t) PROVE Inv'
    BY <1>14 DEF WakeSpurious
  <1>15. ASSUME NEW t \in Threads, WakeTimed(t) PROVE Inv'
    BY <1>15 DEF WakeTimed
  <1>16. ASSUME NEW t \in Threads, Reacquire(t) PROVE Inv'
    BY <1>16 DEF Reacquire
  <1>17. ASSUME NEW t \in Threads, RestoreCnt(t) PROVE Inv'
    BY <1>17 DEF RestoreCnt
  <1>18. ASSUME NEW t \in Threads, RestoreHolder(t) PROVE Inv'
    BY <1>18 DEF RestoreHolder
  <1>19. ASSUME NEW t \in Threads, Notify(t) PROVE Inv'
    BY <1>19 DEF Notify, Asleep
  <1>20. ASSUME NEW t \in Threads, NotifyAll(t) PROVE Inv'
    BY <1>20 DEF NotifyAll, Asleep
  <1>21. CASE UNCHANGED vars
    BY <1>21 DEF vars
  <1>22. QED
    BY <1>1, <1>2, <1>3, <1>4, <1>5, <1>6, <1>7, <1>8, <1>9, <1>10, <1>11, <1>12, <1>13, <1>14, <1>15, <1>16, <1>17, <1>18, <1>19, <1>20, <1>21 DEF Next, Lock, Unlock, Wait

\* Every variable keeps its type; in particular the count stays within the bound
\* on the nesting and no unlock() takes a depth below zero.
THEOREM TypeCorrect == Spec => []TypeOK
  <1>1. Inv => TypeOK
    BY DEF Inv
  <1>2. QED
    BY InvInit, InvNext, <1>1, PTL DEF Spec

\* However lock(), unlock() and wait() interleave, the pthread mutex belongs to
\* exactly the thread that is inside the monitor.
THEOREM MutualExclusionHolds == Spec => []MutualExclusion
  <1>1. Inv => MutualExclusion
    BY DEF Inv
  <1>2. QED
    BY InvInit, InvNext, <1>1, PTL DEF Spec

\* The comparison of `holder` with the caller's id, made with no lock held, gives
\* the right answer for every caller at every moment.
THEOREM HolderTestExactHolds == Spec => []HolderTestExact
  <1>1. Inv => HolderTestExact
    BY DEF Inv, HolderInv
  <1>2. QED
    BY InvInit, InvNext, <1>1, PTL DEF Spec

\* The count is the depth of the thread that holds the mutex, also after waits,
\* and no thread ever reads a count of the wrong sign.
THEOREM CountExactHolds == Spec => []CountExact
  <1>1. Inv => CountExact
    <2> SUFFICES ASSUME Inv PROVE CountExact
      OBVIOUS
    <2>1. Recursive <=> cnt >= 0
      BY DEF Inv, PlainInv, RecursiveInv
    <2>2. ASSUME NEW t \in Threads, Recursive, pc[t] = "idle", depth[t] > 0
          PROVE  cnt = depth[t]
      BY <2>2 DEF Inv, RecursiveInv
    <2>3. QED
      BY <2>1, <2>2 DEF CountExact
  <1>2. QED
    BY InvInit, InvNext, <1>1, PTL DEF Spec

-----------------------------------------------------------------------------
(* The refinement *)

LEMMA AbstractInit == Init => Abstract!Init
  BY DEF Init, Abstract!Init, Asleep

\* The abstract monitor's holder is the owner of the pthread mutex.
LEMMA AbstractHolds ==
  ASSUME Inv
  PROVE  /\ \A t \in Threads : Abstract!Holds(t) <=> mid = t
         /\ Abstract!Free <=> mid = NoHolder
  <1>1. \A t \in Threads : Abstract!Holds(t) <=> mid = t
    BY DEF Inv, TypeOK, MutualExclusion, Inside, Waiting, Asleep, Abstract!Holds
  <1>2. QED
    BY <1>1, CondMutexAssumption DEF Inv, TypeOK, Abstract!Free

\* Every step of the code is a step of the abstract monitor, or none: the
\* pthread calls are where it changes, the accesses to the fields are not.
LEMMA AbstractNext == Inv /\ [Next]_vars => [Abstract!Next]_(Abstract!vars)
  <1> SUFFICES ASSUME Inv, [Next]_vars PROVE [Abstract!Next]_(Abstract!vars)
    OBVIOUS
  <1> USE CondMutexAssumption
  <1> DEFINE Stutter == UNCHANGED Abstract!vars
             Wakes == \E S \in SUBSET Threads : Abstract!Wake(S)
  <1>1. ASSUME NEW t \in Threads, LockAgain(t) PROVE Abstract!Acquire(t)
    BY <1>1, AbstractHolds
    DEF LockAgain, Goto, Deeper, Asleep, Inv, TypeOK, Labels, HolderInv, HolderTestExact,
        PlainInv, Abstract!Acquire, Abstract!Holds
  <1>2. ASSUME NEW t \in Threads, LockMid(t) PROVE Abstract!Acquire(t)
    BY <1>2, AbstractHolds
    DEF LockMid, Goto, Deeper, Asleep, Inv, TypeOK, Labels, DepthInv, Abstract!Acquire
  <1>3. ASSUME NEW t \in Threads, UnlockInner(t) \/ UnlockMid(t) PROVE Abstract!Release(t)
    BY <1>3, AbstractHolds
    DEF UnlockInner, UnlockMid, Goto, Shallower, Asleep, Inv, TypeOK, Labels, DepthInv,
        HolderInv, HolderTestExact, MutualExclusion, Inside, Waiting, Abstract!Release
  <1>4. ASSUME NEW t \in Threads, WaitSleep(t) PROVE Abstract!Sleep(t)
    BY <1>4, AbstractHolds
    DEF WaitSleep, Goto, Asleep, Inv, TypeOK, Labels, DepthInv, MutualExclusion, Inside,
        Waiting, Abstract!Sleep
  <1>5. ASSUME NEW t \in Threads, Reacquire(t) PROVE Abstract!Resume(t)
    BY <1>5, AbstractHolds
    DEF Reacquire, Goto, Asleep, Inv, TypeOK, Labels, Abstract!Resume
  <1>6. ASSUME NEW t \in Threads, WakeSpurious(t) \/ WakeTimed(t) PROVE Wakes
    <2>1. Abstract!Wake({t})
      BY <1>6 DEF WakeSpurious, WakeTimed, Goto, Asleep, Inv, TypeOK, Labels, Abstract!Wake
    <2>2. QED
      BY <2>1
  <1>7. ASSUME NEW t \in Threads, Notify(t) PROVE Wakes
    <2>1. PICK u \in Threads : Asleep(u) /\ pc' = [pc EXCEPT ![u] = "reacquire"]
      BY <1>7 DEF Notify
    <2>2. Abstract!Wake({u})
      BY <1>7, <2>1 DEF Notify, Asleep, Inv, TypeOK, Labels, Abstract!Wake
    <2>3. QED
      BY <2>2
  <1>8. ASSUME NEW t \in Threads, NotifyAll(t) PROVE Wakes
    <2>1. PICK S \in SUBSET Threads : S = {u \in Threads : Asleep(u)}
      OBVIOUS
    <2>2. Abstract!Wake(S)
      BY <1>8, <2>1 DEF NotifyAll, Asleep, Inv, TypeOK, Labels, Abstract!Wake
    <2>3. QED
      BY <2>2
  <1>9. ASSUME NEW t \in Threads, LockCall(t) \/ LockCnt(t) \/ LockHolder(t) PROVE Stutter
    BY <1>9 DEF LockCall, LockCnt, LockHolder, Goto, Asleep, Inv, TypeOK, Labels, Abstract!vars
  <1>10. ASSUME NEW t \in Threads, UnlockLast(t) \/ UnlockHolder(t)
         PROVE  Stutter
    BY <1>10
    DEF UnlockLast, UnlockHolder, Unlocks, Goto, Asleep, Inv, TypeOK, Labels, Abstract!vars
  <1>11. ASSUME NEW t \in Threads, WaitCall(t) \/ WaitHolder(t) \/ WaitCnt(t) PROVE Stutter
    BY <1>11 DEF WaitCall, WaitHolder, WaitCnt, Goto, Asleep, Inv, TypeOK, Labels, Abstract!vars
  <1>12. ASSUME NEW t \in Threads, RestoreCnt(t) \/ RestoreHolder(t) PROVE Stutter
    BY <1>12 DEF RestoreCnt, RestoreHolder, Goto, Asleep, Inv, TypeOK, Labels, Abstract!vars
  <1>13. CASE UNCHANGED vars
    BY <1>13 DEF vars, Asleep, Abstract!vars
  <1>14. QED
    BY <1>1, <1>2, <1>3, <1>4, <1>5, <1>6, <1>7, <1>8, <1>9, <1>10, <1>11, <1>12, <1>13
    DEF Next, Lock, Unlock, Wait, Abstract!Next

\* mutex.cpp and condition.cpp implement the abstract monitor that pcbuf, mvar
\* and qsem are written on.
THEOREM Refinement == Spec => ImplementsMonitor
  <1>1. QED
    BY InvInit, InvNext, AbstractInit, AbstractNext, PTL
    DEF Spec, ImplementsMonitor, Abstract!Spec
=============================================================================
