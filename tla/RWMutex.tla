------------------------------- MODULE RWMutex -------------------------------
(***************************************************************************)
(* pfi::concurrent::rw_mutex (rwmutex.cpp) taken through rlocker, wlocker  *)
(* and the scoped locks of rwmutex.h and lock.h.                           *)
(*                                                                         *)
(* The lock itself is a pthread_rwlock_t, external: shared by readers,     *)
(* exclusive for a writer, and set up to prefer writers.  What the code    *)
(* adds is the kind of call it makes for each timeout and what it makes of *)
(* the result, by which the caller decides whether it is in the locked     *)
(* block and has to unlock.                                                *)
(*                                                                         *)
(* A caller does not nest locks: with writers preferred, a second read     *)
(* lock behind a waiting writer would block for ever.                      *)
(***************************************************************************)
EXTENDS Integers

CONSTANTS
  Readers,     \* threads that read_lock
  Writers,     \* threads that write_lock
  ReadKinds,   \* how Readers call: "block" (no timeout), "timed", "try" (sec < 1e-9)
  WriteKinds,  \* how Writers call
  Nobody

Lockers == Readers \cup Writers
Kinds == {"block", "timed", "try"}

RWMutexAssumption ==
  /\ Readers \cap Writers = {}
  /\ Nobody \notin Lockers
  /\ ReadKinds \subseteq Kinds
  /\ WriteKinds \subseteq Kinds

VARIABLES
  readers,  \* pthread: the threads that hold the lock shared
  writer,   \* pthread: the thread that holds it exclusively, or Nobody
  pc,       \* "idle", "asking" (in the pthread call), "block" (in the locked block)
  kind,     \* kind[t]: the kind of t's last call
  locked    \* locked[t]: need_unlock of t's scoped lock

vars == <<readers, writer, pc, kind, locked>>

TypeOK ==
  /\ readers \subseteq Readers
  /\ writer \in Writers \cup {Nobody}
  /\ pc \in [Lockers -> {"idle", "asking", "block"}]
  /\ kind \in [Lockers -> Kinds]
  /\ locked \in [Lockers -> BOOLEAN]

Init ==
  /\ readers = {}
  /\ writer = Nobody
  /\ pc = [t \in Lockers |-> "idle"]
  /\ kind = [t \in Lockers |-> "block"]
  /\ locked = [t \in Lockers |-> FALSE]

-----------------------------------------------------------------------------
(* pthread_rwlock_t, with PTHREAD_RWLOCK_PREFER_WRITER_NONRECURSIVE_NP *)

WriterWaits == \E t \in Writers : pc[t] = "asking" /\ kind[t] # "try"

\* Whether the lock can be granted to t now: a new reader queues behind a writer.
CanLock(t) ==
  /\ writer = Nobody
  /\ IF t \in Readers THEN ~WriterWaits ELSE readers = {}

-----------------------------------------------------------------------------
(* rwmutex.cpp and the scoped locks *)

\* Fault: trywrlock's result is returned as it is, too.
LockResult_TryWrite(t, success) == IF kind[t] = "try" THEN ~success ELSE success

\* The boolean that read_lock(...) and write_lock(...) make of the pthread call's
\* result, given whether that result is 0: pthread_rwlock_tryrdlock's is returned
\* as it is, the others are compared with 0.
LockResult(t, success) ==
  IF t \in Readers /\ kind[t] = "try" THEN ~success ELSE success

\* The caller goes on: into the block if told that it has the lock.
Answer(t, result) ==
  /\ pc[t] = "asking"
  /\ pc' = [pc EXCEPT ![t] = IF result THEN "block" ELSE "idle"]
  /\ locked' = [locked EXCEPT ![t] = result]
  /\ UNCHANGED kind

Call(t) ==
  /\ pc[t] = "idle"
  /\ pc' = [pc EXCEPT ![t] = "asking"]
  /\ \E k \in IF t \in Readers THEN ReadKinds ELSE WriteKinds :
       kind' = [kind EXCEPT ![t] = k]
  /\ UNCHANGED <<readers, writer, locked>>

\* The pthread call returns 0.
Granted(t) ==
  /\ CanLock(t)
  /\ Answer(t, LockResult(t, TRUE))
  /\ IF t \in Readers
     THEN readers' = readers \cup {t} /\ UNCHANGED writer
     ELSE writer' = t /\ UNCHANGED readers

\* It returns EBUSY at once (try), or ETIMEDOUT when its time is up.
Denied(t) ==
  /\ kind[t] # "block"
  /\ ~CanLock(t)
  /\ Answer(t, LockResult(t, FALSE))
  /\ UNCHANGED <<readers, writer>>

\* The end of the block: unlock, if the scoped lock believes to have locked.
\* pthread_rwlock_unlock by a thread that has not is undefined; it is not followed.
Unlock(t) ==
  /\ pc[t] = "block"
  /\ t \in readers \/ writer = t
  /\ readers' = readers \ {t}
  /\ writer' = IF writer = t THEN Nobody ELSE writer
  /\ pc' = [pc EXCEPT ![t] = "idle"]
  /\ locked' = [locked EXCEPT ![t] = FALSE]
  /\ UNCHANGED kind

Next == \E t \in Lockers : Call(t) \/ Granted(t) \/ Denied(t) \/ Unlock(t)

Spec == Init /\ [][Next]_vars

-----------------------------------------------------------------------------
(* Properties *)

\* need_unlock tells the truth: a caller is in its block, or will unlock, exactly
\* when it holds the lock; a failed attempt leaves no lock behind.
BeliefExact ==
  \A t \in Lockers :
    /\ pc[t] = "block" <=> (t \in readers \/ writer = t)
    /\ locked[t] <=> (t \in readers \/ writer = t)

\* A writer in its block is alone in any block.
BlocksExclude ==
  \A w \in Writers, t \in Lockers : pc[w] = "block" /\ pc[t] = "block" => t = w

\* Both: need_unlock tells who holds the lock, and the lock is exclusive for writers.
LocksTrue == BeliefExact /\ BlocksExclude
=============================================================================
