------------------------------- MODULE Monitor -------------------------------
(***************************************************************************)
(* What pfi::concurrent::mutex / r_mutex together with condition promise   *)
(* to the code written on them (pcbuf, mvar, qsem, chan): a lock that one  *)
(* thread at a time holds, to some depth, and a waiting room.  A thread    *)
(* that waits gives the lock up entirely and, once woken, gets it back to  *)
(* the very depth it had.                                                  *)
(*                                                                         *)
(* This is the abstract specification; CondMutex is the detailed one.      *)
(***************************************************************************)
EXTENDS Integers

CONSTANTS
  Threads,    \* the threads that share the monitor
  Recursive,  \* r_mutex (TRUE) or mutex (FALSE)
  MaxDepth    \* bound on the nesting of lock()

VARIABLES
  depth,  \* depth[t]: how many times t has locked and not unlocked
  room    \* room[t]: "in" (running), "asleep" (waiting), "woken" (wants the lock back)

vars == <<depth, room>>

Holds(t) == depth[t] > 0 /\ room[t] = "in"

Free == \A t \in Threads : ~Holds(t)

TypeOK ==
  /\ depth \in [Threads -> 0..MaxDepth]
  /\ room \in [Threads -> {"in", "asleep", "woken"}]

Init ==
  /\ depth = [t \in Threads |-> 0]
  /\ room = [t \in Threads |-> "in"]

\* lock(): the free monitor is taken, or its recursive holder goes one deeper.
Acquire(t) ==
  /\ room[t] = "in"
  /\ Free \/ (Recursive /\ Holds(t))
  /\ depth[t] < MaxDepth
  /\ depth' = [depth EXCEPT ![t] = @ + 1]
  /\ UNCHANGED room

\* unlock() by the holder.
Release(t) ==
  /\ Holds(t)
  /\ depth' = [depth EXCEPT ![t] = @ - 1]
  /\ UNCHANGED room

\* condition::wait by the holder: the lock is free at once, the depth is kept.
Sleep(t) ==
  /\ Holds(t)
  /\ room' = [room EXCEPT ![t] = "asleep"]
  /\ UNCHANGED depth

\* Any set of sleepers is woken: notify, notify_all, a timeout, a spurious wakeup.
Wake(S) ==
  /\ \A t \in S : room[t] = "asleep"
  /\ room' = [t \in Threads |-> IF t \in S THEN "woken" ELSE room[t]]
  /\ UNCHANGED depth

\* The woken thread holds the lock again and wait() goes on to return.
Resume(t) ==
  /\ room[t] = "woken"
  /\ Free
  /\ room' = [room EXCEPT ![t] = "in"]
  /\ UNCHANGED depth

Next ==
  \/ \E t \in Threads : Acquire(t) \/ Release(t) \/ Sleep(t) \/ Resume(t)
  \/ \E S \in SUBSET Threads : Wake(S)

Spec == Init /\ [][Next]_vars
=============================================================================
