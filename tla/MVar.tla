-------------------------------- MODULE MVar --------------------------------
(***************************************************************************)
(* pfi::concurrent::mvar (mvar.h): a one-place cell under an r_mutex with  *)
(* one condition.                                                          *)
(*                                                                         *)
(* swap() locks the mutex and calls take() and put(), which lock it once   *)
(* more.  If the cell is empty, take() waits two levels deep: cond.wait    *)
(* must give up both for anybody to fill the cell, and put() must then     *)
(* find the lock still held for the swap to be one step to the others.     *)
(*                                                                         *)
(* The monitor's operations are Monitor's (see CondMutex).  empty() only   *)
(* looks, and is left out.                                                 *)
(***************************************************************************)
EXTENDS Integers

CONSTANTS
  Threads,   \* the callers
  Values,    \* what the cell can hold
  Empty,     \* the null pointer p, and the result of a call not yet made
  CallsOf    \* CallsOf[t]: the calls t makes, [op, val] records

Ops == {"take", "put", "read", "try_take", "try_put", "swap"}

MVarAssumption ==
  /\ Empty \notin Values
  /\ Empty \notin BOOLEAN
  /\ \A t \in Threads :
       /\ CallsOf[t] # {}
       /\ CallsOf[t] \subseteq [op : Ops, val : Values]

VARIABLES
  depth, room,  \* the monitor: r_mutex m and condition cond
  p,            \* mvar::p
  pc,           \* where each caller is
  call,         \* call[t]: the call t is making, or made last
  doing,        \* doing[t]: the operation itself, or the half of swap() under way
  ret           \* ret[t]: the call's result: a value, TRUE, FALSE or Empty

vars == <<depth, room, p, pc, call, doing, ret>>

M == INSTANCE Monitor WITH Recursive <- TRUE, MaxDepth <- 2

Labels ==
  {"idle", "swap_enter", "enter", "test", "waiting", "effect", "unlock", "notify",
   "swap_unlock", "leave", "swap_notify"}

TypeOK ==
  /\ M!TypeOK
  /\ p \in Values \cup {Empty}
  /\ pc \in [Threads -> Labels]
  /\ call \in [Threads -> [op : Ops, val : Values]]
  /\ doing \in [Threads -> Ops \ {"swap"}]
  /\ ret \in [Threads -> Values \cup BOOLEAN \cup {Empty}]

Init ==
  /\ M!Init
  /\ p \in Values \cup {Empty}
  /\ pc = [t \in Threads |-> "idle"]
  /\ call = [t \in Threads |-> CHOOSE c \in CallsOf[t] : TRUE]
  /\ doing = [t \in Threads |-> "take"]
  /\ ret = [t \in Threads |-> Empty]

Goto(t, from, to) == pc[t] = from /\ pc' = [pc EXCEPT ![t] = to]

Result(t, r) == ret' = [ret EXCEPT ![t] = r]

Swapping(t) == call[t].op = "swap"

-----------------------------------------------------------------------------
(* Getting in *)

Call(t) ==
  /\ \E c \in CallsOf[t] :
       /\ call' = [call EXCEPT ![t] = c]
       /\ doing' = [doing EXCEPT ![t] = IF c.op = "swap" THEN "take" ELSE c.op]
       /\ Goto(t, "idle", IF c.op = "swap" THEN "swap_enter" ELSE "enter")
  /\ Result(t, Empty)
  /\ UNCHANGED <<depth, room, p>>

\* Fault: swap() leaves the locking to take() and put().
SwapEnter_Unlocked(t) ==
  /\ Goto(t, "swap_enter", "enter")
  /\ UNCHANGED <<depth, room, p, call, doing, ret>>

\* swap()'s own scoped_lock.
SwapEnter(t) ==
  /\ Goto(t, "swap_enter", "enter")
  /\ M!Acquire(t)
  /\ UNCHANGED <<p, call, doing, ret>>

\* The scoped_lock of every other operation, and of take() and put() inside swap().
Enter(t) ==
  /\ Goto(t, "enter", "test")
  /\ M!Acquire(t)
  /\ UNCHANGED <<p, call, doing, ret>>

\* What each operation finds: it must wait, it returns false, or it goes on.
Blocked(t) ==
  \/ doing[t] \in {"take", "read"} /\ p = Empty
  \/ doing[t] = "put" /\ p # Empty

Refused(t) ==
  \/ doing[t] = "try_take" /\ p = Empty
  \/ doing[t] = "try_put" /\ p # Empty

\* cond.wait(m): every level of the lock is given up.
Wait(t) ==
  /\ Blocked(t)
  /\ Goto(t, "test", "waiting")
  /\ M!Sleep(t)
  /\ UNCHANGED <<p, call, doing, ret>>

Spurious(t) ==
  /\ pc[t] = "waiting"
  /\ M!Wake({t})
  /\ UNCHANGED <<p, pc, call, doing, ret>>

Resume(t) ==
  /\ Goto(t, "waiting", "test")
  /\ M!Resume(t)
  /\ UNCHANGED <<p, call, doing, ret>>

\* return false, with nobody notified.
Refuse(t) ==
  /\ Refused(t)
  /\ Goto(t, "test", "leave")
  /\ Result(t, FALSE)
  /\ UNCHANGED <<depth, room, p, call, doing>>

Pass(t) ==
  /\ ~Blocked(t) /\ ~Refused(t)
  /\ Goto(t, "test", "effect")
  /\ UNCHANGED <<depth, room, p, call, doing, ret>>

-----------------------------------------------------------------------------
(* The effects *)

Take(t) ==
  /\ doing[t] \in {"take", "try_take"}
  /\ Goto(t, "effect", "unlock")
  /\ p' = Empty
  /\ Result(t, p)
  /\ UNCHANGED <<depth, room, call, doing>>

\* put() has no result of its own: swap() keeps what it took.
Put(t) ==
  /\ doing[t] \in {"put", "try_put"}
  /\ Goto(t, "effect", "unlock")
  /\ p' = call[t].val
  /\ Result(t, IF doing[t] = "try_put" THEN TRUE ELSE ret[t])
  /\ UNCHANGED <<depth, room, call, doing>>

\* read() returns from inside the block and notifies nobody.
Read(t) ==
  /\ doing[t] = "read"
  /\ Goto(t, "effect", "leave")
  /\ Result(t, p)
  /\ UNCHANGED <<depth, room, p, call, doing>>

-----------------------------------------------------------------------------
(* Getting out *)

\* The way out without a notification: unlock and return.
Leave(t) ==
  /\ Goto(t, "leave", "idle")
  /\ M!Release(t)
  /\ UNCHANGED <<p, call, doing, ret>>

\* Fault: put() does not notify.
Unlock_SilentPut(t) ==
  /\ Goto(t, "unlock", IF call[t].op = "put" THEN "idle" ELSE "notify")
  /\ M!Release(t)
  /\ UNCHANGED <<p, call, doing, ret>>

Unlock(t) ==
  /\ Goto(t, "unlock", "notify")
  /\ M!Release(t)
  /\ UNCHANGED <<p, call, doing, ret>>

WakeAll == M!Wake({u \in Threads : room[u] = "asleep"})

\* notify_all() at the end of an operation, which returns; inside swap(), put()
\* follows take() and swap()'s own unlock follows put(), with the lock still held.
NotifyAll(t) ==
  /\ IF ~Swapping(t)
     THEN Goto(t, "notify", "idle") /\ UNCHANGED doing
     ELSE IF doing[t] = "take"
          THEN Goto(t, "notify", "enter") /\ doing' = [doing EXCEPT ![t] = "put"]
          ELSE Goto(t, "notify", "swap_unlock") /\ UNCHANGED doing
  /\ WakeAll
  /\ UNCHANGED <<p, call, ret>>

SwapUnlock(t) ==
  /\ Goto(t, "swap_unlock", "swap_notify")
  /\ M!Release(t)
  /\ UNCHANGED <<p, call, doing, ret>>

SwapNotifyAll(t) ==
  /\ Goto(t, "swap_notify", "idle")
  /\ WakeAll
  /\ UNCHANGED <<p, call, doing, ret>>

-----------------------------------------------------------------------------

Step(t) ==
  \/ SwapEnter(t) \/ Enter(t) \/ Wait(t) \/ Resume(t) \/ Refuse(t) \/ Pass(t)
  \/ Take(t) \/ Put(t) \/ Read(t)
  \/ Leave(t) \/ Unlock(t) \/ NotifyAll(t) \/ SwapUnlock(t) \/ SwapNotifyAll(t)

Next == \E t \in Threads : Call(t) \/ Spurious(t) \/ Step(t)

Spec == Init /\ [][Next]_vars

-----------------------------------------------------------------------------
(* Properties *)

\* While a caller sleeps though the cell is now as it wants it, somebody who
\* changed the cell has still to notify.
NoLostWakeup ==
  (\E t \in Threads : room[t] = "asleep" /\ ~Blocked(t))
    => \E u \in Threads : pc[u] \in {"unlock", "notify"}

\* Between its take() and its put() a swap() has the value in its hands.
MidSwap(t) ==
  /\ Swapping(t)
  /\ \/ doing[t] = "take" /\ pc[t] \in {"unlock", "notify"}
     \/ doing[t] = "put" /\ pc[t] \in {"enter", "test", "effect", "waiting"}

\* From its effect to its return; read() and a refused try have theirs before "leave".
PastEffect(t) ==
  IF Swapping(t)
  THEN \/ doing[t] = "put" /\ pc[t] \in {"unlock", "notify"}
       \/ pc[t] \in {"swap_unlock", "swap_notify"}
  ELSE pc[t] \in {"unlock", "notify", "leave"}

Abstract == INSTANCE SyncCell WITH
  cell <- IF \E t \in Threads : MidSwap(t)
          THEN ret[CHOOSE t \in Threads : MidSwap(t)]
          ELSE p,
  stage <- [t \in Threads |-> IF pc[t] = "idle" THEN "idle"
                              ELSE IF PastEffect(t) THEN "done" ELSE "called"],
  ret <- [t \in Threads |-> IF MidSwap(t) THEN Empty ELSE ret[t]]

\* mvar is a linearizable one-place cell: no value is lost, duplicated or
\* overwritten, and swap() is one step although it is a take() and a put().
ImplementsSyncCell == Abstract!Spec

\* A caller on its way to a take or a put, alone or as a half of swap().
Wants(t, op) == doing[t] = op /\ pc[t] \in {"swap_enter", "enter", "test", "waiting"}

=============================================================================
