-------------------------------- MODULE PcBuf --------------------------------
(***************************************************************************)
(* pfi::concurrent::pcbuf (pcbuf.h): a bounded producer/consumer buffer,   *)
(* a deque under one mutex with one condition for every waiter.            *)
(*                                                                         *)
(* The mutex and the condition are those of Monitor, whose operations are  *)
(* the lock, wait, wakeup and unlock steps here; the implementation of     *)
(* Monitor by mutex.cpp and condition.cpp is CondMutex's matter.           *)
(*                                                                         *)
(* Time is abstract: late[t] says that `second` has elapsed since the      *)
(* timed call of t read the clock.  cond.wait(m, second - elapsed) times   *)
(* out only then, since it reads the same clock once more, later.          *)
(***************************************************************************)
EXTENDS Integers, Sequences, TLAPS

CONSTANTS
  Threads,   \* the callers
  Values,    \* what is pushed
  Capacity,  \* pcbuf::cap
  CallsOf,   \* CallsOf[t]: the calls thread t makes, [op, timed, val] records
  NoResult   \* the result of a call that has not taken effect

Calls == [op : {"push", "pop", "clear"}, timed : BOOLEAN, val : Values \cup {NoResult}]

ASSUME PcBufAssumption ==
  /\ Capacity \in Nat
  /\ NoResult \notin Values
  /\ \A t \in Threads :
       /\ CallsOf[t] # {}
       /\ \A c \in CallsOf[t] :
            /\ c \in Calls
            /\ c.op = "push" => c.val \in Values
            /\ c.op = "clear" => ~c.timed

VARIABLES
  depth, room,  \* the monitor: mutex m and condition cond
  q,            \* the deque
  pc,           \* where each caller is
  call,         \* call[t]: the call t is making, or made last
  late,         \* late[t]: the deadline of t's timed call has passed
  ret           \* ret[t]: what the call gave: a popped value, TRUE, FALSE or NoResult

vars == <<depth, room, q, pc, call, late, ret>>

M == INSTANCE Monitor WITH Recursive <- FALSE, MaxDepth <- 1

\* "waiting" and "timed_out" are inside cond.wait, the latter with ETIMEDOUT.
Labels ==
  {"idle", "enter", "loop", "waiting", "timed_out", "give_up",
   "effect", "unlock", "notify"}

Results == Values \cup BOOLEAN \cup {NoResult}

TypeOK ==
  /\ M!TypeOK
  /\ q \in Seq(Values) /\ Len(q) <= Capacity
  /\ pc \in [Threads -> Labels]
  /\ call \in [Threads -> Calls]
  /\ late \in [Threads -> BOOLEAN]
  /\ ret \in [Threads -> Results]

Init ==
  /\ M!Init
  /\ q = <<>>
  /\ pc = [t \in Threads |-> "idle"]
  /\ call = [t \in Threads |-> CHOOSE c \in CallsOf[t] : TRUE]
  /\ late = [t \in Threads |-> FALSE]
  /\ ret = [t \in Threads |-> NoResult]

Goto(t, from, to) == pc[t] = from /\ pc' = [pc EXCEPT ![t] = to]

-----------------------------------------------------------------------------
(* A call up to its effect *)

\* The call starts; a timed one reads the clock.
Call(t) ==
  /\ Goto(t, "idle", "enter")
  /\ \E c \in CallsOf[t] : call' = [call EXCEPT ![t] = c]
  /\ late' = [late EXCEPT ![t] = FALSE]
  /\ ret' = [ret EXCEPT ![t] = NoResult]
  /\ UNCHANGED <<depth, room, q>>

\* Time passes the deadline of a timed call.
Deadline(t) ==
  /\ pc[t] # "idle"
  /\ call[t].timed
  /\ ~late[t]
  /\ late' = [late EXCEPT ![t] = TRUE]
  /\ UNCHANGED <<depth, room, q, pc, call, ret>>

\* scoped_lock lock(m)
Enter(t) ==
  /\ Goto(t, "enter", "loop")
  /\ M!Acquire(t)
  /\ UNCHANGED <<q, call, late, ret>>

\* The condition of the call's while loop.
Blocked(t) ==
  \/ call[t].op = "push" /\ Len(q) >= Capacity
  \/ call[t].op = "pop" /\ q = <<>>

\* The loop ends.
Pass(t) ==
  /\ ~Blocked(t)
  /\ Goto(t, "loop", "effect")
  /\ UNCHANGED <<depth, room, q, call, late, ret>>

\* The loop's body: cond.wait, unless the time is up (`second <= elapsed`).
Wait(t) ==
  /\ Blocked(t)
  /\ ~(call[t].timed /\ late[t])
  /\ Goto(t, "loop", "waiting")
  /\ M!Sleep(t)
  /\ UNCHANGED <<q, call, late, ret>>

\* cond.wait wakes up though nobody notified.
Spurious(t) ==
  /\ pc[t] = "waiting"
  /\ M!Wake({t})
  /\ UNCHANGED <<q, pc, call, late, ret>>

\* Fault: any end of the wait counts as a timeout.
TimeOut_AnyWakeup(t) ==
  /\ call[t].timed
  /\ Goto(t, "waiting", "timed_out")
  /\ M!Wake({t})
  /\ UNCHANGED <<q, call, late, ret>>

\* cond.wait(m, second - elapsed) ends by ETIMEDOUT; it must still get the mutex back.
TimeOut(t) ==
  /\ call[t].timed
  /\ late[t]
  /\ Goto(t, "waiting", "timed_out")
  /\ M!Wake({t})
  /\ UNCHANGED <<q, call, late, ret>>

\* Fault: each round of the loop waits for `second` once more.
Resume_Rearmed(t) ==
  /\ Goto(t, "waiting", "loop") \/ Goto(t, "timed_out", "loop")
  /\ M!Resume(t)
  /\ late' = [late EXCEPT ![t] = FALSE]
  /\ UNCHANGED <<q, call, ret>>

\* cond.wait returns, with the mutex: the loop goes round, or `return false` follows.
Resume(t) ==
  /\ Goto(t, "waiting", "loop") \/ Goto(t, "timed_out", "give_up")
  /\ M!Resume(t)
  /\ UNCHANGED <<q, call, late, ret>>

-----------------------------------------------------------------------------
(* The effect of a call and its way out *)

\* return false: the scoped_lock unlocks, nobody is notified.  After ETIMEDOUT
\* the loop's condition is not looked at again.
GiveUp(t) ==
  /\ \/ Goto(t, "loop", "idle") /\ Blocked(t) /\ call[t].timed /\ late[t]
     \/ Goto(t, "give_up", "idle")
  /\ M!Release(t)
  /\ ret' = [ret EXCEPT ![t] = FALSE]
  /\ UNCHANGED <<q, call, late>>

Push(t) ==
  /\ call[t].op = "push"
  /\ Goto(t, "effect", "unlock")
  /\ q' = Append(q, call[t].val)
  /\ ret' = [ret EXCEPT ![t] = TRUE]
  /\ UNCHANGED <<depth, room, call, late>>

Pop(t) ==
  /\ call[t].op = "pop"
  /\ Goto(t, "effect", "unlock")
  /\ q' = Tail(q)
  /\ ret' = [ret EXCEPT ![t] = Head(q)]
  /\ UNCHANGED <<depth, room, call, late>>

Clear(t) ==
  /\ call[t].op = "clear"
  /\ Goto(t, "effect", "unlock")
  /\ q' = <<>>
  /\ ret' = [ret EXCEPT ![t] = TRUE]
  /\ UNCHANGED <<depth, room, call, late>>

\* The block ends: the scoped_lock unlocks.
Unlock(t) ==
  /\ Goto(t, "unlock", "notify")
  /\ M!Release(t)
  /\ UNCHANGED <<q, call, late, ret>>

\* Fault: notify() for notify_all().
NotifyAll_One(t) ==
  /\ Goto(t, "notify", "idle")
  /\ IF \E u \in Threads : room[u] = "asleep"
     THEN \E u \in Threads : M!Wake({u})
     ELSE M!Wake({})
  /\ UNCHANGED <<q, call, late, ret>>

\* cond.notify_all(), without the mutex; then the call returns.
NotifyAll(t) ==
  /\ Goto(t, "notify", "idle")
  /\ M!Wake({u \in Threads : room[u] = "asleep"})
  /\ UNCHANGED <<q, call, late, ret>>

-----------------------------------------------------------------------------

\* What a thread does on its own once it is in a call.
Step(t) ==
  \/ Enter(t) \/ Pass(t) \/ Wait(t) \/ Resume(t) \/ GiveUp(t)
  \/ Push(t) \/ Pop(t) \/ Clear(t) \/ Unlock(t) \/ NotifyAll(t)

Next ==
  \E t \in Threads : Call(t) \/ Deadline(t) \/ Spurious(t) \/ TimeOut(t) \/ Step(t)

Spec == Init /\ [][Next]_vars

\* The scheduler runs every thread that can run, a mutex that is free again and
\* again is eventually granted to each thread that asks for it, time passes and
\* timed waits end at their deadline, and spurious wakeups do not go on for ever.
FairSpec ==
  /\ Spec
  /\ \A t \in Threads : SF_vars(Step(t)) /\ WF_vars(Deadline(t)) /\ WF_vars(TimeOut(t))
  /\ <>[][\A t \in Threads : ~Spurious(t)]_vars

-----------------------------------------------------------------------------
(* Properties *)

\* No wakeup is lost: while a caller sleeps in cond.wait although its loop would
\* now let it through, somebody who changed the queue has still to notify.  One
\* condition serves pushers and poppers, the notification comes after the unlock,
\* and a call that times out swallows a wakeup without passing it on.
NoLostWakeup ==
  (\E t \in Threads : room[t] = "asleep" /\ ~Blocked(t))
    => \E u \in Threads : pc[u] \in {"unlock", "notify"}

Abstract == INSTANCE BoundedFifo WITH
  stage <- [t \in Threads |-> CASE pc[t] = "idle" -> "idle"
                                [] pc[t] \in {"unlock", "notify"} -> "done"
                                [] OTHER -> "called"]

\* pcbuf is a linearizable bounded FIFO whose timed calls return false only after
\* their deadline and without effect: nothing is lost, duplicated, reordered or
\* popped from an empty buffer whatever the calls' interleaving.
ImplementsBoundedFifo == Abstract!Spec

\* t is in a call of that kind that no deadline will end.
Pending(t, op) == pc[t] # "idle" /\ call[t].op = op /\ ~call[t].timed
Served(t, op) == pc[t] \in {"unlock", "notify"} /\ call[t].op = op

\* While an untimed pop waits for its turn and there is something to pop, some pop
\* gets through, unless the buffer is emptied before.
PopsProgress ==
  (\E t \in Threads : Pending(t, "pop")) /\ q # <<>>
    ~> (\E t \in Threads : Served(t, "pop")) \/ q = <<>>

\* Likewise for an untimed push while there is room, unless the buffer fills up.
PushesProgress ==
  (\E t \in Threads : Pending(t, "push")) /\ Len(q) < Capacity
    ~> (\E t \in Threads : Served(t, "push")) \/ Len(q) = Capacity

\* A timed call returns, whatever the other callers do with the buffer.
TimedCallsReturn ==
  \A t \in Threads : pc[t] # "idle" /\ call[t].timed ~> pc[t] = "idle"


-----------------------------------------------------------------------------
(* Proofs, for any callers, values, capacity and calls: types, no lost     *)
(* wakeup, and that pcbuf implements the bounded FIFO.                     *)

Locked == {"loop", "give_up", "effect", "unlock"}

\* What the monitor knows of a caller follows from where the caller is.
RoomInv ==
  \A t \in Threads :
    /\ pc[t] \in {"idle", "enter", "notify"} => depth[t] = 0 /\ room[t] = "in"
    /\ pc[t] \in Locked => depth[t] = 1 /\ room[t] = "in"
    /\ pc[t] = "waiting" => depth[t] = 1 /\ room[t] \in {"asleep", "woken"}
    /\ pc[t] = "timed_out" => depth[t] = 1 /\ room[t] = "woken"

\* One caller at a time is between the lock and the unlock.
LockInv ==
  \A t, u \in Threads : pc[t] \in Locked /\ pc[u] \in Locked => t = u

\* Each call is one the thread makes; nothing blocked past the loop since the
\* loop ended; a call that failed had a deadline and has missed it.
CallInv ==
  \A t \in Threads :
    /\ call[t] \in CallsOf[t]
    /\ pc[t] = "effect" => ~Blocked(t)
    /\ pc[t] \in {"timed_out", "give_up"} => call[t].timed /\ late[t]

Inv ==
  /\ TypeOK
  /\ RoomInv
  /\ LockInv
  /\ CallInv
  /\ NoLostWakeup

-----------------------------------------------------------------------------

LEMMA CallTypes ==
  ASSUME NEW t \in Threads, NEW c \in CallsOf[t]
  PROVE  /\ c \in Calls
         /\ c.op \in {"push", "pop", "clear"}
         /\ c.timed \in BOOLEAN
         /\ c.op = "push" => c.val \in Values
         /\ c.op = "clear" => ~c.timed
  BY PcBufAssumption DEF Calls

LEMMA InvInit == Init => Inv
  <1> SUFFICES ASSUME Init PROVE Inv
    OBVIOUS
  <1>1. \A t \in Threads : call[t] \in CallsOf[t]
    BY PcBufAssumption DEF Init
  <1>2. QED
    BY <1>1, CallTypes, PcBufAssumption
    DEF Init, Inv, TypeOK, Labels, Results, RoomInv, Locked, LockInv, CallInv, NoLostWakeup,
        M!Init, M!TypeOK

LEMMA InvNext == Inv /\ [Next]_vars => Inv'
  <1> SUFFICES ASSUME Inv, [Next]_vars PROVE Inv'
    OBVIOUS
  <1> USE PcBufAssumption, CallTypes
  <1> USE DEF Inv, TypeOK, Labels, Results, RoomInv, Locked, LockInv, CallInv, NoLostWakeup,
        Blocked, Goto, M!TypeOK
  <1>1. ASSUME NEW t \in Threads, Call(t) PROVE Inv'
    BY <1>1 DEF Call
  <1>2. ASSUME NEW t \in Threads, Deadline(t) PROVE Inv'
    BY <1>2 DEF Deadline
  <1>3. ASSUME NEW t \in Threads, Enter(t) PROVE Inv'
    BY <1>3 DEF Enter, M!Acquire, M!Free, M!Holds
  <1>4. ASSUME NEW t \in Threads, Pass(t) PROVE Inv'
    BY <1>4 DEF Pass
  <1>5. ASSUME NEW t \in Threads, Wait(t) PROVE Inv'
    BY <1>5 DEF Wait, M!Sleep, M!Holds
  <1>6. ASSUME NEW t \in Threads, Spurious(t) PROVE Inv'
    BY <1>6 DEF Spurious, M!Wake
  <1>7. ASSUME NEW t \in Threads, TimeOut(t) PROVE Inv'
    BY <1>7 DEF TimeOut, M!Wake
  <1>8. ASSUME NEW t \in Threads, Resume(t) PROVE Inv'
    BY <1>8 DEF Resume, M!Resume, M!Free, M!Holds
  <1>9. ASSUME NEW t \in Threads, GiveUp(t) PROVE Inv'
    BY <1>9 DEF GiveUp, M!Release, M!Holds
  <1>10. ASSUME NEW t \in Threads, Push(t) PROVE Inv'
    BY <1>10 DEF Push
  <1>11. ASSUME NEW t \in Threads, Pop(t) PROVE Inv'
    BY <1>11 DEF Pop
  <1>12. ASSUME NEW t \in Threads, Clear(t) PROVE Inv'
    BY <1>12 DEF Clear
  <1>13. ASSUME NEW t \in Threads, Unlock(t) PROVE Inv'
    BY <1>13 DEF Unlock, M!Release, M!Holds
  <1>14. ASSUME NEW t \in Threads, NotifyAll(t) PROVE Inv'
    BY <1>14 DEF NotifyAll, M!Wake
  <1>15. CASE UNCHANGED vars
    BY <1>15 DEF vars
  <1>16. QED
    BY <1>1, <1>2, <1>3, <1>4, <1>5, <1>6, <1>7, <1>8, <1>9, <1>10, <1>11, <1>12, <1>13, <1>14, <1>15 DEF Next, Step

\* Every variable keeps its type; in particular the buffer never exceeds its
\* capacity, whichever callers passed the loop.
THEOREM TypeCorrect == Spec => []TypeOK
  <1>1. Inv => TypeOK
    BY DEF Inv
  <1>2. QED
    BY InvInit, InvNext, <1>1, PTL DEF Spec

\* Nobody sleeps on although its loop would let it through, unless a notify_all
\* is still to come.
THEOREM NoLostWakeupHolds == Spec => []NoLostWakeup
  <1>1. Inv => NoLostWakeup
    BY DEF Inv
  <1>2. QED
    BY InvInit, InvNext, <1>1, PTL DEF Spec

-----------------------------------------------------------------------------
(* The refinement *)

LEMMA AbstractInit == Init => Abstract!Init
  BY DEF Init, Abstract!Init

\* A call takes effect where the deque changes and gives up where it leaves the
\* lock without; the monitor's own steps are invisible.
LEMMA AbstractNext == Inv /\ [Next]_vars => [Abstract!Next]_(Abstract!vars)
  <1> SUFFICES ASSUME Inv, [Next]_vars PROVE [Abstract!Next]_(Abstract!vars)
    OBVIOUS
  <1> USE DEF Inv, TypeOK, Labels, Goto
  <1> DEFINE Stutter == UNCHANGED Abstract!vars
  <1>1. ASSUME NEW t \in Threads, Call(t)
        PROVE  \E c \in CallsOf[t] : Abstract!Invoke(t, c)
    <2>1. PICK c \in CallsOf[t] : call' = [call EXCEPT ![t] = c]
      BY <1>1 DEF Call
    <2>2. Abstract!Invoke(t, c)
      BY <1>1, <2>1 DEF Call, Abstract!Invoke
    <2>3. QED
      BY <2>2
  <1>2. ASSUME NEW t \in Threads, Deadline(t) PROVE Abstract!Deadline(t)
    BY <1>2 DEF Deadline, Abstract!Deadline
  <1>3. ASSUME NEW t \in Threads, GiveUp(t) PROVE Abstract!GiveUp(t)
    BY <1>3 DEF GiveUp, CallInv, Abstract!GiveUp
  <1>4. ASSUME NEW t \in Threads, Push(t) PROVE Abstract!Effect(t)
    <2>1. Len(q) < Capacity
      BY <1>4, PcBufAssumption DEF Push, CallInv, Blocked
    <2>2. QED
      BY <1>4, <2>1 DEF Push, Abstract!Effect
  <1>5. ASSUME NEW t \in Threads, Pop(t) PROVE Abstract!Effect(t)
    BY <1>5 DEF Pop, CallInv, Blocked, Abstract!Effect
  <1>6. ASSUME NEW t \in Threads, Clear(t) PROVE Abstract!Effect(t)
    BY <1>6 DEF Clear, Abstract!Effect
  <1>7. ASSUME NEW t \in Threads, NotifyAll(t) PROVE Abstract!Return(t)
    BY <1>7 DEF NotifyAll, Abstract!Return
  <1>8. ASSUME NEW t \in Threads, Enter(t) \/ Pass(t) \/ Wait(t) PROVE Stutter
    BY <1>8 DEF Enter, Pass, Wait, Abstract!vars
  <1>9. ASSUME NEW t \in Threads, Spurious(t) \/ TimeOut(t) \/ Resume(t) PROVE Stutter
    BY <1>9 DEF Spurious, TimeOut, Resume, Abstract!vars
  <1>10. ASSUME NEW t \in Threads, Unlock(t) PROVE Stutter
    BY <1>10 DEF Unlock, Abstract!vars
  <1>11. CASE UNCHANGED vars
    BY <1>11 DEF vars, Abstract!vars
  <1>12. QED
    BY <1>1, <1>2, <1>3, <1>4, <1>5, <1>6, <1>7, <1>8, <1>9, <1>10, <1>11
    DEF Next, Step, Abstract!Next

\* pcbuf implements the linearizable bounded FIFO for any number of callers and
\* any capacity.
THEOREM Refinement == Spec => ImplementsBoundedFifo
  <1>1. QED
    BY InvInit, InvNext, AbstractInit, AbstractNext, PTL
    DEF Spec, ImplementsBoundedFifo, Abstract!Spec
=============================================================================
