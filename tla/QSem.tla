-------------------------------- MODULE QSem --------------------------------
(***************************************************************************)
(* pfi::concurrent::qsem (qsem.h): a quantity semaphore.  wait(q) blocks   *)
(* until q units are there and takes ONE of them; signal(q) adds q units.  *)
(* lock() and unlock() are wait(1) and signal(1).                          *)
(*                                                                         *)
(* Each thread waits for a quantity and later signals that same quantity.  *)
(***************************************************************************)
EXTENDS Integers

CONSTANTS
  Threads,     \* the threads that share the semaphore
  Initial,     \* the quantity given to the constructor
  Quantities,  \* the quantities the threads ask for
  MaxQuantity  \* bound on the counter, which drifts up when some quantity is not 1

QSemAssumption ==
  /\ Initial \in Nat
  /\ Quantities \subseteq Nat \ {0}
  /\ MaxQuantity \in Nat /\ Initial <= MaxQuantity

VARIABLES
  depth, room,  \* the monitor: r_mutex m and condition cond
  quantity,     \* qsem::quantity
  pc,           \* where each thread is
  asked,        \* asked[t]: the argument of t's last wait()
  inUse         \* history: units granted by wait() and not yet returned by signal()

vars == <<depth, room, quantity, pc, asked, inUse>>

M == INSTANCE Monitor WITH Recursive <- TRUE, MaxDepth <- 1

\* "out" and "using" are client code, before wait() and after it.
Labels ==
  {"out", "wait_enter", "loop", "waiting", "take", "wait_leave",
   "using", "signal_enter", "give", "signal_leave", "notify"}

TypeOK ==
  /\ M!TypeOK
  /\ quantity \in 0..MaxQuantity
  /\ pc \in [Threads -> Labels]
  /\ asked \in [Threads -> Quantities \cup {0}]
  /\ inUse \in Nat

Init ==
  /\ M!Init
  /\ quantity = Initial
  /\ pc = [t \in Threads |-> "out"]
  /\ asked = [t \in Threads |-> 0]
  /\ inUse = 0

Goto(t, from, to) == pc[t] = from /\ pc' = [pc EXCEPT ![t] = to]

-----------------------------------------------------------------------------
(* wait(q) *)

WaitCall(t) ==
  /\ Goto(t, "out", "wait_enter")
  /\ \E q \in Quantities : asked' = [asked EXCEPT ![t] = q]
  /\ UNCHANGED <<depth, room, quantity, inUse>>

\* scoped_lock lock(m), in either operation.
Enter(t) ==
  /\ Goto(t, "wait_enter", "loop") \/ Goto(t, "signal_enter", "give")
  /\ M!Acquire(t)
  /\ UNCHANGED <<quantity, asked, inUse>>

\* Fault: one unit too few is enough.
Blocked_OffByOne(t) == quantity + 1 < asked[t]

Blocked(t) == quantity < asked[t]

\* cond.wait(m)
Wait(t) ==
  /\ Blocked(t)
  /\ Goto(t, "loop", "waiting")
  /\ M!Sleep(t)
  /\ UNCHANGED <<quantity, asked, inUse>>

Spurious(t) ==
  /\ pc[t] = "waiting"
  /\ M!Wake({t})
  /\ UNCHANGED <<quantity, pc, asked, inUse>>

Resume(t) ==
  /\ Goto(t, "waiting", "loop")
  /\ M!Resume(t)
  /\ UNCHANGED <<quantity, asked, inUse>>

Pass(t) ==
  /\ ~Blocked(t)
  /\ Goto(t, "loop", "take")
  /\ UNCHANGED <<depth, room, quantity, asked, inUse>>

\* quantity--
Take(t) ==
  /\ Goto(t, "take", "wait_leave")
  /\ quantity' = quantity - 1
  /\ inUse' = inUse + asked[t]
  /\ UNCHANGED <<depth, room, asked>>

\* return true: the scoped_lock unlocks, nobody is notified.
WaitLeave(t) ==
  /\ Goto(t, "wait_leave", "using")
  /\ M!Release(t)
  /\ UNCHANGED <<quantity, asked, inUse>>

-----------------------------------------------------------------------------
(* signal(q) *)

SignalCall(t) ==
  /\ Goto(t, "using", "signal_enter")
  /\ UNCHANGED <<depth, room, quantity, asked, inUse>>

\* quantity += q
Give(t) ==
  /\ quantity + asked[t] <= MaxQuantity
  /\ Goto(t, "give", "signal_leave")
  /\ quantity' = quantity + asked[t]
  /\ inUse' = inUse - asked[t]
  /\ UNCHANGED <<depth, room, asked>>

\* Fault: signal() does not notify.
SignalLeave_Silent(t) ==
  /\ Goto(t, "signal_leave", "out")
  /\ M!Release(t)
  /\ UNCHANGED <<quantity, asked, inUse>>

SignalLeave(t) ==
  /\ Goto(t, "signal_leave", "notify")
  /\ M!Release(t)
  /\ UNCHANGED <<quantity, asked, inUse>>

NotifyAll(t) ==
  /\ Goto(t, "notify", "out")
  /\ M!Wake({u \in Threads : room[u] = "asleep"})
  /\ UNCHANGED <<quantity, asked, inUse>>

-----------------------------------------------------------------------------

Step(t) ==
  \/ Enter(t) \/ Wait(t) \/ Resume(t) \/ Pass(t) \/ Take(t) \/ WaitLeave(t)
  \/ Give(t) \/ SignalLeave(t) \/ NotifyAll(t)

Next == \E t \in Threads : WaitCall(t) \/ SignalCall(t) \/ Spurious(t) \/ Step(t)

Spec == Init /\ [][Next]_vars

-----------------------------------------------------------------------------
(* Properties *)

\* The semaphore's purpose: the units in use never exceed those there were.
NeverOverGranted == inUse <= Initial

\* While a thread sleeps though its quantity is there, a signal has still to notify.
NoLostWakeup ==
  (\E t \in Threads : room[t] = "asleep" /\ ~Blocked(t))
    => \E u \in Threads : pc[u] \in {"signal_leave", "notify"}

=============================================================================
