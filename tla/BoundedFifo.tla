----------------------------- MODULE BoundedFifo -----------------------------
(***************************************************************************)
(* What pcbuf promises its callers: a FIFO queue of bounded length on      *)
(* which every call takes effect at one instant between its call and its   *)
(* return.  A timed call may instead return false, having had no effect,   *)
(* but never before its deadline (pcbuf_test.cpp checks this on the        *)
(* clock).                                                                 *)
(***************************************************************************)
EXTENDS Integers, Sequences

CONSTANTS
  Threads,   \* the callers
  Capacity,  \* pcbuf::cap
  CallsOf,   \* CallsOf[t]: the calls thread t may make, [op, timed, val] records
  NoResult   \* the result of a call that has not taken effect

VARIABLES
  q,      \* the queued values, oldest first
  stage,  \* "idle", "called" or "done"
  call,   \* call[t]: t's last call
  late,   \* late[t]: the deadline of t's timed call has passed
  ret     \* ret[t]: what the call gave: a popped value, TRUE, FALSE or NoResult

vars == <<q, stage, call, late, ret>>

Init ==
  /\ q = <<>>
  /\ stage = [t \in Threads |-> "idle"]
  /\ call = [t \in Threads |-> CHOOSE c \in CallsOf[t] : TRUE]
  /\ late = [t \in Threads |-> FALSE]
  /\ ret = [t \in Threads |-> NoResult]

Invoke(t, c) ==
  /\ stage[t] = "idle"
  /\ stage' = [stage EXCEPT ![t] = "called"]
  /\ call' = [call EXCEPT ![t] = c]
  /\ late' = [late EXCEPT ![t] = FALSE]
  /\ ret' = [ret EXCEPT ![t] = NoResult]
  /\ UNCHANGED q

Deadline(t) ==
  /\ stage[t] # "idle"
  /\ call[t].timed
  /\ late' = [late EXCEPT ![t] = TRUE]
  /\ UNCHANGED <<q, stage, call, ret>>

\* The effect of a call: push appends if there is room, pop removes the oldest,
\* clear removes everything.
Effect(t) ==
  /\ stage[t] = "called"
  /\ stage' = [stage EXCEPT ![t] = "done"]
  /\ \/ /\ call[t].op = "push"
        /\ Len(q) < Capacity
        /\ q' = Append(q, call[t].val)
        /\ ret' = [ret EXCEPT ![t] = TRUE]
     \/ /\ call[t].op = "pop"
        /\ q # <<>>
        /\ q' = Tail(q)
        /\ ret' = [ret EXCEPT ![t] = Head(q)]
     \/ /\ call[t].op = "clear"
        /\ q' = <<>>
        /\ ret' = [ret EXCEPT ![t] = TRUE]
  /\ UNCHANGED <<call, late>>

Return(t) ==
  /\ stage[t] = "done"
  /\ stage' = [stage EXCEPT ![t] = "idle"]
  /\ UNCHANGED <<q, call, late, ret>>

\* A timed call gives up: it had no effect and its deadline has passed.
GiveUp(t) ==
  /\ stage[t] = "called"
  /\ call[t].timed
  /\ late[t]
  /\ stage' = [stage EXCEPT ![t] = "idle"]
  /\ ret' = [ret EXCEPT ![t] = FALSE]
  /\ UNCHANGED <<q, call, late>>

Next ==
  \E t \in Threads :
    \/ \E c \in CallsOf[t] : Invoke(t, c)
    \/ Deadline(t) \/ Effect(t) \/ Return(t) \/ GiveUp(t)

Spec == Init /\ [][Next]_vars
=============================================================================
