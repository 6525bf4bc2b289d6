------------------------------ MODULE SyncCell ------------------------------
(***************************************************************************)
(* What mvar promises (mvar.rst): a cell that holds at most one value, on  *)
(* which take, put, read, try_take, try_put and swap each take effect at   *)
(* one instant.  In particular nobody sees the cell empty in mid-swap.     *)
(***************************************************************************)
CONSTANTS
  Threads,   \* the callers
  Values,    \* what the cell can hold
  Empty,     \* the content of an empty cell, and the result of a call not yet made
  CallsOf    \* CallsOf[t]: the calls t makes, [op, val] records

VARIABLES
  cell,   \* the value, or Empty
  stage,  \* "idle", "called" or "done"
  call,   \* call[t]: t's last call
  ret     \* ret[t]: a value, TRUE, FALSE or Empty

vars == <<cell, stage, call, ret>>

Init ==
  /\ cell \in Values \cup {Empty}
  /\ stage = [t \in Threads |-> "idle"]
  /\ call = [t \in Threads |-> CHOOSE c \in CallsOf[t] : TRUE]
  /\ ret = [t \in Threads |-> Empty]

Invoke(t, c) ==
  /\ stage[t] = "idle"
  /\ stage' = [stage EXCEPT ![t] = "called"]
  /\ call' = [call EXCEPT ![t] = c]
  /\ ret' = [ret EXCEPT ![t] = Empty]
  /\ UNCHANGED cell

\* The call takes effect: the cell's new content and the caller's result.
Yield(t, content, result) ==
  /\ stage[t] = "called"
  /\ stage' = [stage EXCEPT ![t] = "done"]
  /\ cell' = content
  /\ ret' = [ret EXCEPT ![t] = result]
  /\ UNCHANGED call

Effect(t) ==
  \/ call[t].op = "take" /\ cell # Empty /\ Yield(t, Empty, cell)
  \/ call[t].op = "put" /\ cell = Empty /\ Yield(t, call[t].val, Empty)
  \/ call[t].op = "read" /\ cell # Empty /\ Yield(t, cell, cell)
  \/ call[t].op = "swap" /\ cell # Empty /\ Yield(t, call[t].val, cell)
  \/ call[t].op = "try_take" /\ cell # Empty /\ Yield(t, Empty, cell)
  \/ call[t].op = "try_take" /\ cell = Empty /\ Yield(t, cell, FALSE)
  \/ call[t].op = "try_put" /\ cell = Empty /\ Yield(t, call[t].val, TRUE)
  \/ call[t].op = "try_put" /\ cell # Empty /\ Yield(t, cell, FALSE)

Return(t) ==
  /\ stage[t] = "done"
  /\ stage' = [stage EXCEPT ![t] = "idle"]
  /\ UNCHANGED <<cell, call, ret>>

Next ==
  \E t \in Threads :
    (\E c \in CallsOf[t] : Invoke(t, c)) \/ Effect(t) \/ Return(t)

Spec == Init /\ [][Next]_vars
=============================================================================
