------------------------------ MODULE Broadcast ------------------------------
(***************************************************************************)
(* What linked chans promise (chan.rst): one sequence of messages, the     *)
(* same for every channel.  A channel gets every message written after it  *)
(* was linked, in the order of the writes, whichever channel they were     *)
(* written to; what is ungot goes back to the front of that channel only.  *)
(* Message k is the k-th written.                                          *)
(***************************************************************************)
EXTENDS Integers

CONSTANTS
  Chans,       \* the channels
  MaxWrites    \* bound on the number of messages

VARIABLES
  written,  \* how many messages have been written
  linked,   \* the channels that receive them
  next      \* next[c]: the first message that c's reader has not got, 0 if c is unlinked

vars == <<written, linked, next>>

Init ==
  /\ written = 0
  /\ \E c \in Chans : linked = {c}
  /\ next = [c \in Chans |-> IF c \in linked THEN 1 ELSE 0]

Write ==
  /\ written < MaxWrites
  /\ written' = written + 1
  /\ UNCHANGED <<linked, next>>

Read(c) ==
  /\ c \in linked
  /\ next[c] <= written
  /\ next' = [next EXCEPT ![c] = @ + 1]
  /\ UNCHANGED <<written, linked>>

Unget(c) ==
  /\ c \in linked
  /\ next[c] > 1
  /\ next' = [next EXCEPT ![c] = @ - 1]
  /\ UNCHANGED <<written, linked>>

\* A duplicate gets what is written from now on.
Dup(c) ==
  /\ c \notin linked
  /\ linked' = linked \cup {c}
  /\ next' = [next EXCEPT ![c] = written + 1]
  /\ UNCHANGED written

Drop(c) ==
  /\ c \in linked
  /\ linked' = linked \ {c}
  /\ next' = [next EXCEPT ![c] = 0]
  /\ UNCHANGED written

Next ==
  \/ Write
  \/ \E c \in Chans : Read(c) \/ Unget(c) \/ Dup(c) \/ Drop(c)

Spec == Init /\ [][Next]_vars
=============================================================================
