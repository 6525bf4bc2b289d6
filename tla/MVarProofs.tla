------------------------------ MODULE MVarProofs ------------------------------
(***************************************************************************)
(* Proofs about MVar, for any threads, values and calls: no lost wakeup,   *)
(* and the linearizable cell that SyncCell states, swap() included.        *)
(***************************************************************************)
EXTENDS MVar, TLAPS

Types ==
  /\ M!TypeOK
  /\ p \in Values \cup {Empty}
  /\ pc \in [Threads -> Labels]
  /\ call \in [Threads -> [op : Ops, val : Values]]
  /\ doing \in [Threads -> Ops \ {"swap"}]
  /\ ret \in [Threads -> Values \cup BOOLEAN \cup {Empty}]

\* The operation under way is the one called, or a half of swap().
CallInv ==
  \A t \in Threads :
    /\ pc[t] # "idle" /\ Swapping(t) =>
         /\ doing[t] \in {"take", "put"} /\ pc[t] # "leave"
         /\ pc[t] = "swap_enter" => doing[t] = "take"
         /\ pc[t] \in {"swap_unlock", "swap_notify"} => doing[t] = "put"
    /\ pc[t] # "idle" /\ ~Swapping(t) =>
         /\ doing[t] = call[t].op
         /\ pc[t] \notin {"swap_enter", "swap_unlock", "swap_notify"}

\* swap()'s own lock is around the locks of its halves.
Outer(t) == IF Swapping(t) THEN 1 ELSE 0

Inner == {"test", "waiting", "effect", "unlock", "leave"}
Between == {"enter", "notify", "swap_unlock"}

\* What the monitor knows of a thread follows from where it is.
RoomInv ==
  \A t \in Threads :
    /\ pc[t] \in Inner => depth[t] = Outer(t) + 1
    /\ pc[t] \in Between => depth[t] = Outer(t)
    /\ pc[t] \notin Inner \cup Between => depth[t] = 0
    /\ IF pc[t] = "waiting" THEN room[t] \in {"asleep", "woken"} ELSE room[t] = "in"

\* One thread at a time has the lock.
LockInv == \A t, u \in Threads : M!Holds(t) /\ M!Holds(u) => t = u

Inv == Types /\ CallInv /\ RoomInv /\ LockInv /\ NoLostWakeup

-----------------------------------------------------------------------------

LEMMA InvInit == MVarAssumption /\ Init => Inv
  <1> SUFFICES ASSUME MVarAssumption, Init PROVE Inv
    OBVIOUS
  <1>1. \A t \in Threads : call[t] \in [op : Ops, val : Values]
    <2> TAKE t \in Threads
    <2>1. call[t] = CHOOSE c \in CallsOf[t] : TRUE
      BY DEF Init
    <2>2. CallsOf[t] # {} /\ CallsOf[t] \subseteq [op : Ops, val : Values]
      BY DEF MVarAssumption
    <2>3. QED
      BY <2>1, <2>2
  <1>2. Types
    BY <1>1 DEF Init, Types, Labels, Ops, M!Init, M!TypeOK
  <1>3. QED
    BY <1>2 DEF Init, Inv, CallInv, RoomInv, Inner, Between, LockInv, NoLostWakeup, M!Init, M!Holds

LEMMA InvNext == MVarAssumption /\ Inv /\ [Next]_vars => Inv'
  <1> SUFFICES ASSUME MVarAssumption, Inv, [Next]_vars PROVE Inv'
    OBVIOUS
  <1> USE DEF Inv, Types, Labels, Ops, CallInv, Swapping, Outer, Inner, Between, RoomInv, LockInv,
        NoLostWakeup, Blocked, Goto, Result, M!TypeOK, M!Holds
  <1>1. ASSUME NEW t \in Threads, Call(t) PROVE Inv'
    <2>1. PICK c \in CallsOf[t] :
            /\ call' = [call EXCEPT ![t] = c]
            /\ doing' = [doing EXCEPT ![t] = IF c.op = "swap" THEN "take" ELSE c.op]
            /\ Goto(t, "idle", IF c.op = "swap" THEN "swap_enter" ELSE "enter")
      BY <1>1 DEF Call
    <2>2. c \in [op : Ops, val : Values]
      BY DEF MVarAssumption
    <2>3. Types' /\ CallInv' /\ RoomInv' /\ LockInv'
      BY <1>1, <2>1, <2>2 DEF Call
    <2>4. NoLostWakeup'
      BY <1>1, <2>1, <2>2 DEF Call
    <2>5. QED
      BY <2>3, <2>4
  <1>2. ASSUME NEW t \in Threads, SwapEnter(t) PROVE Inv'
    BY <1>2 DEF SwapEnter, M!Acquire, M!Free
  <1>3. ASSUME NEW t \in Threads, Enter(t) PROVE Inv'
    BY <1>3 DEF Enter, M!Acquire, M!Free
  <1>4. ASSUME NEW t \in Threads, Wait(t) PROVE Inv'
    BY <1>4 DEF Wait, M!Sleep
  <1>5. ASSUME NEW t \in Threads, Spurious(t) PROVE Inv'
    BY <1>5 DEF Spurious, M!Wake
  <1>6. ASSUME NEW t \in Threads, Resume(t) PROVE Inv'
    BY <1>6 DEF Resume, M!Resume, M!Free
  <1>7. ASSUME NEW t \in Threads, Refuse(t) PROVE Inv'
    BY <1>7 DEF Refuse, Refused
  <1>8. ASSUME NEW t \in Threads, Pass(t) PROVE Inv'
    BY <1>8 DEF Pass
  <1>9. ASSUME NEW t \in Threads, Take(t) PROVE Inv'
    BY <1>9 DEF Take
  <1>10. ASSUME NEW t \in Threads, Put(t) PROVE Inv'
    BY <1>10 DEF Put
  <1>11. ASSUME NEW t \in Threads, Read(t) PROVE Inv'
    BY <1>11 DEF Read
  <1>12. ASSUME NEW t \in Threads, Leave(t) PROVE Inv'
    BY <1>12 DEF Leave, M!Release
  <1>13. ASSUME NEW t \in Threads, Unlock(t) PROVE Inv'
    BY <1>13 DEF Unlock, M!Release
  <1>14. ASSUME NEW t \in Threads, NotifyAll(t) PROVE Inv'
    <2>1. /\ room' = [u \in Threads |-> IF room[u] = "asleep" THEN "woken" ELSE room[u]]
          /\ UNCHANGED <<depth, p, call, ret>>
      BY <1>14 DEF NotifyAll, WakeAll, M!Wake
    <2>2. NoLostWakeup'
      BY <2>1
    <2>3. CASE ~Swapping(t)
      <3>1. pc[t] = "notify" /\ pc' = [pc EXCEPT ![t] = "idle"] /\ doing' = doing
        BY <1>14, <2>3 DEF NotifyAll
      <3>2. QED
        BY <2>1, <2>2, <2>3, <3>1
    <2>4. CASE Swapping(t) /\ doing[t] = "take"
      <3>1. /\ pc[t] = "notify" /\ pc' = [pc EXCEPT ![t] = "enter"]
            /\ doing' = [doing EXCEPT ![t] = "put"]
        BY <1>14, <2>4 DEF NotifyAll
      <3>2. QED
        BY <2>1, <2>2, <2>4, <3>1
    <2>5. CASE Swapping(t) /\ doing[t] # "take"
      <3>1. pc[t] = "notify" /\ pc' = [pc EXCEPT ![t] = "swap_unlock"] /\ doing' = doing
        BY <1>14, <2>5 DEF NotifyAll
      <3>2. QED
        BY <2>1, <2>2, <2>5, <3>1
    <2>6. QED
      BY <2>3, <2>4, <2>5
  <1>15. ASSUME NEW t \in Threads, SwapUnlock(t) PROVE Inv'
    BY <1>15 DEF SwapUnlock, M!Release
  <1>16. ASSUME NEW t \in Threads, SwapNotifyAll(t) PROVE Inv'
    BY <1>16 DEF SwapNotifyAll, WakeAll, M!Wake
  <1>17. CASE UNCHANGED vars
    BY <1>17 DEF vars
  <1>18. QED
    BY <1>1, <1>2, <1>3, <1>4, <1>5, <1>6, <1>7, <1>8, <1>9, <1>10, <1>11, <1>12, <1>13,
       <1>14, <1>15, <1>16, <1>17
    DEF Next, Step

\* Whoever calls what, no caller sleeps on although the cell is as it wants it, unless
\* somebody who changed the cell has still to notify.
THEOREM NoLostWakeupHolds == ASSUME MVarAssumption PROVE Spec => []NoLostWakeup
  <1>1. Init => Inv
    BY InvInit
  <1>2. Inv /\ [Next]_vars => Inv'
    BY InvNext
  <1>3. Inv => NoLostWakeup
    BY DEF Inv
  <1>4. QED
    BY <1>1, <1>2, <1>3, PTL DEF Spec

-----------------------------------------------------------------------------
(* The refinement *)

\* A swap() with the value in its hands has the lock and has left the cell empty.
MidInv == \A t \in Threads : MidSwap(t) => p = Empty /\ M!Holds(t) /\ ret[t] \in Values

\* Nobody has a result before the effect, but for what swap() took.
RetInv ==
  \A t \in Threads :
    pc[t] \in {"swap_enter", "enter", "test", "waiting", "effect"} /\ ~MidSwap(t) => ret[t] = Empty

\* Between the test and the effect the lock keeps the cell as it was found.
PassInv == \A t \in Threads : pc[t] = "effect" => ~Blocked(t) /\ ~Refused(t)

RefInv == MidInv /\ RetInv /\ PassInv

LEMMA RefInit == MVarAssumption /\ Init => RefInv
  BY DEF Init, RefInv, MidInv, RetInv, PassInv, MidSwap, Blocked, Refused

LEMMA RefNext == MVarAssumption /\ Inv /\ RefInv /\ [Next]_vars => RefInv'
  <1> SUFFICES ASSUME MVarAssumption, Inv, RefInv, [Next]_vars PROVE RefInv'
    OBVIOUS
  <1> USE DEF Inv, Types, Labels, Ops, CallInv, Swapping, Outer, Inner, Between, RoomInv, LockInv,
        Blocked, Refused, Goto, Result, M!TypeOK, M!Holds, RefInv, MidInv, RetInv, PassInv, MidSwap
  <1>1. ASSUME NEW t \in Threads, Call(t) PROVE RefInv'
    <2>1. PICK c \in CallsOf[t] :
            /\ call' = [call EXCEPT ![t] = c]
            /\ doing' = [doing EXCEPT ![t] = IF c.op = "swap" THEN "take" ELSE c.op]
            /\ Goto(t, "idle", IF c.op = "swap" THEN "swap_enter" ELSE "enter")
      BY <1>1 DEF Call
    <2>2. c \in [op : Ops, val : Values]
      BY DEF MVarAssumption
    <2>3. QED
      BY <1>1, <2>1, <2>2 DEF Call
  <1>2. ASSUME NEW t \in Threads, SwapEnter(t) PROVE RefInv'
    BY <1>2 DEF SwapEnter, M!Acquire, M!Free
  <1>3. ASSUME NEW t \in Threads, Enter(t) PROVE RefInv'
    BY <1>3 DEF Enter, M!Acquire, M!Free
  <1>4. ASSUME NEW t \in Threads, Wait(t) PROVE RefInv'
    BY <1>4 DEF Wait, M!Sleep
  <1>5. ASSUME NEW t \in Threads, Spurious(t) PROVE RefInv'
    BY <1>5 DEF Spurious, M!Wake
  <1>6. ASSUME NEW t \in Threads, Resume(t) PROVE RefInv'
    BY <1>6 DEF Resume, M!Resume, M!Free
  <1>7. ASSUME NEW t \in Threads, Refuse(t) PROVE RefInv'
    BY <1>7 DEF Refuse
  <1>8. ASSUME NEW t \in Threads, Pass(t) PROVE RefInv'
    BY <1>8 DEF Pass
  <1>9. ASSUME NEW t \in Threads, Take(t) PROVE RefInv'
    BY <1>9 DEF Take, MVarAssumption
  <1>10. ASSUME NEW t \in Threads, Put(t) PROVE RefInv'
    <2> USE <1>10 DEF Put
    <2>1. ASSUME NEW u \in Threads, u # t PROVE ~M!Holds(u) /\ ~MidSwap(u) /\ pc[u] # "effect"
      BY <2>1
    <2>2. MidInv' /\ PassInv'
      BY <2>1
    <2>3. RetInv'
      BY <2>1
    <2>4. QED
      BY <2>2, <2>3
  <1>11. ASSUME NEW t \in Threads, Read(t) PROVE RefInv'
    BY <1>11 DEF Read
  <1>12. ASSUME NEW t \in Threads, Leave(t) PROVE RefInv'
    BY <1>12 DEF Leave, M!Release
  <1>13. ASSUME NEW t \in Threads, Unlock(t) PROVE RefInv'
    BY <1>13 DEF Unlock, M!Release
  <1>14. ASSUME NEW t \in Threads, NotifyAll(t) PROVE RefInv'
    <2>1. /\ room' = [u \in Threads |-> IF room[u] = "asleep" THEN "woken" ELSE room[u]]
          /\ UNCHANGED <<depth, p, call, ret>>
      BY <1>14 DEF NotifyAll, WakeAll, M!Wake
    <2>2. CASE ~Swapping(t)
      <3>1. pc[t] = "notify" /\ pc' = [pc EXCEPT ![t] = "idle"] /\ doing' = doing
        BY <1>14, <2>2 DEF NotifyAll
      <3>2. QED
        BY <2>1, <2>2, <3>1
    <2>3. CASE Swapping(t) /\ doing[t] = "take"
      <3>1. /\ pc[t] = "notify" /\ pc' = [pc EXCEPT ![t] = "enter"]
            /\ doing' = [doing EXCEPT ![t] = "put"]
        BY <1>14, <2>3 DEF NotifyAll
      <3>2. QED
        BY <2>1, <2>3, <3>1
    <2>4. CASE Swapping(t) /\ doing[t] # "take"
      <3>1. pc[t] = "notify" /\ pc' = [pc EXCEPT ![t] = "swap_unlock"] /\ doing' = doing
        BY <1>14, <2>4 DEF NotifyAll
      <3>2. QED
        BY <2>1, <2>4, <3>1
    <2>5. QED
      BY <2>2, <2>3, <2>4
  <1>15. ASSUME NEW t \in Threads, SwapUnlock(t) PROVE RefInv'
    BY <1>15 DEF SwapUnlock, M!Release
  <1>16. ASSUME NEW t \in Threads, SwapNotifyAll(t) PROVE RefInv'
    BY <1>16 DEF SwapNotifyAll, WakeAll, M!Wake
  <1>17. CASE UNCHANGED vars
    BY <1>17 DEF vars
  <1>18. QED
    BY <1>1, <1>2, <1>3, <1>4, <1>5, <1>6, <1>7, <1>8, <1>9, <1>10, <1>11, <1>12, <1>13,
       <1>14, <1>15, <1>16, <1>17
    DEF Next, Step

\* What the refinement mapping makes of a state.
Cell ==
  IF \E t \in Threads : MidSwap(t) THEN ret[CHOOSE t \in Threads : MidSwap(t)] ELSE p
Stage ==
  [t \in Threads |-> IF pc[t] = "idle" THEN "idle" ELSE IF PastEffect(t) THEN "done" ELSE "called"]
Results == [t \in Threads |-> IF MidSwap(t) THEN Empty ELSE ret[t]]

CellInv ==
  /\ \A t \in Threads : MidSwap(t) => Cell = ret[t]
  /\ (\A t \in Threads : ~MidSwap(t)) => Cell = p

LEMMA CellIs == Inv /\ RefInv => CellInv
  <1> SUFFICES ASSUME Inv, RefInv PROVE CellInv
    OBVIOUS
  <1>1. ASSUME NEW t \in Threads, MidSwap(t) PROVE Cell = ret[t]
    <2> DEFINE u == CHOOSE u \in Threads : MidSwap(u)
    <2>1. u \in Threads /\ MidSwap(u)
      BY <1>1
    <2>2. u = t
      BY <1>1, <2>1 DEF Inv, RefInv, MidInv, LockInv
    <2>3. Cell = ret[u]
      BY <1>1 DEF Cell
    <2>4. QED
      BY <2>2, <2>3
  <1>2. ASSUME \A t \in Threads : ~MidSwap(t) PROVE Cell = p
    BY <1>2 DEF Cell
  <1>3. QED
    BY <1>1, <1>2 DEF CellInv

LEMMA AbstractInit == Init => Abstract!Init
  <1> SUFFICES ASSUME Init PROVE Abstract!Init
    OBVIOUS
  <1>1. \A t \in Threads : ~MidSwap(t)
    BY DEF Init, MidSwap
  <1>2. QED
    BY <1>1 DEF Init, Abstract!Init

\* What a step of t leaves as it is of every other caller.
Apart(t) ==
  \A u \in Threads \ {t} :
    /\ pc'[u] = pc[u] /\ call'[u] = call[u] /\ doing'[u] = doing[u] /\ ret'[u] = ret[u]

\* The effect of t as the mapping shows it.
Yields(t, content, result) ==
  /\ Stage[t] = "called" /\ Stage' = [Stage EXCEPT ![t] = "done"]
  /\ Cell' = content
  /\ Results' = [Results EXCEPT ![t] = result]
  /\ UNCHANGED call

LEMMA Others ==
  ASSUME NEW t \in Threads, Apart(t), NEW u \in Threads \ {t}
  PROVE  /\ MidSwap(u)' <=> MidSwap(u)
         /\ PastEffect(u)' <=> PastEffect(u)
         /\ pc'[u] = pc[u] /\ ret'[u] = ret[u]
  BY DEF Apart, MidSwap, PastEffect, Swapping

LEMMA NextFrame ==
  ASSUME Types, Types', NEW t \in Threads, Call(t) \/ Spurious(t) \/ Step(t)
  PROVE  Apart(t)
  BY DEF Types, Call, Spurious, Step, SwapEnter, Enter, Wait, Resume, Refuse, Pass, Take, Put, Read,
     Leave, Unlock, NotifyAll, SwapUnlock, SwapNotifyAll, Goto, Result, Apart

\* A step of t that changes neither the cell nor where t is to the others.
LEMMA Stutters ==
  ASSUME Inv, RefInv, Inv', RefInv', NEW t \in Threads, Apart(t),
         MidSwap(t)' <=> MidSwap(t), PastEffect(t)' <=> PastEffect(t),
         pc'[t] = "idle" <=> pc[t] = "idle", UNCHANGED <<p, call, ret>>
  PROVE  UNCHANGED <<Cell, Stage, call, Results>>
  <1>1. \A u \in Threads :
          /\ MidSwap(u)' <=> MidSwap(u)
          /\ PastEffect(u)' <=> PastEffect(u)
          /\ pc'[u] = "idle" <=> pc[u] = "idle"
    BY Others
  <1>2. CellInv /\ CellInv'
    BY CellIs, PTL
  <1>3. Cell' = Cell
    BY <1>1, <1>2 DEF CellInv
  <1>4. Stage' = Stage /\ Results' = Results
    BY <1>1 DEF Stage, Results
  <1>5. QED
    BY <1>3, <1>4

\* A step of t, who has the lock, from before its effect to past it.
LEMMA Effects ==
  ASSUME Inv, RefInv, Inv', RefInv', NEW t \in Threads, Apart(t), UNCHANGED call,
         M!Holds(t), ~MidSwap(t)', ~PastEffect(t), PastEffect(t)',
         pc[t] # "idle", pc'[t] # "idle"
  PROVE  /\ Yields(t, p', ret'[t])
         /\ Cell = IF MidSwap(t) THEN ret[t] ELSE p
  <1>1. \A u \in Threads \ {t} : ~MidSwap(u)
    BY DEF Inv, RefInv, MidInv, LockInv
  <1>2. Cell = IF MidSwap(t) THEN ret[t] ELSE p
    BY <1>1, CellIs DEF CellInv
  <1>3. \A u \in Threads : ~MidSwap(u)'
    BY <1>1, Others
  <1>4. CellInv'
    BY CellIs, PTL
  <1>5. Stage[t] = "called" /\ Stage' = [Stage EXCEPT ![t] = "done"]
    BY Others DEF Stage
  <1>6. Results' = [Results EXCEPT ![t] = ret'[t]]
    BY Others DEF Results
  <1>7. QED
    BY <1>2, <1>3, <1>4, <1>5, <1>6 DEF Yields, CellInv

\* A step of t from past its effect to its return.
LEMMA Returns ==
  ASSUME Inv, RefInv, Inv', RefInv', NEW t \in Threads, Apart(t), UNCHANGED <<p, call, ret>>,
         PastEffect(t), pc[t] # "idle", pc'[t] = "idle", ~MidSwap(t), ~MidSwap(t)'
  PROVE  Abstract!Return(t)
  <1>1. \A u \in Threads : MidSwap(u)' <=> MidSwap(u)
    BY Others
  <1>2. CellInv /\ CellInv'
    BY CellIs, PTL
  <1>3. Cell' = Cell
    BY <1>1, <1>2 DEF CellInv
  <1>4. Stage[t] = "done" /\ Stage' = [Stage EXCEPT ![t] = "idle"]
    BY Others DEF Stage
  <1>5. Results' = Results
    BY <1>1 DEF Results
  <1>6. QED
    BY <1>3, <1>4, <1>5 DEF Abstract!Return, Cell, Stage, Results

\* SyncCell's effect in these terms.
LEMMA AbstractEffect ==
  ASSUME NEW t \in Threads,
         \/ call[t].op = "take" /\ Cell # Empty /\ Yields(t, Empty, Cell)
         \/ call[t].op = "put" /\ Cell = Empty /\ Yields(t, call[t].val, Empty)
         \/ call[t].op = "read" /\ Cell # Empty /\ Yields(t, Cell, Cell)
         \/ call[t].op = "swap" /\ Cell # Empty /\ Yields(t, call[t].val, Cell)
         \/ call[t].op = "try_take" /\ Cell # Empty /\ Yields(t, Empty, Cell)
         \/ call[t].op = "try_take" /\ Cell = Empty /\ Yields(t, Cell, FALSE)
         \/ call[t].op = "try_put" /\ Cell = Empty /\ Yields(t, call[t].val, TRUE)
         \/ call[t].op = "try_put" /\ Cell # Empty /\ Yields(t, Cell, FALSE)
  PROVE  Abstract!Effect(t)
  BY DEF Abstract!Effect, Abstract!Yield, Yields, Cell, Stage, Results

LEMMA AbstractNext ==
  MVarAssumption /\ Inv /\ RefInv /\ Inv' /\ RefInv' /\ [Next]_vars
    => [Abstract!Next]_(Abstract!vars)
  <1> SUFFICES ASSUME MVarAssumption, Inv, RefInv, Inv', RefInv', [Next]_vars
               PROVE  [Abstract!Next]_(Abstract!vars)
    OBVIOUS
  <1> DEFINE Stutter == UNCHANGED <<Cell, Stage, call, Results>>
  <1>f. ASSUME NEW t \in Threads, Call(t) \/ Spurious(t) \/ Step(t) PROVE Apart(t)
    BY <1>f, NextFrame DEF Inv
  <1>1. ASSUME NEW t \in Threads, Call(t) PROVE \E c \in CallsOf[t] : Abstract!Invoke(t, c)
    <2> Apart(t)
      BY <1>1, <1>f
    <2>1. PICK c \in CallsOf[t] :
            /\ call' = [call EXCEPT ![t] = c]
            /\ Goto(t, "idle", IF c.op = "swap" THEN "swap_enter" ELSE "enter")
            /\ doing' = [doing EXCEPT ![t] = IF c.op = "swap" THEN "take" ELSE c.op]
      BY <1>1 DEF Call
    <2>2. ~MidSwap(t) /\ ~MidSwap(t)' /\ ~PastEffect(t)'
      BY <2>1 DEF Inv, Types, Goto, MidSwap, PastEffect, Swapping
    <2>3. ret' = [ret EXCEPT ![t] = Empty] /\ p' = p
      BY <1>1 DEF Call, Result
    <2>4. Cell' = Cell
      <3>1. \A u \in Threads : (MidSwap(u)' <=> MidSwap(u)) /\ (MidSwap(u) => ret'[u] = ret[u])
        BY <2>2, Others
      <3>2. CellInv /\ CellInv'
        BY CellIs, PTL
      <3>3. QED
        BY <3>1, <3>2, <2>3 DEF CellInv
    <2>5. Stage[t] = "idle" /\ Stage' = [Stage EXCEPT ![t] = "called"]
      <3>1. pc[t] = "idle" /\ pc'[t] # "idle"
        BY <2>1 DEF Goto, Inv, Types
      <3>2. QED
        BY <3>1, <2>2, Others DEF Stage
    <2>6. Results' = [Results EXCEPT ![t] = Empty]
      BY <2>2, <2>3, Others DEF Results, Inv, Types
    <2>7. QED
      BY <2>1, <2>4, <2>5, <2>6 DEF Abstract!Invoke, Cell, Stage, Results
  <1>2. ASSUME NEW t \in Threads,
               \/ SwapEnter(t) \/ Enter(t) \/ Wait(t) \/ Spurious(t) \/ Resume(t) \/ Pass(t)
               \/ Unlock(t) \/ SwapUnlock(t) \/ (NotifyAll(t) /\ Swapping(t))
        PROVE  Stutter
    <2>1. Apart(t)
      BY <1>2, <1>f DEF Step
    <2>2. UNCHANGED <<p, call, ret>>
      BY <1>2 DEF SwapEnter, Enter, Wait, Spurious, Resume, Pass, Unlock, SwapUnlock, NotifyAll
    <2> USE DEF Inv, Types, CallInv, MidSwap, PastEffect, Swapping, Goto
    <2>3. /\ MidSwap(t)' <=> MidSwap(t)
          /\ PastEffect(t)' <=> PastEffect(t)
          /\ pc'[t] = "idle" <=> pc[t] = "idle"
      <3>1. CASE SwapEnter(t) \/ Enter(t)
        BY <3>1, <2>2 DEF SwapEnter, Enter
      <3>2. CASE Wait(t)
        BY <3>2, <2>2 DEF Wait, Blocked, RefInv, MidInv
      <3>3. CASE Spurious(t) \/ Resume(t) \/ Pass(t)
        BY <3>3, <2>2 DEF Spurious, Resume, Pass
      <3>4. CASE Unlock(t) \/ SwapUnlock(t)
        BY <3>4, <2>2 DEF Unlock, SwapUnlock
      <3>5. CASE NotifyAll(t) /\ Swapping(t) /\ doing[t] = "take"
        BY <3>5, <2>2 DEF NotifyAll
      <3>6. CASE NotifyAll(t) /\ Swapping(t) /\ doing[t] # "take"
        BY <3>6, <2>2 DEF NotifyAll
      <3>7. QED
        BY <1>2, <3>1, <3>2, <3>3, <3>4, <3>5, <3>6
    <2>4. QED
      BY <2>1, <2>2, <2>3, Stutters
  <1>3. ASSUME NEW t \in Threads, Take(t), Swapping(t) PROVE Stutter
    <2>1. Apart(t)
      BY <1>3, <1>f DEF Step
    <2>2. /\ M!Holds(t) /\ ~MidSwap(t) /\ MidSwap(t)' /\ ~PastEffect(t) /\ ~PastEffect(t)'
          /\ ret[t] = Empty /\ ret'[t] = p /\ UNCHANGED call
      BY <1>3 DEF Take, Inv, Types, CallInv, RoomInv, Inner, Outer, MidSwap, PastEffect, Swapping,
        Goto, Result, RefInv, RetInv, M!Holds, M!TypeOK
    <2>3. \A u \in Threads \ {t} : ~MidSwap(u) /\ ~MidSwap(u)'
      BY <2>1, <2>2, Others DEF Inv, RefInv, MidInv, LockInv
    <2>4. CellInv /\ CellInv'
      BY CellIs, PTL
    <2>5. Cell' = Cell
      BY <2>2, <2>3, <2>4 DEF CellInv
    <2>6. Stage' = Stage
      BY <1>3, <2>1, <2>2, Others DEF Stage, Take, Goto, Inv, Types
    <2>7. Results' = Results
      BY <2>1, <2>2, <2>3, Others DEF Results
    <2>8. QED
      BY <2>2, <2>5, <2>6, <2>7
  <1>4. ASSUME NEW t \in Threads, Take(t), ~Swapping(t) PROVE Abstract!Effect(t)
    <2> USE DEF Take, Inv, Types, CallInv, MidSwap, PastEffect, Swapping, Goto, Result
    <2>1. Apart(t)
      BY <1>4, <1>f DEF Step
    <2>2. /\ M!Holds(t) /\ ~MidSwap(t) /\ ~MidSwap(t)' /\ ~PastEffect(t) /\ PastEffect(t)'
          /\ pc[t] # "idle" /\ pc'[t] # "idle" /\ UNCHANGED call
      BY <1>4 DEF RoomInv, Inner, Outer, M!Holds, M!TypeOK
    <2>3. Yields(t, Empty, p) /\ Cell = p /\ p' = Empty
      BY <1>4, <2>1, <2>2, Effects
    <2>4. call[t].op \in {"take", "try_take"} /\ p # Empty
      BY <1>4 DEF RefInv, PassInv, Blocked, Refused
    <2>5. QED
      BY <2>3, <2>4, AbstractEffect
  <1>5. ASSUME NEW t \in Threads, Put(t) PROVE Abstract!Effect(t)
    <2> USE DEF Put, Inv, Types, CallInv, MidSwap, PastEffect, Swapping, Goto, Result
    <2>1. Apart(t)
      BY <1>5, <1>f DEF Step
    <2>2. /\ M!Holds(t) /\ ~MidSwap(t)' /\ ~PastEffect(t) /\ PastEffect(t)'
          /\ pc[t] # "idle" /\ pc'[t] # "idle" /\ UNCHANGED call
      BY <1>5 DEF RoomInv, Inner, Outer, M!Holds, M!TypeOK
    <2>3. Yields(t, call[t].val, ret'[t]) /\ Cell = IF MidSwap(t) THEN ret[t] ELSE p
      BY <1>5, <2>1, <2>2, Effects
    <2>4. p = Empty
      BY <1>5 DEF RefInv, PassInv, Blocked, Refused
    <2>5. CASE Swapping(t)
      <3>1. /\ call[t].op = "swap"
            /\ Yields(t, call[t].val, Cell) /\ Cell # Empty
        <4>1. MidSwap(t) /\ call[t].op = "swap" /\ ret'[t] = ret[t]
          BY <1>5, <2>5
        <4>2. Cell = ret[t]
          BY <2>3, <4>1
        <4>3. ret[t] \in Values
          BY <4>1 DEF RefInv, MidInv
        <4>4. QED
          BY <2>3, <4>1, <4>2, <4>3 DEF MVarAssumption
      <3>2. QED
        BY <3>1, AbstractEffect
    <2>6. CASE ~Swapping(t)
      <3>1. Cell = Empty /\ call[t].op = doing[t]
        BY <1>5, <2>3, <2>4, <2>6
      <3>2. call[t].op = "put" => ret'[t] = Empty
        BY <1>5, <2>6, <3>1 DEF RefInv, RetInv
      <3>3. call[t].op = "try_put" => ret'[t] = TRUE
        BY <1>5, <3>1
      <3>4. call[t].op \in {"put", "try_put"}
        BY <1>5, <3>1
      <3>5. \/ call[t].op = "put" /\ Yields(t, call[t].val, Empty)
            \/ call[t].op = "try_put" /\ Yields(t, call[t].val, TRUE)
        BY <2>3, <3>2, <3>3, <3>4
      <3>6. QED
        BY <3>1, <3>5, AbstractEffect
    <2>7. QED
      BY <2>5, <2>6
  <1>6. ASSUME NEW t \in Threads, Read(t) PROVE Abstract!Effect(t)
    <2> USE DEF Read, Inv, Types, CallInv, MidSwap, PastEffect, Swapping, Goto, Result
    <2>1. Apart(t)
      BY <1>6, <1>f DEF Step
    <2>2. /\ M!Holds(t) /\ ~MidSwap(t) /\ ~MidSwap(t)' /\ ~PastEffect(t) /\ PastEffect(t)'
          /\ pc[t] # "idle" /\ pc'[t] # "idle" /\ UNCHANGED call
      BY <1>6 DEF RoomInv, Inner, Outer, M!Holds, M!TypeOK
    <2>3. Yields(t, p, p) /\ Cell = p
      BY <1>6, <2>1, <2>2, Effects
    <2>4. call[t].op = "read" /\ p # Empty
      BY <1>6 DEF RefInv, PassInv, Blocked
    <2>5. QED
      BY <2>3, <2>4, AbstractEffect
  <1>7. ASSUME NEW t \in Threads, Refuse(t) PROVE Abstract!Effect(t)
    <2> USE DEF Refuse, Refused, Inv, Types, CallInv, MidSwap, PastEffect, Swapping, Goto, Result
    <2>1. Apart(t)
      BY <1>7, <1>f DEF Step
    <2>2. /\ M!Holds(t) /\ ~MidSwap(t) /\ ~MidSwap(t)' /\ ~PastEffect(t) /\ PastEffect(t)'
          /\ pc[t] # "idle" /\ pc'[t] # "idle" /\ UNCHANGED call
      BY <1>7 DEF RoomInv, Inner, Outer, M!Holds, M!TypeOK
    <2>3. Yields(t, p, FALSE) /\ Cell = p
      BY <1>7, <2>1, <2>2, Effects
    <2>4. \/ call[t].op = "try_take" /\ p = Empty
          \/ call[t].op = "try_put" /\ p # Empty
      BY <1>7
    <2>5. QED
      BY <2>3, <2>4, AbstractEffect
  <1>8. ASSUME NEW t \in Threads, Leave(t) \/ SwapNotifyAll(t) \/ (NotifyAll(t) /\ ~Swapping(t))
        PROVE  Abstract!Return(t)
    <2>1. Apart(t)
      BY <1>8, <1>f DEF Step
    <2>2. /\ UNCHANGED <<p, call, ret>>
          /\ pc[t] \in {"leave", "swap_notify", "notify"} /\ pc' = [pc EXCEPT ![t] = "idle"]
          /\ pc[t] = "notify" => ~Swapping(t)
      BY <1>8 DEF Leave, SwapNotifyAll, NotifyAll, Goto
    <2>3. PastEffect(t) /\ ~MidSwap(t) /\ ~MidSwap(t)' /\ pc[t] # "idle" /\ pc'[t] = "idle"
      BY <2>2 DEF Inv, Types, CallInv, MidSwap, PastEffect, Swapping
    <2>4. QED
      BY <2>1, <2>2, <2>3, Returns
  <1>9. ASSUME Stutter PROVE UNCHANGED Abstract!vars
    BY <1>9 DEF Abstract!vars, Cell, Stage, Results
  <1>10. CASE UNCHANGED vars
    BY <1>10 DEF vars, Abstract!vars, MidSwap, PastEffect, Swapping
  <1>11. CASE Next
    <2>1. PICK t \in Threads : Call(t) \/ Spurious(t) \/ Step(t)
      BY <1>11 DEF Next
    <2>2. \/ \E c \in CallsOf[t] : Abstract!Invoke(t, c)
          \/ Abstract!Effect(t) \/ Abstract!Return(t)
          \/ Stutter
      <3>1. CASE Call(t)
        BY <3>1, <1>1
      <3>2. CASE Spurious(t)
        BY <3>2, <1>2
      <3>3. CASE Step(t)
        BY <3>3, <1>2, <1>3, <1>4, <1>5, <1>6, <1>7, <1>8 DEF Step
      <3>4. QED
        BY <2>1, <3>1, <3>2, <3>3
    <2>3. QED
      BY <2>2, <1>9 DEF Abstract!Next
  <1>12. QED
    BY <1>10, <1>11

\* mvar is the linearizable cell of SyncCell for any callers: every call, swap()
\* included, takes effect at one instant between its call and its return, although
\* swap() is a take() and a put() and take() may wait inside it.
THEOREM Refinement == ASSUME MVarAssumption PROVE Spec => ImplementsSyncCell
  <1>1. Init => Inv /\ RefInv
    BY InvInit, RefInit
  <1>2. Inv /\ RefInv /\ [Next]_vars => Inv' /\ RefInv'
    BY InvNext, RefNext
  <1>3. Inv /\ RefInv /\ Inv' /\ RefInv' /\ [Next]_vars => [Abstract!Next]_(Abstract!vars)
    BY AbstractNext
  <1>4. QED
    BY <1>1, <1>2, <1>3, AbstractInit, PTL DEF Spec, ImplementsSyncCell, Abstract!Spec
===============================================================================
