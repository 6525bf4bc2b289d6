------------------------------ MODULE ChanProofs ------------------------------
(***************************************************************************)
(* Proofs about Chan, for any chans, threads and messages: no lost wakeup; *)
(* and the one sequence of messages that Broadcast states.                 *)
(***************************************************************************)
EXTENDS Chan, FiniteSetTheorems, TLAPS

Putting == {"put_lock", "put_push", "put_unlock", "put_notify"}

LEMMA Kinds ==
  /\ Writers \subseteq Threads /\ Linkers \subseteq Threads /\ Readers \subseteq Threads
  /\ Writers \cap Linkers = {} /\ Writers \cap Readers = {} /\ Linkers \cap Readers = {}
  /\ Nobody \notin Threads
  BY ChanAssumption DEF Threads

Types ==
  /\ cs \subseteq Chans
  /\ dat \in [Chans -> Seq(Nat)]
  /\ asleep \subseteq Readers
  /\ pc \in [Threads -> Labels]
  /\ via \in [Threads -> Chans]
  /\ at \in [Threads -> Chans]
  /\ todo \in [Threads -> SUBSET Chans]
  /\ written \in Nat
  /\ held \in [Readers -> Nat]

\* Who is between taking the link's mutex and giving it back owns it.
Linking == Putting \cup {"write_next", "dup_insert", "drop_erase", "link_unlock"}
LinkInv == \A t \in Threads : pc[t] \in Linking => linkOwner = t

\* A write() under way comes to linked chans only, once to each.
WriteInv ==
  \A t \in Writers :
    /\ todo[t] # {} => pc[t] \in Putting \cup {"write_next"}
    /\ todo[t] \subseteq cs
    /\ pc[t] \in Putting => at[t] \in cs
    /\ pc[t] \in {"put_lock", "put_push"} => at[t] \notin todo[t]

\* A chan that is being destroyed is in nobody's call, and one in a reader's is linked.
Dropping == {"drop_lock", "drop_erase"}
UseInv ==
  \A r \in Readers :
    /\ via[r] = ReadsFrom[r]
    /\ Busy(r) => via[r] \in cs
    /\ \A u \in Linkers : pc[u] \in Dropping /\ Busy(r) => via[r] # at[u]
    /\ pc[r] = "read_pop" => dat[via[r]] # <<>>
    /\ pc[r] \in {"unget_lock", "unget_push"} => held[r] # 0

\* What is not linked holds nothing.
GoneInv == \A c \in Chans \ cs : dat[c] = <<>>

Control == Types /\ LinkInv /\ WriteInv /\ UseInv /\ GoneInv

-----------------------------------------------------------------------------

LEMMA ControlInit == Init => Control
  BY Kinds, ChanAssumption
  DEF Init, Control, Types, Labels, LinkInv, Linking, Putting, WriteInv, UseInv, Dropping, Busy,
      GoneInv

LEMMA AppendNonEmpty == ASSUME NEW s \in Seq(Nat), NEW m \in Nat PROVE Append(s, m) # <<>>
  <1>1. Len(Append(s, m)) = Len(s) + 1 /\ Len(s) \in Nat
    OBVIOUS
  <1>2. Len(<<>>) = 0
    OBVIOUS
  <1>3. QED
    BY <1>1, <1>2

LEMMA UseKeeps ==
  ASSUME UseInv, UNCHANGED <<cs, via, at>>,
         \A u \in Linkers : pc'[u] = pc[u],
         \A r \in Readers :
           /\ Busy(r)' => Busy(r)
           /\ pc'[r] = "read_pop" =>
                pc[r] = "read_pop" /\ (dat[via[r]] # <<>> => dat'[via[r]] # <<>>)
           /\ pc'[r] \in {"unget_lock", "unget_push"} => pc'[r] = pc[r] /\ held'[r] = held[r]
  PROVE  UseInv'
  BY DEF UseInv

LEMMA ControlNext == Control /\ [Next]_vars => Control'
  <1> SUFFICES ASSUME Control, [Next]_vars PROVE Control'
    OBVIOUS
  <1> USE Kinds DEF Control, Types, Labels, LinkInv, Linking, Putting, WriteInv, UseInv, Dropping,
        Busy, GoneInv, Goto, Usable
  <1>1. ASSUME NEW t \in Writers, WriteCall(t) PROVE Control'
    BY <1>1 DEF WriteCall
  <1>2. ASSUME NEW t \in Writers, WriteLock(t) PROVE Control'
    BY <1>2 DEF WriteLock, LockLink
  <1>3. ASSUME NEW t \in Writers, WriteNext(t) PROVE Control'
    BY <1>3 DEF WriteNext
  <1>4. ASSUME NEW t \in Writers, WriteEnd(t) PROVE Control'
    BY <1>4 DEF WriteEnd
  <1>5. ASSUME NEW t \in Writers, PutLock(t) PROVE Control'
    BY <1>5 DEF PutLock
  <1>6. ASSUME NEW t \in Writers, PutPush(t) PROVE Control'
    <2> USE <1>6 DEF PutPush
    <2>1. Types'
      OBVIOUS
    <2>2. LinkInv' /\ WriteInv'
      OBVIOUS
    <2>3. UseInv'
      <3>1. ASSUME NEW c \in Chans, dat[c] # <<>> PROVE dat'[c] # <<>>
        <4>1. dat[c] \in Seq(Nat) /\ written \in Nat
          OBVIOUS
        <4>2. dat'[c] = dat[c] \/ dat'[c] = Append(dat[c], written)
          BY <3>1
        <4>3. QED
          BY <3>1, <4>1, <4>2, AppendNonEmpty
      <3>2. \A r \in Readers : pc'[r] = pc[r] /\ held'[r] = held[r] /\ via[r] \in Chans
        OBVIOUS
      <3>3. \A u \in Linkers : pc'[u] = pc[u]
        OBVIOUS
      <3>4. QED
        BY <3>1, <3>2, <3>3, UseKeeps
    <2>4. GoneInv'
      OBVIOUS
    <2>5. QED
      BY <2>1, <2>2, <2>3, <2>4
  <1>7. ASSUME NEW t \in Writers, PutUnlock(t) PROVE Control'
    BY <1>7 DEF PutUnlock
  <1>8. ASSUME NEW t \in Writers, PutNotify(t) PROVE Control'
    BY <1>8 DEF PutNotify, NotifyAll
  <1>9. ASSUME NEW t \in Linkers, DupCall(t) PROVE Control'
    BY <1>9 DEF DupCall
  <1>10. ASSUME NEW t \in Linkers, DupLock(t) PROVE Control'
    BY <1>10 DEF DupLock, LockLink
  <1>11. ASSUME NEW t \in Linkers, DupInsert(t) PROVE Control'
    BY <1>11 DEF DupInsert
  <1>12. ASSUME NEW t \in Linkers, LinkUnlock(t) PROVE Control'
    BY <1>12 DEF LinkUnlock
  <1>13. ASSUME NEW t \in Linkers, DropCall(t) PROVE Control'
    <2> USE <1>13 DEF DropCall, Unused, Threads
    <2>1. Types'
      OBVIOUS
    <2>2. LinkInv' /\ WriteInv'
      OBVIOUS
    <2>3. UseInv'
      <3>1. ASSUME NEW r \in Readers PROVE pc'[r] = pc[r] /\ via'[r] = via[r]
        OBVIOUS
      <3>2. ASSUME NEW r \in Readers, Busy(r) PROVE via[r] # at'[t]
        BY <3>2
      <3>3. ASSUME NEW u \in Linkers, u # t PROVE pc'[u] = pc[u] /\ at'[u] = at[u]
        BY <3>3
      <3>4. QED
        BY <3>1, <3>2, <3>3
    <2>4. GoneInv'
      OBVIOUS
    <2>5. QED
      BY <2>1, <2>2, <2>3, <2>4
  <1>14. ASSUME NEW t \in Linkers, DropLock(t) PROVE Control'
    BY <1>14 DEF DropLock, LockLink
  <1>15. ASSUME NEW t \in Linkers, DropErase(t) PROVE Control'
    BY <1>15 DEF DropErase
  <1>16. ASSUME NEW t \in Readers, ReadCall(t) PROVE Control'
    BY <1>16 DEF ReadCall
  <1>17. ASSUME NEW t \in Readers, ReadLock(t) PROVE Control'
    BY <1>17 DEF ReadLock
  <1>18. ASSUME NEW t \in Readers, ReadWait(t) PROVE Control'
    BY <1>18 DEF ReadWait
  <1>19. ASSUME NEW t \in Readers, Spurious(t) PROVE Control'
    BY <1>19 DEF Spurious
  <1>20. ASSUME NEW t \in Readers, ReadResume(t) PROVE Control'
    BY <1>20 DEF ReadResume
  <1>21. ASSUME NEW t \in Readers, ReadPass(t) PROVE Control'
    BY <1>21 DEF ReadPass
  <1>22. ASSUME NEW t \in Readers, ReadPop(t) PROVE Control'
    <2> USE <1>22 DEF ReadPop
    <2>1. Types'
      OBVIOUS
    <2>2. LinkInv' /\ WriteInv'
      OBVIOUS
    <2>3. UseInv'
      <3>1. ASSUME NEW r \in Readers, r # t
            PROVE  /\ pc'[r] = pc[r] /\ via'[r] = via[r] /\ held'[r] = held[r]
                   /\ dat'[via[r]] = dat[via[r]]
        BY <3>1, ChanAssumption
      <3>2. via'[t] = via[t] /\ pc[t] = "read_pop" /\ pc'[t] = "read_unlock"
        OBVIOUS
      <3>3. UNCHANGED <<cs, at>> /\ \A u \in Linkers : pc'[u] = pc[u]
        OBVIOUS
      <3>4. QED
        BY <3>1, <3>2, <3>3, UseKeeps
    <2>4. GoneInv'
      OBVIOUS
    <2>5. QED
      BY <2>1, <2>2, <2>3, <2>4
  <1>23. ASSUME NEW t \in Readers, ReadUnlock(t) PROVE Control'
    BY <1>23 DEF ReadUnlock
  <1>24. ASSUME NEW t \in Readers, UngetCall(t) PROVE Control'
    BY <1>24 DEF UngetCall
  <1>25. ASSUME NEW t \in Readers, UngetLock(t) PROVE Control'
    BY <1>25 DEF UngetLock
  <1>26. ASSUME NEW t \in Readers, UngetPush(t) PROVE Control'
    BY <1>26 DEF UngetPush
  <1>27. ASSUME NEW t \in Readers, UngetUnlock(t) PROVE Control'
    BY <1>27 DEF UngetUnlock
  <1>28. ASSUME NEW t \in Readers, UngetNotify(t) PROVE Control'
    BY <1>28 DEF UngetNotify, NotifyAll
  <1>29. CASE UNCHANGED vars
    BY <1>29 DEF vars
  <1>30. QED
    BY <1>1, <1>2, <1>3, <1>4, <1>5, <1>6, <1>7, <1>8, <1>9, <1>10, <1>11, <1>12, <1>13,
       <1>14, <1>15, <1>16, <1>17, <1>18, <1>19, <1>20, <1>21, <1>22, <1>23, <1>24,
       <1>25, <1>26, <1>27, <1>28, <1>29
    DEF Next, WriteStep, LinkStep, ReadStep

-----------------------------------------------------------------------------
(* Wakeups *)

\* Who has put or ungot and has still to notify does so yet, and nobody new sleeps.
Quiet ==
  /\ \A u \in Writers :
       pc[u] \in {"put_unlock", "put_notify"} =>
         pc'[u] \in {"put_unlock", "put_notify"} /\ at'[u] = at[u]
  /\ \A u \in Readers :
       /\ via'[u] = via[u]
       /\ pc[u] \in {"unget_unlock", "unget_notify"} =>
            pc'[u] \in {"unget_unlock", "unget_notify"}
  /\ asleep' \subseteq asleep
  /\ \A c \in Chans : dat'[c] # <<>> => dat[c] # <<>>

LEMMA QuietKeeps == ASSUME Types, Quiet, NoLostWakeup PROVE NoLostWakeup'
  <1> SUFFICES ASSUME NEW t \in asleep', dat'[via'[t]] # <<>>
               PROVE  \/ \E u \in Writers :
                           at'[u] = via'[t] /\ pc'[u] \in {"put_unlock", "put_notify"}
                      \/ \E u \in Readers :
                           via'[u] = via'[t] /\ pc'[u] \in {"unget_unlock", "unget_notify"}
    BY DEF NoLostWakeup
  <1>1. t \in asleep /\ t \in Readers /\ via'[t] = via[t]
    BY DEF Quiet, Types
  <1>2. dat[via[t]] # <<>>
    BY <1>1, Kinds DEF Quiet, Types
  <1>3. CASE \E u \in Writers : at[u] = via[t] /\ pc[u] \in {"put_unlock", "put_notify"}
    BY <1>1, <1>3 DEF Quiet
  <1>4. CASE \E u \in Readers : via[u] = via[t] /\ pc[u] \in {"unget_unlock", "unget_notify"}
    BY <1>1, <1>4 DEF Quiet
  <1>5. QED
    BY <1>1, <1>2, <1>3, <1>4 DEF NoLostWakeup

LEMMA WakeNext == Control /\ NoLostWakeup /\ [Next]_vars => NoLostWakeup'
  <1> SUFFICES ASSUME Control, NoLostWakeup, [Next]_vars PROVE NoLostWakeup'
    OBVIOUS
  <1> USE Kinds DEF Control, Types, Labels, Goto, Quiet
  <1>1. ASSUME NEW t \in Writers, WriteCall(t) PROVE NoLostWakeup'
    <2>1. Quiet
      BY <1>1 DEF WriteCall
    <2>2. QED
      BY <2>1, QuietKeeps
  <1>2. ASSUME NEW t \in Writers, WriteLock(t) PROVE NoLostWakeup'
    <2>1. Quiet
      BY <1>2 DEF WriteLock, LockLink
    <2>2. QED
      BY <2>1, QuietKeeps
  <1>3. ASSUME NEW t \in Writers, WriteNext(t) PROVE NoLostWakeup'
    <2>1. Quiet
      BY <1>3 DEF WriteNext
    <2>2. QED
      BY <2>1, QuietKeeps
  <1>4. ASSUME NEW t \in Writers, WriteEnd(t) PROVE NoLostWakeup'
    <2>1. Quiet
      BY <1>4 DEF WriteEnd
    <2>2. QED
      BY <2>1, QuietKeeps
  <1>5. ASSUME NEW t \in Writers, PutLock(t) PROVE NoLostWakeup'
    <2>1. Quiet
      BY <1>5 DEF PutLock
    <2>2. QED
      BY <2>1, QuietKeeps
  <1>6. ASSUME NEW t \in Writers, PutPush(t) PROVE NoLostWakeup'
    BY <1>6 DEF PutPush, NoLostWakeup
  <1>7. ASSUME NEW t \in Writers, PutUnlock(t) PROVE NoLostWakeup'
    <2>1. Quiet
      BY <1>7 DEF PutUnlock
    <2>2. QED
      BY <2>1, QuietKeeps
  <1>8. ASSUME NEW t \in Writers, PutNotify(t) PROVE NoLostWakeup'
    BY <1>8 DEF PutNotify, NotifyAll, NoLostWakeup
  <1>9. ASSUME NEW t \in Linkers, DupCall(t) PROVE NoLostWakeup'
    <2>1. Quiet
      BY <1>9 DEF DupCall
    <2>2. QED
      BY <2>1, QuietKeeps
  <1>10. ASSUME NEW t \in Linkers, DupLock(t) PROVE NoLostWakeup'
    <2>1. Quiet
      BY <1>10 DEF DupLock, LockLink
    <2>2. QED
      BY <2>1, QuietKeeps
  <1>11. ASSUME NEW t \in Linkers, DupInsert(t) PROVE NoLostWakeup'
    <2>1. Quiet
      BY <1>11 DEF DupInsert
    <2>2. QED
      BY <2>1, QuietKeeps
  <1>12. ASSUME NEW t \in Linkers, LinkUnlock(t) PROVE NoLostWakeup'
    <2>1. Quiet
      BY <1>12 DEF LinkUnlock
    <2>2. QED
      BY <2>1, QuietKeeps
  <1>13. ASSUME NEW t \in Linkers, DropCall(t) PROVE NoLostWakeup'
    <2>1. Quiet
      BY <1>13 DEF DropCall
    <2>2. QED
      BY <2>1, QuietKeeps
  <1>14. ASSUME NEW t \in Linkers, DropLock(t) PROVE NoLostWakeup'
    <2>1. Quiet
      BY <1>14 DEF DropLock, LockLink
    <2>2. QED
      BY <2>1, QuietKeeps
  <1>15. ASSUME NEW t \in Linkers, DropErase(t) PROVE NoLostWakeup'
    <2>1. Quiet
      BY <1>15 DEF DropErase
    <2>2. QED
      BY <2>1, QuietKeeps
  <1>16. ASSUME NEW t \in Readers, ReadCall(t) PROVE NoLostWakeup'
    <2>1. Quiet
      BY <1>16 DEF ReadCall
    <2>2. QED
      BY <2>1, QuietKeeps
  <1>17. ASSUME NEW t \in Readers, ReadLock(t) PROVE NoLostWakeup'
    <2>1. Quiet
      BY <1>17 DEF ReadLock
    <2>2. QED
      BY <2>1, QuietKeeps
  <1>18. ASSUME NEW t \in Readers, ReadWait(t) PROVE NoLostWakeup'
    BY <1>18 DEF ReadWait, NoLostWakeup
  <1>19. ASSUME NEW t \in Readers, Spurious(t) PROVE NoLostWakeup'
    BY <1>19 DEF Spurious, NoLostWakeup
  <1>20. ASSUME NEW t \in Readers, ReadResume(t) PROVE NoLostWakeup'
    BY <1>20 DEF ReadResume, NoLostWakeup
  <1>21. ASSUME NEW t \in Readers, ReadPass(t) PROVE NoLostWakeup'
    BY <1>21 DEF ReadPass, NoLostWakeup
  <1>22. ASSUME NEW t \in Readers, ReadPop(t) PROVE NoLostWakeup'
    <2>1. Quiet
      BY <1>22 DEF ReadPop, UseInv
    <2>2. QED
      BY <2>1, QuietKeeps
  <1>23. ASSUME NEW t \in Readers, ReadUnlock(t) PROVE NoLostWakeup'
    <2>1. Quiet
      BY <1>23 DEF ReadUnlock
    <2>2. QED
      BY <2>1, QuietKeeps
  <1>24. ASSUME NEW t \in Readers, UngetCall(t) PROVE NoLostWakeup'
    <2>1. Quiet
      BY <1>24 DEF UngetCall
    <2>2. QED
      BY <2>1, QuietKeeps
  <1>25. ASSUME NEW t \in Readers, UngetLock(t) PROVE NoLostWakeup'
    <2>1. Quiet
      BY <1>25 DEF UngetLock
    <2>2. QED
      BY <2>1, QuietKeeps
  <1>26. ASSUME NEW t \in Readers, UngetPush(t) PROVE NoLostWakeup'
    BY <1>26 DEF UngetPush, NoLostWakeup
  <1>27. ASSUME NEW t \in Readers, UngetUnlock(t) PROVE NoLostWakeup'
    <2>1. Quiet
      BY <1>27 DEF UngetUnlock
    <2>2. QED
      BY <2>1, QuietKeeps
  <1>28. ASSUME NEW t \in Readers, UngetNotify(t) PROVE NoLostWakeup'
    BY <1>28 DEF UngetNotify, NotifyAll, NoLostWakeup
  <1>29. CASE UNCHANGED vars
    BY <1>29 DEF vars, NoLostWakeup
  <1>30. QED
    BY <1>1, <1>2, <1>3, <1>4, <1>5, <1>6, <1>7, <1>8, <1>9, <1>10, <1>11, <1>12, <1>13,
       <1>14, <1>15, <1>16, <1>17, <1>18, <1>19, <1>20, <1>21, <1>22, <1>23, <1>24,
       <1>25, <1>26, <1>27, <1>28, <1>29
    DEF Next, WriteStep, LinkStep, ReadStep
\* Whatever is written, read, ungot, dupped and destroyed, no reader sleeps on while
\* its chan has something for it, unless a put() or an unget() has still to notify.
THEOREM NoLostWakeupHolds == Spec => []NoLostWakeup
  <1>1. Init => NoLostWakeup
    BY DEF Init, NoLostWakeup
  <1>2. QED
    BY <1>1, ControlInit, ControlNext, WakeNext, PTL DEF Spec

-----------------------------------------------------------------------------
(* The order of the messages *)

\* The last message that chan c has been given, and the last that was read from it.
Given(c) == IF Coming(c) THEN written - 1 ELSE written
Got == [c \in Chans |-> Given(c) - Len(dat[c])]

\* The deque of a linked chan has the messages from Got[c] to Given(c), and what a reader
\* can unget is the last that was got.
OrderInv ==
  /\ \A c \in cs : \A i \in 1..Len(dat[c]) : dat[c][i] = Got[c] + i
  /\ \A r \in Readers : held[r] # 0 => ReadsFrom[r] \in cs /\ held[r] = Got[ReadsFrom[r]]

\* What the refinement mapping makes of a state, and what it is by the above.
Mapped ==
  [c \in Chans |-> IF c \notin cs THEN 0
                   ELSE IF dat[c] # <<>> THEN Head(dat[c])
                   ELSE IF Coming(c) THEN written ELSE written + 1]
Front == [c \in Chans |-> IF c \notin cs THEN 0 ELSE Got[c] + 1]

LEMMA FrontIs == Control /\ OrderInv => Front = Mapped
  <1> SUFFICES ASSUME Control, OrderInv, NEW c \in cs
               PROVE  Got[c] + 1 = IF dat[c] # <<>> THEN Head(dat[c])
                                   ELSE IF Coming(c) THEN written ELSE written + 1
    BY DEF Front, Mapped
  <1>1. c \in Chans /\ dat[c] \in Seq(Nat) /\ written \in Nat
    BY DEF Control, Types
  <1>2. CASE dat[c] # <<>>
    <2>1. 1 \in 1..Len(dat[c]) /\ Head(dat[c]) = dat[c][1]
      BY <1>1, <1>2
    <2>2. QED
      BY <1>2, <2>1 DEF OrderInv
  <1>3. CASE dat[c] = <<>>
    <2>1. Len(dat[c]) = 0
      BY <1>3
    <2>2. Got[c] = Given(c) - 0
      BY <1>1, <2>1 DEF Got
    <2>3. CASE Coming(c)
      BY <1>1, <1>3, <2>2, <2>3 DEF Given
    <2>4. CASE ~Coming(c)
      BY <1>1, <1>3, <2>2, <2>4 DEF Given
    <2>5. QED
      BY <2>3, <2>4
  <1>4. QED
    BY <1>2, <1>3

LEMMA ComingKeeps ==
  ASSUME \A u \in Writers :
           /\ todo'[u] = todo[u] /\ at'[u] = at[u]
           /\ pc'[u] \in {"put_lock", "put_push"} <=> pc[u] \in {"put_lock", "put_push"}
  PROVE  \A c : Coming(c)' <=> Coming(c)
  BY DEF Coming

LEMMA OrderKeeps ==
  ASSUME OrderInv, UNCHANGED <<cs, dat, written, held>>, \A c : Coming(c)' <=> Coming(c)
  PROVE  OrderInv' /\ UNCHANGED Front
  BY DEF OrderInv, Front, Got, Given

\* One write() at a time is under way, and none while the link's mutex is anybody else's.
LEMMA OneWrite ==
  ASSUME Control, NEW t \in Threads, linkOwner \in {t, Nobody}
  PROVE  \A u \in Writers \ {t} : todo[u] = {} /\ pc[u] \notin Putting
  BY Kinds DEF Control, LinkInv, Linking, WriteInv

\* WriteLock: the message is now to come to every linked chan.
LEMMA WriteOrder ==
  ASSUME Control, Control', OrderInv, NEW t \in Writers, WriteLock(t)
  PROVE  OrderInv' /\ written' = written + 1 /\ UNCHANGED <<cs, Front>>
  <1>1. /\ written' = written + 1 /\ written \in Nat /\ UNCHANGED <<cs, dat, held>>
        /\ linkOwner = Nobody /\ todo'[t] = cs /\ pc[t] = "write_lock"
    BY Kinds DEF WriteLock, LockLink, Goto, Control, Types
  <1>2. \A u \in Writers : todo[u] = {} /\ pc[u] \notin Putting
    <2>1. todo[t] = {}
      BY <1>1 DEF Control, WriteInv, Putting
    <2>2. QED
      BY <1>1, <2>1, OneWrite, Kinds DEF Putting
  <1>3. \A c \in cs : ~Coming(c) /\ Coming(c)'
    BY <1>1, <1>2 DEF Coming, Putting
  <1>4. ASSUME NEW c \in cs PROVE Got'[c] = Got[c]
    <2>1. c \in Chans /\ Given(c) = written /\ Given(c)' = written' - 1
      BY <1>1, <1>3 DEF Given, Control, Types
    <2>2. QED
      BY <1>1, <2>1 DEF Got
  <1>5. QED
    BY <1>1, <1>4 DEF OrderInv, Front

\* PutPush: what was to come has been given.
LEMMA PutOrder ==
  ASSUME Control, Control', OrderInv, NEW t \in Writers, PutPush(t)
  PROVE  OrderInv' /\ UNCHANGED <<written, cs, Front>>
  <1>0. PICK c \in Chans : c = at[t]
    BY Kinds DEF Control, Types
  <1>1. /\ pc[t] = "put_push" /\ pc'[t] = "put_unlock" /\ linkOwner = t
        /\ UNCHANGED <<cs, written, held, todo, at>>
        /\ c \in cs /\ c \notin todo[t]
    BY <1>0, Kinds DEF PutPush, Goto, Control, Types, LinkInv, Linking, Putting, WriteInv
  <1>2. dat[c] \in Seq(Nat) /\ written \in Nat
    BY <1>1 DEF Control, Types
  <1>3. dat'[c] = Append(dat[c], written) /\ \A d \in Chans \ {c} : dat'[d] = dat[d]
    BY <1>0, <1>1 DEF PutPush, Control, Types
  <1>4. \A u \in Writers \ {t} : todo[u] = {} /\ pc[u] \notin Putting /\ pc'[u] = pc[u]
    BY <1>1, OneWrite, Kinds DEF PutPush, Goto, Control, Types
  <1>5. Coming(c) /\ ~Coming(c)'
    BY <1>0, <1>1, <1>4 DEF Coming, Putting
  <1>6. \A d \in Chans \ {c} : Coming(d)' <=> Coming(d)
    BY <1>0, <1>1, <1>4 DEF Coming, Putting
  <1>7. Len(dat'[c]) = Len(dat[c]) + 1 /\ Len(dat[c]) \in Nat
    BY <1>2, <1>3
  <1>8. Got'[c] = Got[c] /\ Got[c] = written - 1 - Len(dat[c])
    <2>1. Given(c) = written - 1 /\ Given(c)' = written
      BY <1>1, <1>5 DEF Given
    <2>2. QED
      BY <1>1, <1>2, <1>7, <2>1 DEF Got
  <1>9. \A d \in Chans \ {c} : Got'[d] = Got[d]
    BY <1>1, <1>3, <1>6 DEF Got, Given
  <1>10. ASSUME NEW i \in 1..Len(dat'[c]) PROVE dat'[c][i] = Got[c] + i
    <2>1. CASE i \in 1..Len(dat[c])
      BY <1>1, <1>2, <1>3, <2>1 DEF OrderInv
    <2>2. CASE i = Len(dat[c]) + 1
      <3>1. dat'[c][i] = written
        BY <1>2, <1>3, <2>2
      <3>2. QED
        BY <1>2, <1>7, <1>8, <2>2, <3>1
    <2>3. QED
      BY <1>7, <2>1, <2>2
  <1>11. ASSUME NEW d \in cs, NEW i \in 1..Len(dat'[d]) PROVE dat'[d][i] = Got'[d] + i
    <2>1. d \in Chans
      BY DEF Control, Types
    <2>2. CASE d = c
      BY <1>8, <1>10, <2>2
    <2>3. CASE d # c
      BY <1>3, <1>9, <2>1, <2>3 DEF OrderInv
    <2>4. QED
      BY <2>2, <2>3
  <1>12. \A r \in Readers : Got'[ReadsFrom[r]] = Got[ReadsFrom[r]]
    BY <1>8, <1>9, ChanAssumption
  <1>13. OrderInv'
    BY <1>1, <1>11, <1>12, ChanAssumption DEF OrderInv
  <1>14. Front' = Front
    BY <1>1, <1>8, <1>9 DEF Front
  <1>15. QED
    BY <1>1, <1>13, <1>14

\* A reader's step leaves what the chans have been given.
LEMMA ReaderGives ==
  ASSUME Control, Control', NEW t \in Readers, UNCHANGED <<written, todo, at>>,
         \A u \in Threads \ {t} : pc'[u] = pc[u]
  PROVE  \A c \in Chans : Given(c)' = Given(c)
  <1>1. \A u \in Writers : pc'[u] = pc[u]
    BY Kinds
  <1>2. \A c \in Chans : Coming(c)' <=> Coming(c)
    BY <1>1 DEF Coming
  <1>3. QED
    BY <1>2 DEF Given

LEMMA GivenNat ==
  ASSUME Control, NEW c \in Chans
  PROVE  Given(c) \in Int /\ Given(c) <= written /\ written \in Nat
  BY DEF Given, Control, Types

\* ReadPop: the first of the deque is the message after the last that was got.
LEMMA ReadOrder ==
  ASSUME Control, Control', OrderInv, NEW t \in Readers, ReadPop(t)
  PROVE  \E c \in cs :
           /\ OrderInv' /\ Front[c] <= written
           /\ Front' = [Front EXCEPT ![c] = @ + 1] /\ UNCHANGED <<written, cs>>
  <1>0. PICK c \in Chans : c = via[t] /\ c = ReadsFrom[t]
    BY Kinds DEF Control, Types, UseInv
  <1>1. /\ pc[t] = "read_pop" /\ c \in cs /\ dat[c] # <<>> /\ dat[c] \in Seq(Nat)
        /\ UNCHANGED <<cs, written, todo, at, via>>
        /\ \A u \in Threads \ {t} : pc'[u] = pc[u]
    BY <1>0, Kinds DEF ReadPop, Goto, Control, Types, UseInv, Busy
  <1>2. dat'[c] = Tail(dat[c]) /\ \A d \in Chans \ {c} : dat'[d] = dat[d]
    BY <1>0, <1>1 DEF ReadPop, Control, Types
  <1>3. held'[t] = Head(dat[c]) /\ \A r \in Readers \ {t} : held'[r] = held[r]
    BY <1>0, <1>1 DEF ReadPop, Control, Types
  <1>4. \A d \in Chans : Given(d)' = Given(d) /\ Given(d) \in Int /\ Given(d) <= written
    BY <1>1, ReaderGives, GivenNat
  <1>5. /\ Len(dat[c]) \in Nat /\ Len(dat[c]) >= 1 /\ Len(dat'[c]) = Len(dat[c]) - 1
        /\ Head(dat[c]) = dat[c][1]
        /\ \A i \in 1..Len(dat'[c]) : dat'[c][i] = dat[c][i + 1]
    BY <1>1, <1>2
  <1>6. Got[c] = Given(c) - Len(dat[c]) /\ Got'[c] = Got[c] + 1 /\ Got[c] \in Int
    BY <1>4, <1>5 DEF Got
  <1>7. \A d \in Chans \ {c} : Got'[d] = Got[d]
    BY <1>2, <1>4 DEF Got
  <1>8. ASSUME NEW d \in cs, NEW i \in 1..Len(dat'[d]) PROVE dat'[d][i] = Got'[d] + i
    <2>1. CASE d = c
      <3>1. i + 1 \in 1..Len(dat[c])
        BY <1>5, <2>1
      <3>2. dat[c][i + 1] = Got[c] + (i + 1)
        BY <1>1, <3>1 DEF OrderInv
      <3>3. dat'[c][i] = dat[c][i + 1]
        BY <1>5, <2>1
      <3>4. i \in Int
        OBVIOUS
      <3>5. Got'[c] + i = Got[c] + (i + 1)
        BY <1>6, <3>4
      <3>6. dat'[c][i] = Got'[c] + i
        BY <3>2, <3>3, <3>5
      <3>7. QED
        BY <2>1, <3>6
    <2>2. CASE d # c
      <3>1. d \in Chans \ {c}
        BY <2>2 DEF Control, Types
      <3>2. QED
        BY <1>2, <1>7, <3>1 DEF OrderInv
    <2>3. QED
      BY <2>1, <2>2
  <1>9. held'[t] = Got'[c]
    BY <1>1, <1>3, <1>5, <1>6 DEF OrderInv
  <1>10. ASSUME NEW r \in Readers, held'[r] # 0
         PROVE  ReadsFrom[r] \in cs /\ held'[r] = Got'[ReadsFrom[r]]
    <2>1. CASE r = t
      BY <1>0, <1>1, <1>9, <2>1
    <2>2. CASE r # t
      BY <1>0, <1>3, <1>7, <1>10, <2>2, ChanAssumption DEF OrderInv
    <2>3. QED
      BY <2>1, <2>2
  <1>11. OrderInv'
    BY <1>1, <1>8, <1>10 DEF OrderInv
  <1>12. Front[c] <= written
    BY <1>1, <1>4, <1>5, <1>6, GivenNat DEF Front
  <1>13. Front' = [Front EXCEPT ![c] = @ + 1]
    BY <1>1, <1>6, <1>7 DEF Front
  <1>14. QED
    BY <1>1, <1>11, <1>12, <1>13

\* UngetPush: the last that was got is the first again.
LEMMA UngetOrder ==
  ASSUME Control, Control', OrderInv, NEW t \in Readers, UngetPush(t)
  PROVE  \E c \in cs :
           /\ OrderInv' /\ Front[c] > 1
           /\ Front' = [Front EXCEPT ![c] = @ - 1] /\ UNCHANGED <<written, cs>>
  <1>0. PICK c \in Chans : c = via[t] /\ c = ReadsFrom[t]
    BY Kinds DEF Control, Types, UseInv
  <1>1. /\ pc[t] = "unget_push" /\ c \in cs /\ dat[c] \in Seq(Nat)
        /\ held[t] # 0 /\ held[t] \in Nat
        /\ UNCHANGED <<cs, written, todo, at, via>>
        /\ \A u \in Threads \ {t} : pc'[u] = pc[u]
    BY <1>0, Kinds DEF UngetPush, Goto, Control, Types, UseInv, Busy
  <1>2. dat'[c] = <<held[t]>> \o dat[c] /\ \A d \in Chans \ {c} : dat'[d] = dat[d]
    BY <1>0, <1>1 DEF UngetPush, Control, Types
  <1>3. held'[t] = 0 /\ \A r \in Readers \ {t} : held'[r] = held[r]
    BY <1>0, <1>1 DEF UngetPush, Control, Types
  <1>4. \A d \in Chans : Given(d)' = Given(d) /\ Given(d) \in Int
    BY <1>1, ReaderGives, GivenNat
  <1>5. /\ Len(dat[c]) \in Nat /\ Len(dat'[c]) = Len(dat[c]) + 1
        /\ \A i \in 1..Len(dat'[c]) : dat'[c][i] = IF i = 1 THEN held[t] ELSE dat[c][i - 1]
    BY <1>1, <1>2
  <1>6. Got[c] = Given(c) - Len(dat[c]) /\ Got'[c] = Got[c] - 1 /\ Got[c] \in Int
    BY <1>4, <1>5 DEF Got
  <1>7. \A d \in Chans \ {c} : Got'[d] = Got[d]
    BY <1>2, <1>4 DEF Got
  <1>8. held[t] = Got[c]
    BY <1>0, <1>1 DEF OrderInv
  <1>9. ASSUME NEW d \in cs, NEW i \in 1..Len(dat'[d]) PROVE dat'[d][i] = Got'[d] + i
    <2>1. CASE d = c /\ i = 1
      BY <1>5, <1>6, <1>8, <2>1
    <2>2. CASE d = c /\ i # 1
      <3>1. i - 1 \in 1..Len(dat[c])
        BY <1>5, <2>2
      <3>2. dat[c][i - 1] = Got[c] + (i - 1)
        BY <1>1, <3>1 DEF OrderInv
      <3>3. QED
        BY <1>5, <1>6, <2>2, <3>2
    <2>3. CASE d # c
      <3>1. d \in Chans \ {c}
        BY <2>3 DEF Control, Types
      <3>2. QED
        BY <1>2, <1>7, <3>1 DEF OrderInv
    <2>4. QED
      BY <2>1, <2>2, <2>3
  <1>10. ASSUME NEW r \in Readers, held'[r] # 0
         PROVE  ReadsFrom[r] \in cs /\ held'[r] = Got'[ReadsFrom[r]]
    BY <1>0, <1>3, <1>7, <1>10, ChanAssumption DEF OrderInv
  <1>11. OrderInv'
    BY <1>1, <1>9, <1>10 DEF OrderInv
  <1>12. Front[c] > 1
    BY <1>1, <1>6, <1>8 DEF Front
  <1>13. Front' = [Front EXCEPT ![c] = @ - 1]
    <2>1. Front[c] - 1 = Got[c] /\ Got'[c] + 1 = Got[c]
      BY <1>1, <1>6 DEF Front
    <2>2. QED
      BY <1>1, <1>7, <2>1 DEF Front
  <1>14. QED
    BY <1>1, <1>11, <1>12, <1>13

\* DupInsert: a duplicate starts empty, after all that has been written.
LEMMA DupOrder ==
  ASSUME Control, Control', OrderInv, NEW t \in Linkers, DupInsert(t)
  PROVE  \E c \in Chans :
           /\ OrderInv' /\ cs' = cs \cup {c} /\ UNCHANGED written
           /\ Front' = [Front EXCEPT ![c] = IF c \in cs THEN @ ELSE written + 1]
  <1>0. PICK c \in Chans : c = at[t]
    BY Kinds DEF Control, Types
  <1>1. /\ linkOwner = t /\ cs' = cs \cup {c} /\ UNCHANGED <<written, dat, held, todo, at>>
        /\ \A u \in Threads \ {t} : pc'[u] = pc[u]
    BY <1>0, Kinds DEF DupInsert, Goto, Control, Types, LinkInv, Linking
  <1>2. \A u \in Writers : todo[u] = {} /\ pc[u] \notin Putting
    BY <1>1, OneWrite, Kinds
  <1>3. \A d \in Chans : ~Coming(d) /\ ~Coming(d)'
    BY <1>1, <1>2, Kinds DEF Coming, Putting
  <1>4. Got' = Got
    BY <1>1, <1>3 DEF Got, Given
  <1>5. c \notin cs => dat[c] = <<>> /\ Got[c] = written
    <2>1. c \notin cs => dat[c] = <<>>
      BY DEF Control, GoneInv
    <2>2. Given(c) = written /\ written \in Nat
      BY <1>3 DEF Given, Control, Types
    <2>3. Len(<<>>) = 0
      OBVIOUS
    <2>4. QED
      BY <2>1, <2>2, <2>3 DEF Got
  <1>6. ASSUME NEW d \in cs', NEW i \in 1..Len(dat'[d]) PROVE dat'[d][i] = Got'[d] + i
    <2>1. CASE d \in cs
      BY <1>1, <1>4, <2>1 DEF OrderInv
    <2>2. CASE d \notin cs
      <3>1. d = c /\ dat[d] = <<>>
        BY <1>1, <1>5, <2>2
      <3>2. QED
        BY <1>1, <3>1
    <2>3. QED
      BY <2>1, <2>2
  <1>7. OrderInv'
    BY <1>1, <1>4, <1>6 DEF OrderInv
  <1>8. Front' = [Front EXCEPT ![c] = IF c \in cs THEN @ ELSE written + 1]
    BY <1>1, <1>4, <1>5 DEF Front
  <1>9. QED
    BY <1>1, <1>7, <1>8

\* DropErase: what is in the deque goes with the chan.
LEMMA DropOrder ==
  ASSUME Control, Control', OrderInv, NEW t \in Linkers, DropErase(t)
  PROVE  \E c \in Chans :
           /\ OrderInv' /\ cs' = cs \ {c} /\ UNCHANGED written
           /\ Front' = [Front EXCEPT ![c] = 0]
  <1>0. PICK c \in Chans : c = at[t]
    BY Kinds DEF Control, Types
  <1>1. /\ linkOwner = t /\ cs' = cs \ {c} /\ UNCHANGED <<written, todo, at>>
        /\ \A u \in Threads \ {t} : pc'[u] = pc[u]
        /\ \A d \in Chans \ {c} : dat'[d] = dat[d]
        /\ \A r \in Readers : held'[r] = IF ReadsFrom[r] = c THEN 0 ELSE held[r]
    BY <1>0, Kinds DEF DropErase, Goto, Control, Types, LinkInv, Linking
  <1>2. \A u \in Writers : pc'[u] = pc[u]
    BY <1>1, Kinds
  <1>3. \A d \in Chans : Coming(d)' <=> Coming(d)
    BY <1>1, <1>2 DEF Coming
  <1>4. \A d \in Chans \ {c} : Got'[d] = Got[d]
    BY <1>1, <1>3 DEF Got, Given
  <1>5. ASSUME NEW d \in cs', NEW i \in 1..Len(dat'[d]) PROVE dat'[d][i] = Got'[d] + i
    <2>1. d \in cs /\ d \in Chans \ {c}
      BY <1>1 DEF Control, Types
    <2>2. QED
      BY <1>1, <1>4, <2>1 DEF OrderInv
  <1>6. ASSUME NEW r \in Readers, held'[r] # 0
        PROVE  ReadsFrom[r] \in cs' /\ held'[r] = Got'[ReadsFrom[r]]
    BY <1>1, <1>4, <1>6, ChanAssumption DEF OrderInv
  <1>7. OrderInv'
    BY <1>5, <1>6 DEF OrderInv
  <1>8. Front' = [Front EXCEPT ![c] = 0]
    BY <1>1, <1>4 DEF Front
  <1>9. QED
    BY <1>1, <1>7, <1>8

\* WriteNext: the chan goes from those still to come to to the one come to.
LEMMA NextOrder ==
  ASSUME Control, OrderInv, NEW t \in Writers, WriteNext(t)
  PROVE  OrderInv' /\ UNCHANGED <<written, cs, Front>>
  <1>1. PICK c \in todo[t] :
          /\ at' = [at EXCEPT ![t] = c] /\ todo' = [todo EXCEPT ![t] = @ \ {c}]
    BY DEF WriteNext
  <1>2. pc[t] = "write_next" /\ pc'[t] = "put_lock" /\ UNCHANGED <<written, cs, dat, held>>
    BY Kinds DEF WriteNext, Goto, Control, Types
  <1>3. /\ at'[t] = c /\ todo'[t] = todo[t] \ {c}
        /\ \A u \in Writers \ {t} : pc'[u] = pc[u] /\ at'[u] = at[u] /\ todo'[u] = todo[u]
    BY <1>1, Kinds DEF WriteNext, Goto, Control, Types
  <1>4. \A d : Coming(d)' <=> Coming(d)
    BY <1>1, <1>2, <1>3 DEF Coming
  <1>5. QED
    BY <1>2, <1>4, OrderKeeps

\* The bound on the messages is for those who still wait for the link's mutex, too.
Waiters == {u \in Writers : pc[u] = "write_lock"}
BoundInv == written + Cardinality(Waiters) <= MaxWrites

LEMMA BoundNext ==
  ASSUME IsFiniteSet(Writers), Control, Control', BoundInv, [Next]_vars
  PROVE  BoundInv'
  <1>1. /\ IsFiniteSet(Waiters) /\ IsFiniteSet(Waiters')
        /\ Cardinality(Waiters) \in Nat /\ Cardinality(Waiters') \in Nat
        /\ written \in Nat /\ MaxWrites \in Nat
    BY FS_Subset, FS_CardinalityType, ChanAssumption DEF Waiters, Control, Types
  <1>2. ASSUME NEW t \in Writers, WriteCall(t) PROVE BoundInv'
    <2>1. Waiters' = Waiters \cup {t} /\ t \notin Waiters
      BY <1>2, Kinds DEF WriteCall, Goto, Waiters, Control, Types
    <2>2. Cardinality(Waiters') = Cardinality(Waiters) + 1
      BY <1>1, <2>1, FS_AddElement
    <2>3. written' = written /\ written + Cardinality(Waiters) < MaxWrites
      BY <1>2 DEF WriteCall, Waiters
    <2>4. QED
      BY <1>1, <2>2, <2>3 DEF BoundInv
  <1>3. ASSUME NEW t \in Writers, WriteLock(t) PROVE BoundInv'
    <2>1. Waiters' = Waiters \ {t} /\ t \in Waiters /\ written' = written + 1
      BY <1>3, Kinds DEF WriteLock, Goto, Waiters, Control, Types
    <2>2. Cardinality(Waiters') = Cardinality(Waiters) - 1
      BY <1>1, <2>1, FS_RemoveElement
    <2>3. QED
      BY <1>1, <2>1, <2>2 DEF BoundInv
  <1>4. ASSUME Waiters' = Waiters, written' = written PROVE BoundInv'
    BY <1>4 DEF BoundInv
  <1>5. ASSUME NEW t \in Writers,
               \/ WriteNext(t) \/ WriteEnd(t) \/ PutLock(t) \/ PutPush(t) \/ PutUnlock(t)
               \/ PutNotify(t)
        PROVE  Waiters' = Waiters /\ written' = written
    BY <1>5, Kinds DEF WriteNext, WriteEnd, PutLock, PutPush, PutUnlock, PutNotify, Goto, Waiters,
       Control, Types
  <1>6. ASSUME NEW t \in Linkers, DupCall(t) \/ DropCall(t) \/ LinkStep(t)
        PROVE  Waiters' = Waiters /\ written' = written
    BY <1>6, Kinds DEF DupCall, DropCall, LinkStep, DupLock, DupInsert, DropLock, DropErase,
       LinkUnlock, Goto, Waiters, Control, Types
  <1>7. ASSUME NEW t \in Readers, ReadCall(t) \/ UngetCall(t) \/ Spurious(t) \/ ReadStep(t)
        PROVE  Waiters' = Waiters /\ written' = written
    BY <1>7, Kinds DEF ReadCall, UngetCall, Spurious, ReadStep, ReadLock, ReadWait, ReadResume,
       ReadPass, ReadPop, ReadUnlock, UngetLock, UngetPush, UngetUnlock, UngetNotify, Goto,
       Waiters, Control, Types
  <1>8. CASE UNCHANGED vars
    BY <1>4, <1>8 DEF vars, Waiters
  <1>9. QED
    BY <1>2, <1>3, <1>4, <1>5, <1>6, <1>7, <1>8 DEF Next, WriteStep

-----------------------------------------------------------------------------
(* The refinement *)

LEMMA QuietOrder ==
  ASSUME OrderInv, UNCHANGED <<cs, dat, written, held>>,
         \A u \in Writers :
           /\ todo'[u] = todo[u] /\ at'[u] = at[u]
           /\ pc'[u] \in {"put_lock", "put_push"} <=> pc[u] \in {"put_lock", "put_push"}
  PROVE  OrderInv' /\ UNCHANGED <<written, cs, Front>>
  BY ComingKeeps, OrderKeeps

LEMMA QuietWriter ==
  ASSUME Control, OrderInv, NEW t \in Writers,
         WriteCall(t) \/ WriteEnd(t) \/ PutLock(t) \/ PutUnlock(t) \/ PutNotify(t)
  PROVE  OrderInv' /\ UNCHANGED <<written, cs, Front>>
  <1>1. UNCHANGED <<cs, dat, written, held, todo, at>>
    BY DEF WriteCall, WriteEnd, PutLock, PutUnlock, PutNotify
  <1>2. \A u \in Writers :
          pc'[u] \in {"put_lock", "put_push"} <=> pc[u] \in {"put_lock", "put_push"}
    BY Kinds DEF WriteCall, WriteEnd, PutLock, PutUnlock, PutNotify, Goto, Control, Types
  <1>3. QED
    BY <1>1, <1>2, QuietOrder

LEMMA QuietLinker ==
  ASSUME Control, OrderInv, NEW t \in Linkers,
         DupCall(t) \/ DropCall(t) \/ DupLock(t) \/ DropLock(t) \/ LinkUnlock(t)
  PROVE  OrderInv' /\ UNCHANGED <<written, cs, Front>>
  <1>1. UNCHANGED <<cs, dat, written, held, todo>>
    BY DEF DupCall, DropCall, DupLock, DropLock, LinkUnlock
  <1>2. \A u \in Writers : pc'[u] = pc[u] /\ at'[u] = at[u]
    BY Kinds DEF DupCall, DropCall, DupLock, DropLock, LinkUnlock, Goto, Control, Types
  <1>3. QED
    BY <1>1, <1>2, QuietOrder

LEMMA QuietReader ==
  ASSUME Control, OrderInv, NEW t \in Readers,
         \/ ReadCall(t) \/ UngetCall(t) \/ Spurious(t) \/ ReadLock(t) \/ ReadWait(t)
         \/ ReadResume(t) \/ ReadPass(t) \/ ReadUnlock(t)
         \/ UngetLock(t) \/ UngetUnlock(t) \/ UngetNotify(t)
  PROVE  OrderInv' /\ UNCHANGED <<written, cs, Front>>
  <1>1. UNCHANGED <<cs, dat, written, held, todo, at>>
    BY DEF ReadCall, UngetCall, Spurious, ReadLock, ReadWait, ReadResume, ReadPass, ReadUnlock,
       UngetLock, UngetUnlock, UngetNotify
  <1>2. \A u \in Writers : pc'[u] = pc[u]
    BY Kinds DEF ReadCall, UngetCall, Spurious, ReadLock, ReadWait, ReadResume, ReadPass,
       ReadUnlock, UngetLock, UngetUnlock, UngetNotify, Goto, Control, Types
  <1>3. QED
    BY <1>1, <1>2, QuietOrder

\* The steps of Broadcast in terms of Front.
FrontStep ==
  \/ /\ written < MaxWrites /\ written' = written + 1
     /\ UNCHANGED <<cs, Front>>
  \/ \E c \in cs :
       /\ Front[c] <= written /\ Front' = [Front EXCEPT ![c] = @ + 1]
       /\ UNCHANGED <<written, cs>>
  \/ \E c \in cs :
       /\ Front[c] > 1 /\ Front' = [Front EXCEPT ![c] = @ - 1]
       /\ UNCHANGED <<written, cs>>
  \/ \E c \in Chans \ cs :
       /\ cs' = cs \cup {c} /\ Front' = [Front EXCEPT ![c] = written + 1]
       /\ UNCHANGED written
  \/ \E c \in cs :
       /\ cs' = cs \ {c} /\ Front' = [Front EXCEPT ![c] = 0]
       /\ UNCHANGED written
  \/ UNCHANGED <<written, cs, Front>>

LEMMA OrderNext ==
  ASSUME IsFiniteSet(Writers), Control, Control', OrderInv, BoundInv, [Next]_vars
  PROVE  OrderInv' /\ FrontStep
  <1>1. ASSUME NEW t \in Writers, WriteLock(t) PROVE OrderInv' /\ FrontStep
    <2>1. IsFiniteSet(Waiters) /\ t \in Waiters /\ written \in Nat /\ MaxWrites \in Nat
      BY <1>1, FS_Subset, ChanAssumption DEF WriteLock, Goto, Waiters, Control, Types
    <2>2. Cardinality(Waiters) \in Nat /\ Cardinality(Waiters) # 0
      BY <2>1, FS_CardinalityType, FS_EmptySet
    <2>3. written < MaxWrites
      BY <2>1, <2>2 DEF BoundInv
    <2>4. QED
      BY <1>1, <2>3, WriteOrder DEF FrontStep
  <1>2. ASSUME NEW t \in Writers, WriteCall(t) \/ WriteStep(t), ~WriteLock(t)
        PROVE  OrderInv' /\ FrontStep
    BY <1>2, PutOrder, NextOrder, QuietWriter DEF WriteStep, FrontStep
  <1>3. ASSUME NEW t \in Linkers, DupInsert(t) PROVE OrderInv' /\ FrontStep
    <2>1. PICK c \in Chans :
            /\ OrderInv' /\ cs' = cs \cup {c} /\ UNCHANGED written
            /\ Front' = [Front EXCEPT ![c] = IF c \in cs THEN @ ELSE written + 1]
      BY <1>3, DupOrder
    <2>2. CASE c \in cs
      <3>1. cs' = cs /\ Front' = Front
        BY <2>1, <2>2 DEF Front
      <3>2. QED
        BY <2>1, <3>1 DEF FrontStep
    <2>3. CASE c \notin cs
      BY <2>1, <2>3 DEF FrontStep
    <2>4. QED
      BY <2>2, <2>3
  <1>4. ASSUME NEW t \in Linkers, DropErase(t) PROVE OrderInv' /\ FrontStep
    <2>1. PICK c \in Chans :
            /\ OrderInv' /\ cs' = cs \ {c} /\ UNCHANGED written
            /\ Front' = [Front EXCEPT ![c] = 0]
      BY <1>4, DropOrder
    <2>2. CASE c \notin cs
      <3>1. cs' = cs /\ Front' = Front
        BY <2>1, <2>2 DEF Front
      <3>2. QED
        BY <2>1, <3>1 DEF FrontStep
    <2>3. CASE c \in cs
      BY <2>1, <2>3 DEF FrontStep
    <2>4. QED
      BY <2>2, <2>3
  <1>5. ASSUME NEW t \in Linkers, DupCall(t) \/ DropCall(t) \/ LinkStep(t),
               ~DupInsert(t), ~DropErase(t)
        PROVE  OrderInv' /\ FrontStep
    BY <1>5, QuietLinker DEF LinkStep, FrontStep
  <1>6. ASSUME NEW t \in Readers, ReadPop(t) PROVE OrderInv' /\ FrontStep
    BY <1>6, ReadOrder DEF FrontStep
  <1>7. ASSUME NEW t \in Readers, UngetPush(t) PROVE OrderInv' /\ FrontStep
    BY <1>7, UngetOrder DEF FrontStep
  <1>8. ASSUME NEW t \in Readers, ReadCall(t) \/ UngetCall(t) \/ Spurious(t) \/ ReadStep(t),
               ~ReadPop(t), ~UngetPush(t)
        PROVE  OrderInv' /\ FrontStep
    BY <1>8, QuietReader DEF ReadStep, FrontStep
  <1>9. CASE UNCHANGED vars
    <2>1. UNCHANGED <<cs, dat, written, held, todo, at, pc>>
      BY <1>9 DEF vars
    <2>2. QED
      BY <2>1, QuietOrder DEF FrontStep
  <1>10. QED
    BY <1>1, <1>2, <1>3, <1>4, <1>5, <1>6, <1>7, <1>8, <1>9 DEF Next

LEMMA AbstractNext ==
  Control /\ OrderInv /\ (Control /\ OrderInv)' /\ FrontStep
    => [Abstract!Next]_(Abstract!vars)
  <1> SUFFICES ASSUME Control, OrderInv, (Control /\ OrderInv)', FrontStep
               PROVE  [Abstract!Next]_(Abstract!vars)
    OBVIOUS
  <1>1. Front = Mapped
    BY FrontIs
  <1>2. (Front = Mapped)'
    BY FrontIs, PTL
  <1>3. cs \subseteq Chans
    BY DEF Control, Types
  <1>4. CASE written < MaxWrites /\ written' = written + 1 /\ UNCHANGED <<cs, Front>>
    BY <1>1, <1>2, <1>4 DEF Abstract!Next, Abstract!Write, Mapped
  <1>5. ASSUME NEW c \in cs, Front[c] <= written, Front' = [Front EXCEPT ![c] = @ + 1],
               UNCHANGED <<written, cs>>
        PROVE  Abstract!Read(c)
    BY <1>1, <1>2, <1>5 DEF Abstract!Read, Mapped
  <1>6. ASSUME NEW c \in cs, Front[c] > 1, Front' = [Front EXCEPT ![c] = @ - 1],
               UNCHANGED <<written, cs>>
        PROVE  Abstract!Unget(c)
    BY <1>1, <1>2, <1>6 DEF Abstract!Unget, Mapped
  <1>7. ASSUME NEW c \in Chans \ cs, cs' = cs \cup {c}, Front' = [Front EXCEPT ![c] = written + 1],
               UNCHANGED written
        PROVE  Abstract!Dup(c)
    BY <1>1, <1>2, <1>7 DEF Abstract!Dup, Mapped
  <1>8. ASSUME NEW c \in cs, cs' = cs \ {c}, Front' = [Front EXCEPT ![c] = 0], UNCHANGED written
        PROVE  Abstract!Drop(c)
    BY <1>1, <1>2, <1>8 DEF Abstract!Drop, Mapped
  <1>9. CASE UNCHANGED <<written, cs, Front>>
    BY <1>1, <1>2, <1>9 DEF Abstract!vars, Mapped
  <1>10. QED
    BY <1>3, <1>4, <1>5, <1>6, <1>7, <1>8, <1>9 DEF FrontStep, Abstract!Next

LEMMA RefInit ==
  ASSUME IsFiniteSet(Writers), Init PROVE OrderInv /\ BoundInv /\ Abstract!Init
  <1>1. OrderInv
    BY ChanAssumption DEF Init, OrderInv
  <1>2. BoundInv
    <2>1. Waiters = {}
      BY Kinds DEF Init, Waiters
    <2>2. Cardinality(Waiters) = 0
      BY <2>1, FS_EmptySet
    <2>3. QED
      BY <2>2, ChanAssumption DEF Init, BoundInv
  <1>3. \A c \in Chans : ~Coming(c)
    BY Kinds DEF Init, Coming
  <1>4. Abstract!Init
    BY <1>3 DEF Init, Abstract!Init
  <1>5. QED
    BY <1>1, <1>2, <1>4

\* Linked chans deliver one and the same sequence, for any number of them, of readers,
\* of linkers and, finitely many, of writers: what a chan's deque holds is what was
\* written after the last message got from it, less what the write() under way has not
\* come to yet.
THEOREM Refinement == ASSUME IsFiniteSet(Writers) PROVE Spec => ImplementsBroadcast
  <1>1. Init => Control /\ OrderInv /\ BoundInv /\ Abstract!Init
    BY ControlInit, RefInit
  <1>2. Control /\ OrderInv /\ BoundInv /\ [Next]_vars
          => /\ (Control /\ OrderInv /\ BoundInv)'
             /\ [Abstract!Next]_(Abstract!vars)
    BY ControlNext, BoundNext, OrderNext, AbstractNext
  <1>3. QED
    BY <1>1, <1>2, PTL DEF Spec, ImplementsBroadcast, Abstract!Spec

===============================================================================
