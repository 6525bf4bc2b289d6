-------------------------------- MODULE Chan --------------------------------
(***************************************************************************)
(* pfi::concurrent::chan (chan.h): queues linked by dup().  Every chan has *)
(* its own mutex m, condition and deque; the linked ones share a `link`, a *)
(* mutex and the set of chans.  write() goes through that set under the    *)
(* link's mutex and takes each chan's mutex in turn, inside it; read() and *)
(* unget() take only their own chan's.                                     *)
(*                                                                         *)
(* Message k is the k-th to be written.  A channel has at most one reader, *)
(* which ungets only what it read last: with two, the order in which they  *)
(* unget is theirs.  The mutexes are modelled by their owners; what a wait *)
(* does to its mutex is Monitor's matter.  size() and empty() only look.   *)
(***************************************************************************)
EXTENDS Integers, FiniteSets, Sequences

CONSTANTS
  Chans,      \* memory for chans
  Writers,    \* threads that write
  Linkers,    \* threads that dup chans and destroy them
  Readers,    \* threads that read and unget
  ReadsFrom,  \* ReadsFrom[t]: the chan that reader t reads
  Nobody,     \* the owner of a free mutex
  MaxWrites   \* bound on the number of messages

Threads == Writers \cup Linkers \cup Readers

ASSUME ChanAssumption ==
  /\ Nobody \notin Threads
  /\ Writers \cap Linkers = {}
  /\ (Writers \cup Linkers) \cap Readers = {}
  /\ ReadsFrom \in [Readers -> Chans]
  /\ \A t, u \in Readers : ReadsFrom[t] = ReadsFrom[u] => t = u
  /\ MaxWrites \in Nat

VARIABLES
  cs,         \* link::cs
  linkOwner,  \* link::m
  owner,      \* owner[c]: c's mutex
  dat,        \* dat[c]: c's deque, the oldest message first
  asleep,     \* the readers asleep on their chan's condition
  pc,         \* where each thread is
  via,        \* via[t]: the chan whose method t calls
  at,         \* at[t]: the chan that writer t puts to, or that linker t makes
  todo,       \* todo[t]: the chans that t's write() has still to come to
  written,    \* history: how many write() calls have begun under the link's mutex
  held        \* held[t]: the message reader t read last and can unget, or 0

vars == <<cs, linkOwner, owner, dat, asleep, pc, via, at, todo, written, held>>

Labels ==
  {"idle",
   "write_lock", "write_next", "put_lock", "put_push", "put_unlock", "put_notify",
   "dup_lock", "dup_insert", "drop_lock", "drop_erase", "link_unlock",
   "read_lock", "read_loop", "waiting", "read_pop", "read_unlock",
   "unget_lock", "unget_push", "unget_unlock", "unget_notify"}

TypeOK ==
  /\ cs \subseteq Chans
  /\ linkOwner \in Threads \cup {Nobody}
  /\ owner \in [Chans -> Threads \cup {Nobody}]
  /\ dat \in [Chans -> Seq(1..MaxWrites)]
  /\ asleep \subseteq Readers
  /\ pc \in [Threads -> Labels]
  /\ via \in [Threads -> Chans]
  /\ at \in [Threads -> Chans]
  /\ todo \in [Threads -> SUBSET Chans]
  /\ written \in 0..MaxWrites
  /\ held \in [Readers -> 0..MaxWrites]

Init ==
  /\ \E c \in Chans :
       /\ cs = {c}
       /\ via = [t \in Threads |-> IF t \in Readers THEN ReadsFrom[t] ELSE c]
       /\ at = [t \in Threads |-> c]
  /\ linkOwner = Nobody
  /\ owner = [c \in Chans |-> Nobody]
  /\ dat = [c \in Chans |-> <<>>]
  /\ asleep = {}
  /\ pc = [t \in Threads |-> "idle"]
  /\ todo = [t \in Threads |-> {}]
  /\ written = 0
  /\ held = [t \in Readers |-> 0]

Goto(t, from, to) == pc[t] = from /\ pc' = [pc EXCEPT ![t] = to]

LockLink(t) == linkOwner = Nobody /\ linkOwner' = t
LockChan(t, c) == owner[c] = Nobody /\ owner' = [owner EXCEPT ![c] = t]
UnlockChan(c) == owner' = [owner EXCEPT ![c] = Nobody]

\* cond.notify_all() of chan c.
NotifyAll(c) == asleep' = {t \in asleep : via[t] # c}

\* Client discipline: a chan is used from when dup() has returned it until its
\* destruction begins, and is destroyed when nobody is in one of its methods.
Busy(t) == pc[t] # "idle"
Usable(c) == c \in cs /\ \A t \in Linkers : ~(Busy(t) /\ at[t] = c)
Unused(c) == \A t \in Threads : ~(Busy(t) /\ via[t] = c)

-----------------------------------------------------------------------------
(* write(r) *)

\* MaxWrites bounds the calls, those that wait for the link's mutex included.
WriteCall(t) ==
  /\ written + Cardinality({u \in Writers : pc[u] = "write_lock"}) < MaxWrites
  /\ \E c \in Chans : Usable(c) /\ via' = [via EXCEPT ![t] = c]
  /\ Goto(t, "idle", "write_lock")
  /\ UNCHANGED <<cs, linkOwner, owner, dat, asleep, at, todo, written, held>>

\* Fault: write() goes through the link's chans without its mutex.
WriteLock_Unlocked(t) ==
  /\ Goto(t, "write_lock", "write_next")
  /\ written' = written + 1
  /\ todo' = [todo EXCEPT ![t] = cs]
  /\ UNCHANGED <<cs, linkOwner, owner, dat, asleep, via, at, held>>

\* scoped_lock lk(chans->m); the order of the writes is the order of this step.
WriteLock(t) ==
  /\ Goto(t, "write_lock", "write_next")
  /\ LockLink(t)
  /\ written' = written + 1
  /\ todo' = [todo EXCEPT ![t] = cs]
  /\ UNCHANGED <<cs, owner, dat, asleep, via, at, held>>

\* The loop over cs, in the order of the chans' addresses.
WriteNext(t) ==
  /\ Goto(t, "write_next", "put_lock")
  /\ \E c \in todo[t] :
       /\ at' = [at EXCEPT ![t] = c]
       /\ todo' = [todo EXCEPT ![t] = @ \ {c}]
  /\ UNCHANGED <<cs, linkOwner, owner, dat, asleep, via, written, held>>

WriteEnd(t) ==
  /\ todo[t] = {}
  /\ Goto(t, "write_next", "idle")
  /\ linkOwner' = Nobody
  /\ UNCHANGED <<cs, owner, dat, asleep, via, at, todo, written, held>>

\* put(r) on the chan at[t], with the link's mutex held throughout.
PutLock(t) ==
  /\ Goto(t, "put_lock", "put_push")
  /\ LockChan(t, at[t])
  /\ UNCHANGED <<cs, linkOwner, dat, asleep, via, at, todo, written, held>>

PutPush(t) ==
  /\ Goto(t, "put_push", "put_unlock")
  /\ dat' = [dat EXCEPT ![at[t]] = Append(@, written)]
  /\ UNCHANGED <<cs, linkOwner, owner, asleep, via, at, todo, written, held>>

\* Fault: put() does not notify.
PutUnlock_Silent(t) ==
  /\ Goto(t, "put_unlock", "write_next")
  /\ UnlockChan(at[t])
  /\ UNCHANGED <<cs, linkOwner, dat, asleep, via, at, todo, written, held>>

PutUnlock(t) ==
  /\ Goto(t, "put_unlock", "put_notify")
  /\ UnlockChan(at[t])
  /\ UNCHANGED <<cs, linkOwner, dat, asleep, via, at, todo, written, held>>

PutNotify(t) ==
  /\ Goto(t, "put_notify", "write_next")
  /\ NotifyAll(at[t])
  /\ UNCHANGED <<cs, linkOwner, owner, dat, via, at, todo, written, held>>

-----------------------------------------------------------------------------
(* dup() and ~chan() *)

DupCall(t) ==
  /\ \E c, d \in Chans :
       /\ Usable(c)
       /\ d \notin cs /\ \A u \in Linkers : ~(Busy(u) /\ at[u] = d)
       /\ via' = [via EXCEPT ![t] = c]
       /\ at' = [at EXCEPT ![t] = d]
  /\ Goto(t, "idle", "dup_lock")
  /\ UNCHANGED <<cs, linkOwner, owner, dat, asleep, todo, written, held>>

DupLock(t) ==
  /\ Goto(t, "dup_lock", "dup_insert")
  /\ LockLink(t)
  /\ UNCHANGED <<cs, owner, dat, asleep, via, at, todo, written, held>>

DupInsert(t) ==
  /\ Goto(t, "dup_insert", "link_unlock")
  /\ cs' = cs \cup {at[t]}
  /\ UNCHANGED <<linkOwner, owner, dat, asleep, via, at, todo, written, held>>

LinkUnlock(t) ==
  /\ Goto(t, "link_unlock", "idle")
  /\ linkOwner' = Nobody
  /\ UNCHANGED <<cs, owner, dat, asleep, via, at, todo, written, held>>

\* One chan is kept to write to.
DropCall(t) ==
  /\ \E c \in cs :
       /\ cs # {c} /\ Usable(c) /\ Unused(c)
       /\ \A u \in Linkers : ~(pc[u] \in {"drop_lock", "drop_erase"})
       /\ via' = [via EXCEPT ![t] = c]
       /\ at' = [at EXCEPT ![t] = c]
  /\ Goto(t, "idle", "drop_lock")
  /\ UNCHANGED <<cs, linkOwner, owner, dat, asleep, todo, written, held>>

DropLock(t) ==
  /\ Goto(t, "drop_lock", "drop_erase")
  /\ LockLink(t)
  /\ UNCHANGED <<cs, owner, dat, asleep, via, at, todo, written, held>>

\* The chan leaves the set; its deque goes with it.
DropErase(t) ==
  /\ Goto(t, "drop_erase", "link_unlock")
  /\ cs' = cs \ {at[t]}
  /\ dat' = [dat EXCEPT ![at[t]] = <<>>]
  /\ held' = [u \in Readers |-> IF ReadsFrom[u] = at[t] THEN 0 ELSE held[u]]
  /\ UNCHANGED <<linkOwner, owner, asleep, via, at, todo, written>>

-----------------------------------------------------------------------------
(* read() and unget(r) *)

ReadCall(t) ==
  /\ Usable(via[t])
  /\ Goto(t, "idle", "read_lock")
  /\ UNCHANGED <<cs, linkOwner, owner, dat, asleep, via, at, todo, written, held>>

ReadLock(t) ==
  /\ Goto(t, "read_lock", "read_loop")
  /\ LockChan(t, via[t])
  /\ UNCHANGED <<cs, linkOwner, dat, asleep, via, at, todo, written, held>>

\* while(dat.empty()) cond.wait(m)
ReadWait(t) ==
  /\ dat[via[t]] = <<>>
  /\ Goto(t, "read_loop", "waiting")
  /\ asleep' = asleep \cup {t}
  /\ UnlockChan(via[t])
  /\ UNCHANGED <<cs, linkOwner, dat, via, at, todo, written, held>>

Spurious(t) ==
  /\ t \in asleep
  /\ asleep' = asleep \ {t}
  /\ UNCHANGED <<cs, linkOwner, owner, dat, pc, via, at, todo, written, held>>

ReadResume(t) ==
  /\ t \notin asleep
  /\ Goto(t, "waiting", "read_loop")
  /\ LockChan(t, via[t])
  /\ UNCHANGED <<cs, linkOwner, dat, asleep, via, at, todo, written, held>>

ReadPass(t) ==
  /\ dat[via[t]] # <<>>
  /\ Goto(t, "read_loop", "read_pop")
  /\ UNCHANGED <<cs, linkOwner, owner, dat, asleep, via, at, todo, written, held>>

ReadPop(t) ==
  /\ Goto(t, "read_pop", "read_unlock")
  /\ held' = [held EXCEPT ![t] = Head(dat[via[t]])]
  /\ dat' = [dat EXCEPT ![via[t]] = Tail(@)]
  /\ UNCHANGED <<cs, linkOwner, owner, asleep, via, at, todo, written>>

ReadUnlock(t) ==
  /\ Goto(t, "read_unlock", "idle")
  /\ UnlockChan(via[t])
  /\ UNCHANGED <<cs, linkOwner, dat, asleep, via, at, todo, written, held>>

UngetCall(t) ==
  /\ Usable(via[t])
  /\ held[t] # 0
  /\ Goto(t, "idle", "unget_lock")
  /\ UNCHANGED <<cs, linkOwner, owner, dat, asleep, via, at, todo, written, held>>

UngetLock(t) ==
  /\ Goto(t, "unget_lock", "unget_push")
  /\ LockChan(t, via[t])
  /\ UNCHANGED <<cs, linkOwner, dat, asleep, via, at, todo, written, held>>

UngetPush(t) ==
  /\ Goto(t, "unget_push", "unget_unlock")
  /\ dat' = [dat EXCEPT ![via[t]] = <<held[t]>> \o @]
  /\ held' = [held EXCEPT ![t] = 0]
  /\ UNCHANGED <<cs, linkOwner, owner, asleep, via, at, todo, written>>

UngetUnlock(t) ==
  /\ Goto(t, "unget_unlock", "unget_notify")
  /\ UnlockChan(via[t])
  /\ UNCHANGED <<cs, linkOwner, dat, asleep, via, at, todo, written, held>>

UngetNotify(t) ==
  /\ Goto(t, "unget_notify", "idle")
  /\ NotifyAll(via[t])
  /\ UNCHANGED <<cs, linkOwner, owner, dat, via, at, todo, written, held>>

-----------------------------------------------------------------------------

\* What a thread does on its own once it is in a call.
WriteStep(t) ==
  \/ WriteLock(t) \/ WriteNext(t) \/ WriteEnd(t)
  \/ PutLock(t) \/ PutPush(t) \/ PutUnlock(t) \/ PutNotify(t)
LinkStep(t) ==
  DupLock(t) \/ DupInsert(t) \/ DropLock(t) \/ DropErase(t) \/ LinkUnlock(t)
ReadStep(t) ==
  \/ ReadLock(t) \/ ReadWait(t) \/ ReadResume(t) \/ ReadPass(t) \/ ReadPop(t) \/ ReadUnlock(t)
  \/ UngetLock(t) \/ UngetPush(t) \/ UngetUnlock(t) \/ UngetNotify(t)

Next ==
  \/ \E t \in Writers : WriteCall(t) \/ WriteStep(t)
  \/ \E t \in Linkers : DupCall(t) \/ DropCall(t) \/ LinkStep(t)
  \/ \E t \in Readers : ReadCall(t) \/ UngetCall(t) \/ Spurious(t) \/ ReadStep(t)

Spec == Init /\ [][Next]_vars

\* Threads that can run do, and a mutex that is free again and again is granted to
\* each thread that asks for it.
FairSpec ==
  /\ Spec
  /\ \A t \in Writers : SF_vars(WriteStep(t))
  /\ \A t \in Linkers : SF_vars(LinkStep(t))
  /\ \A t \in Readers : SF_vars(ReadStep(t))

-----------------------------------------------------------------------------
(* Properties *)

\* A reader sleeps on while there is something to read only if a put() or an
\* unget() of its chan has still to notify.
NoLostWakeup ==
  \A t \in asleep :
    dat[via[t]] # <<>> =>
      \/ \E u \in Writers : at[u] = via[t] /\ pc[u] \in {"put_unlock", "put_notify"}
      \/ \E u \in Readers : via[u] = via[t] /\ pc[u] \in {"unget_unlock", "unget_notify"}

\* The write under way has not come to chan c yet.
Coming(c) ==
  \E t \in Writers : c \in todo[t] \/ (at[t] = c /\ pc[t] \in {"put_lock", "put_push"})

Abstract == INSTANCE Broadcast WITH
  linked <- cs,
  next <- [c \in Chans |-> IF c \notin cs THEN 0
                           ELSE IF dat[c] # <<>> THEN Head(dat[c])
                           ELSE IF Coming(c) THEN written ELSE written + 1]

\* Linked chans deliver one and the same sequence: no message is lost, doubled or
\* overtaken on any of them, though writers put to the chans one after another and
\* chans come, are read and go meanwhile.
ImplementsBroadcast == Abstract!Spec

\* Every write() comes to its end: the link's mutex is always taken before a
\* chan's, and no reader holds a chan's mutex while it waits.
WritesEnd == \A t \in Writers : pc[t] # "idle" ~> pc[t] = "idle"

\* A reader whose chan has something for it gets it.
ReadsEnd ==
  \A t \in Readers :
    pc[t] \in {"read_lock", "read_loop", "waiting"} /\ dat[via[t]] # <<>>
      ~> pc[t] = "read_unlock"

=============================================================================
