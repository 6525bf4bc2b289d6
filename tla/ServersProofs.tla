----------------------------- MODULE ServersProofs -----------------------------
(***************************************************************************)
(* Proofs about the servers of MCServers, for any threads, clients,        *)
(* connections and message ids.  Both inductive invariants say how what a  *)
(* client knows of its call, what is on the way over its connection and    *)
(* what has run at the server fit together; the one of rpc also counts the *)
(* threads and knows who serves each connection.                           *)
(***************************************************************************)
EXTENDS MCServers, Integers, Sequences, FiniteSetTheorems, TLAPS

-----------------------------------------------------------------------------

\* FiniteSets as Rpc sees it is FiniteSets.
LEMMA RpcCard == ASSUME NEW S PROVE R!Cardinality(S) = Cardinality(S)
  BY DEF R!Cardinality, Cardinality

LEMMA RpcFinite == ASSUME NEW S PROVE R!IsFiniteSet(S) <=> IsFiniteSet(S)
  BY DEF R!IsFiniteSet, IsFiniteSet

(* rpc                                                                      *)

\* The types of the state
RpcEnds2 == {"open", "closed"}
RpcServerSteps == {"none", "test", "enter", "accept", "serve", "leave"}
RpcCallerSteps == {"idle", "stop", "connect", "pong", "request", "reply"}
RpcCallKinds == {"exit", "good", "unknown", "version", "throws"}
RpcOutcomes == {"none", "pong", "ok", "not_found", "version_mismatch", "no_connection", "rpc_error"}
RpcUps == Seq(R!Callers \cup {"ping"})
RpcDowns == Seq({"pong", "ok", "not_found", "version_mismatch"})
RpcLinks == [up : RpcUps, down : RpcDowns, server : RpcEnds2, client : RpcEnds2]

RpcServerTypes ==
  /\ state \in {"STOPPED", "RUNNING", "STOPPING"}
  /\ running \in Int
  /\ listening \in BOOLEAN
  /\ backlog \in Seq(RpcConns)
  /\ pc \in [Threads -> RpcServerSteps]
  /\ serves \in [Threads -> RpcConns \cup {None}]
  /\ link \in [RpcConns -> RpcLinks]

RpcClientTypes ==
  /\ step \in [R!Callers -> RpcCallerSteps]
  /\ ss \in [R!Callers -> RpcConns \cup {None}]
  /\ kind \in [R!Callers -> RpcCallKinds]
  /\ ran \in [R!Callers -> Nat]
  /\ outcome \in [R!Callers -> RpcOutcomes]
  /\ kind[Stopper] = "exit" /\ ran[Stopper] = 0
  /\ \A c \in R!Callers : step[c] \in {"pong", "request", "reply"} => ss[c] # None

\* A connection with an open client end is some one caller's.
RpcOwned ==
  /\ \A c \in R!Callers : ss[c] # None => link[ss[c]].client = "open"
  /\ \A c, d \in R!Callers : ss[c] # None /\ ss[c] = ss[d] => c = d
  /\ \A k \in RpcConns : link[k].client = "open" => \E c \in R!Callers : ss[c] = k
  /\ \A k \in RpcConns : link[k].client = "closed" => link[k].up = <<>> /\ link[k].down = <<>>
  /\ \A k \in RpcConns : link[k].server = "closed" => link[k].up = <<>>

\* What is on the way between a caller and the server, by the caller's step
RpcConversation(c) ==
  LET l == link[ss[c]] IN
  /\ step[c] \in {"idle", "stop", "connect", "request"} /\ ss[c] # None
       => l.up = <<>> /\ l.down = <<>>
  /\ step[c] = "pong" => \/ l.up = <<"ping">> /\ l.down = <<>>
                         \/ l.up = <<>> /\ l.down \in {<<>>, <<"pong">>}
  /\ step[c] = "reply" => \/ l.up = <<c>> /\ l.down = <<>> /\ ran[c] = 0
                          \/ l.up = <<>> /\ l.down = <<>> /\ ran[c] \in {0, 1}
                          \/ /\ l.up = <<>> /\ R!Answer(c) # None /\ l.down = <<R!Answer(c)>>
                             /\ ran[c] = IF R!Invoked(c) THEN 1 ELSE 0

\* What a client knows of its call, by its step: the method has not run before the request
\* is out, and what the call says at its end is true.
RpcToldOf(c) ==
  /\ step[c] # "stop"
  /\ step[c] \in {"connect", "pong", "request"} => ran[c] = 0
  /\ step[c] # "idle" => kind[c] \in RpcKinds /\ outcome[c] = "none"
  /\ step[c] = "idle" =>
       /\ ran[c] <= 1
       /\ outcome[c] = "ok" => ran[c] = 1 /\ kind[c] = "good"
       /\ outcome[c] \in {"not_found", "version_mismatch", "no_connection"} => ran[c] = 0

RpcTold == \A c \in Clients : RpcToldOf(c)

RpcRunning == {t \in Threads : pc[t] # "none"}

\* running counts the threads in process(), and there is none when state is STOPPED.
RpcQuietThreads ==
  /\ running = Cardinality(RpcRunning)
  /\ state = "STOPPED" => RpcRunning = {}
  /\ listening => state = "RUNNING"
  /\ \A t \in Threads : pc[t] = "leave" => state = "STOPPING"
  /\ \A t \in Threads : serves[t] # None <=> pc[t] = "serve"

\* Whoever has a connection is served: an open server end is in the backlog of a server
\* that can be reached, or is some thread's.
RpcQuietConns ==
  /\ backlog # <<>> => R!Alive
  /\ \A k \in RpcConns : link[k].server = "open" =>
       k \in R!Queued \/ \E t \in Threads : serves[t] = k

RpcQuiet == RpcQuietThreads /\ RpcQuietConns

RpcTalk == RpcOwned /\ (\A c \in R!Callers : RpcConversation(c)) /\ RpcTold

\* The queues of a connection, and what taking and adding a message does to their types
LEMMA RpcMessages ==
  /\ <<>> \in RpcUps /\ <<>> \in RpcDowns
  /\ \A m \in R!Callers \cup {"ping"} : <<m>> \in RpcUps
  /\ \A q \in RpcUps, m \in R!Callers \cup {"ping"} : Append(q, m) \in RpcUps
  /\ \A q \in RpcUps : q # <<>> => Head(q) \in R!Callers \cup {"ping"} /\ Tail(q) \in RpcUps
  /\ \A q \in RpcDowns, r \in {"pong", "ok", "not_found", "version_mismatch"} : Append(q, r) \in RpcDowns
  /\ \A q \in RpcDowns : q # <<>> => Tail(q) \in RpcDowns /\ Head(q) \in {"pong", "ok", "not_found", "version_mismatch"}
  BY DEF RpcUps, RpcDowns

LEMMA RpcTypesInit == R!RpcAssumption /\ R!Init => RpcServerTypes /\ RpcClientTypes
  <1> SUFFICES ASSUME R!RpcAssumption, R!Init PROVE RpcServerTypes /\ RpcClientTypes
    OBVIOUS
  <1>1. R!Closed \in RpcLinks
    BY RpcMessages DEF R!Closed, RpcLinks, RpcEnds2
  <1>2. link \in [RpcConns -> RpcLinks]
    BY <1>1 DEF R!Init
  <1>3. RpcServerTypes
    <2>1. backlog \in Seq(RpcConns)
      BY DEF R!Init
    <2>2. pc \in [Threads -> RpcServerSteps]
      BY DEF R!Init, RpcServerSteps
    <2>3. serves \in [Threads -> RpcConns \cup {None}]
      BY DEF R!Init
    <2>4. state \in {"STOPPED", "RUNNING", "STOPPING"} /\ running \in Int
      BY DEF R!Init
    <2>6. listening \in BOOLEAN
      BY Zenon DEF R!Init
    <2>5. QED
      BY <1>2, <2>1, <2>2, <2>3, <2>4, <2>6 DEF RpcServerTypes
  <1>4. RpcClientTypes
    <2>1. step \in [R!Callers -> RpcCallerSteps]
      BY DEF R!Init, RpcCallerSteps
    <2>2. ss \in [R!Callers -> RpcConns \cup {None}]
      BY DEF R!Init
    <2>3. kind \in [R!Callers -> RpcCallKinds]
      BY DEF R!Init, RpcCallKinds
    <2>4. ran \in [R!Callers -> Nat]
      BY DEF R!Init
    <2>5. outcome \in [R!Callers -> RpcOutcomes]
      BY DEF R!Init, RpcOutcomes
    <2>6. kind[Stopper] = "exit" /\ ran[Stopper] = 0 /\ \A c \in R!Callers : step[c] = "idle"
      BY DEF R!Init, R!Callers
    <2>7. QED
      BY <2>1, <2>2, <2>3, <2>4, <2>5, <2>6 DEF RpcClientTypes
  <1>5. QED
    BY <1>3, <1>4

\* What process() writes, unless the client is gone
RpcSaid(l, r) == IF l.client = "open" THEN Append(l.down, r) ELSE l.down

\* The server's end of connection k is closed
RpcCloses(k, l, n) ==
  /\ n \in [RpcConns -> RpcLinks]
  /\ \A j \in RpcConns : j # k => n[j] = l[j]
  /\ n[k].up = <<>> /\ n[k].server = "closed"
  /\ n[k].down = l[k].down /\ n[k].client = l[k].client

\* What an action does to the connections
LEMMA RpcDoneDoes ==
  ASSUME NEW t \in Threads, serves[t] \in RpcConns, NEW l \in [RpcConns -> RpcLinks], R!Done(t, l)
  PROVE RpcCloses(serves[t], l, link')
  <1> DEFINE k == serves[t]
  <1>1. PICK none : none = <<>> /\ link' = [l EXCEPT ![k].server = "closed", ![k].up = none]
    BY Zenon DEF R!Done
  <1>2. none \in RpcUps
    BY <1>1, RpcMessages
  <1>3. link' = [l EXCEPT ![k].server = "closed", ![k].up = none]
    BY <1>1
  <1>4. /\ \A n \in RpcConns : n # k => link'[n] = l[n]
        /\ link'[k].client = l[k].client /\ link'[k].down = l[k].down
        /\ link'[k].server = "closed" /\ link'[k].up = none /\ link' \in [RpcConns -> RpcLinks]
    BY <1>2, <1>3 DEF RpcLinks, RpcEnds2
  <1>5. QED
    BY <1>4, <1>1 DEF RpcCloses

LEMMA RpcLeftDoes ==
  ASSUME RpcServerTypes, NEW k \in RpcConns, link' = [link EXCEPT ![k] = R!LeftByClient(k)]
  PROVE /\ link' \in [RpcConns -> RpcLinks]
        /\ \A n \in RpcConns : n # k => link'[n] = link[n]
        /\ link'[k].down = <<>> /\ link'[k].client = "closed"
        /\ link'[k].up = link[k].up /\ link'[k].server = link[k].server
  <1>1. PICK none : none = <<>> /\ R!LeftByClient(k) = [link[k] EXCEPT !.client = "closed", !.down = none]
    BY Zenon DEF R!LeftByClient
  <1>2. none \in RpcDowns
    BY <1>1, RpcMessages
  <1>3. R!LeftByClient(k) = [link[k] EXCEPT !.client = "closed", !.down = none]
    BY <1>1
  <1> DEFINE l == R!LeftByClient(k)
  <1>4. /\ l \in RpcLinks /\ l.down = none /\ l.client = "closed"
        /\ l.up = link[k].up /\ l.server = link[k].server
    BY <1>2, <1>3 DEF RpcServerTypes, RpcLinks, RpcEnds2
  <1>5. link' \in [RpcConns -> RpcLinks] /\ link'[k] = l /\ \A n \in RpcConns : n # k => link'[n] = link[n]
    BY <1>4 DEF RpcServerTypes
  <1>6. QED
    BY <1>4, <1>5, <1>1

LEMMA RpcSendsDoes ==
  ASSUME RpcServerTypes, NEW k \in RpcConns, NEW m \in R!Callers \cup {"ping"}, link' = R!Sends(k, m)
  PROVE /\ link' \in [RpcConns -> RpcLinks]
        /\ \A n \in RpcConns : n # k => link'[n] = link[n]
        /\ link'[k].up = IF link[k].server = "open" THEN Append(link[k].up, m) ELSE link[k].up
        /\ link'[k].server = link[k].server
        /\ link'[k].down = link[k].down /\ link'[k].client = link[k].client
  BY RpcMessages DEF RpcServerTypes, R!Sends, RpcLinks, RpcEnds2

LEMMA RpcHeardDoes ==
  ASSUME RpcServerTypes, NEW c \in R!Callers, ss[c] \in RpcConns, R!Hears(c), link' = R!HeardOf(c)
  PROVE /\ link' \in [RpcConns -> RpcLinks]
        /\ \A n \in RpcConns : n # ss[c] => link'[n] = link[n]
        /\ link'[ss[c]].down = Tail(link[ss[c]].down)
        /\ link'[ss[c]].server = link[ss[c]].server
        /\ link'[ss[c]].up = link[ss[c]].up /\ link'[ss[c]].client = link[ss[c]].client
  BY RpcMessages DEF RpcServerTypes, R!HeardOf, R!Hears, RpcLinks, RpcEnds2

\* Only ends of the server are closed
RpcClosing ==
  /\ link' \in [RpcConns -> RpcLinks]
  /\ \A n \in RpcConns :
       \/ link'[n] = link[n]
       \/ /\ link'[n].up = <<>> /\ link'[n].server = "closed"
          /\ link'[n].down = link[n].down /\ link'[n].client = link[n].client

LEMMA RpcResetsDoes ==
  ASSUME RpcServerTypes, NEW S, link' = R!Resets(S)
  PROVE /\ RpcClosing
        /\ \A n \in RpcConns : n \in S => link'[n].server = "closed"
        /\ \A n \in RpcConns : n \notin S => link'[n] = link[n]
  <1>1. PICK none : none = <<>> /\ link' = [k \in RpcConns |-> IF k \in S THEN [link[k] EXCEPT !.server = "closed", !.up = none]
                                                         ELSE link[k]]
    BY Zenon DEF R!Resets
  <1>2. none \in RpcUps
    BY <1>1, RpcMessages
  <1>3. link' = [k \in RpcConns |-> IF k \in S THEN [link[k] EXCEPT !.server = "closed", !.up = none]
                                               ELSE link[k]]
    BY <1>1
  <1>4. \A n \in RpcConns : n \in S =>
          /\ link'[n].client = link[n].client /\ link'[n].down = link[n].down
          /\ link'[n].server = "closed" /\ link'[n].up = none /\ link'[n] \in RpcLinks
    BY <1>2, <1>3 DEF RpcServerTypes, RpcLinks, RpcEnds2
  <1>5. \A n \in RpcConns : n \notin S => link'[n] = link[n]
    BY <1>3
  <1>6. link' \in [RpcConns -> RpcLinks]
    BY <1>2, <1>3 DEF RpcServerTypes, RpcLinks, RpcEnds2
  <1>7. QED
    BY <1>1, <1>4, <1>5, <1>6 DEF RpcClosing

LEMMA RpcOwnedClosing ==
  ASSUME RpcServerTypes, RpcClientTypes, RpcOwned, RpcClosing, UNCHANGED ss PROVE RpcOwned'
  <1> USE DEF RpcServerTypes, RpcClientTypes
  <1>1. \A n \in RpcConns : link'[n].client = link[n].client
    BY DEF RpcClosing
  <1>2. \A n \in RpcConns : link[n].client = "open" => \E c \in R!Callers : ss[c] = n
    BY DEF RpcOwned
  <1>3. \A n \in RpcConns : link'[n].client = "open" => \E c \in R!Callers : ss'[c] = n
    BY <1>1, <1>2
  <1>4. \A n \in RpcConns : /\ link'[n].client = "closed" => link'[n].up = <<>> /\ link'[n].down = <<>>
                            /\ link'[n].server = "closed" => link'[n].up = <<>>
    BY DEF RpcOwned, RpcClosing
  <1>5. \A c, d \in R!Callers : ss'[c] # None => link'[ss'[c]].client = "open" /\ (ss'[c] = ss'[d] => c = d)
    BY <1>1 DEF RpcOwned
  <1>6. QED
    BY <1>3, <1>4, <1>5 DEF RpcOwned

LEMMA RpcTalkClosing ==
  ASSUME RpcServerTypes, RpcClientTypes, RpcTalk, RpcClosing, UNCHANGED <<ss, kind, ran, outcome>>,
         \A c \in R!Callers : \/ step'[c] = step[c]
                              \/ c \notin Clients /\ step[c] = "idle" /\ step'[c] = "stop"
  PROVE RpcTalk'
  <1> USE DEF RpcServerTypes, RpcClientTypes
  <1>1. RpcOwned'
    BY RpcOwnedClosing DEF RpcTalk
  <1>2. ASSUME NEW c \in R!Callers PROVE RpcConversation(c)'
    <2>1. CASE ss[c] = None
      BY <2>1 DEF RpcTalk, RpcConversation
    <2>2. CASE ss[c] # None
      <3>1. ss[c] \in RpcConns
        BY <2>2
      <3>2. RpcConversation(c) /\ R!Answer(c)' = R!Answer(c) /\ R!Invoked(c)' = R!Invoked(c)
        BY DEF RpcTalk, R!Answer, R!Invoked
      <3>3. CASE link'[ss[c]] = link[ss[c]]
        BY <3>2, <3>3 DEF RpcConversation
      <3>4. CASE link'[ss[c]].up = <<>> /\ link'[ss[c]].down = link[ss[c]].down
        BY <3>2, <3>4 DEF RpcConversation
      <3>5. QED
        BY <3>1, <3>3, <3>4 DEF RpcClosing
    <2>3. QED
      BY <2>1, <2>2
  <1>3. RpcTold'
    BY DEF RpcTalk, RpcTold, RpcToldOf, R!Callers
  <1>4. QED
    BY <1>1, <1>2, <1>3 DEF RpcTalk

\* What a turn of process() does to the connection, by what it reads
LEMMA RpcServeDoes ==
  ASSUME R!RpcAssumption, RpcServerTypes, RpcClientTypes, RpcQuiet, NEW t \in Threads, R!Serve(t)
  PROVE LET k == serves[t] IN
        LET m == Head(link[k].up) IN
        /\ k \in RpcConns /\ m \in R!Callers \cup {"ping"} /\ link[k].up # <<>>
        /\ link' \in [RpcConns -> RpcLinks]
        /\ \A n \in RpcConns : n # k => link'[n] = link[n]
        /\ link'[k].client = link[k].client
        /\ \/ /\ m = "ping" /\ UNCHANGED <<pc, serves, ran>>
              /\ link'[k].up = Tail(link[k].up) /\ link'[k].server = link[k].server
              /\ link'[k].down = RpcSaid(link[k], "pong")
           \/ /\ m \in R!Callers /\ R!Invoked(m) /\ UNCHANGED <<pc, serves>>
              /\ ran' = [ran EXCEPT ![m] = @ + 1]
              /\ link'[k].up = Tail(link[k].up) /\ link'[k].server = link[k].server
              /\ link'[k].down = IF R!Answer(m) = None THEN link[k].down ELSE RpcSaid(link[k], R!Answer(m))
           \/ /\ m \in R!Callers /\ ~R!Invoked(m) /\ ran' = ran
              /\ serves' = [serves EXCEPT ![t] = None] /\ pc' = [pc EXCEPT ![t] = "test"]
              /\ link'[k].up = <<>> /\ link'[k].server = "closed"
              /\ link'[k].down = RpcSaid(link[k], R!Answer(m))
  <1> DEFINE k == serves[t]
  <1> DEFINE m == Head(link[k].up)
  <1>1. k \in RpcConns /\ m \in R!Callers \cup {"ping"} /\ link[k].up # <<>> /\ Tail(link[k].up) \in RpcUps
    BY RpcMessages DEF R!Serve, RpcServerTypes, RpcQuiet, RpcQuietThreads, RpcQuietConns, RpcLinks
  <1> DEFINE read == [link EXCEPT ![k].up = Tail(@)]
  <1> DEFINE said(r) == [read EXCEPT ![k].down = IF link[k].client = "open" THEN Append(@, r) ELSE @]
  <1>2. /\ m = "ping" => link' = said("pong") /\ UNCHANGED <<pc, serves, ran>>
        /\ m # "ping" =>
             /\ ran' = IF R!Invoked(m) THEN [ran EXCEPT ![m] = @ + 1] ELSE ran
             /\ IF R!Invoked(m)
                THEN /\ link' = IF R!Answer(m) = None THEN read ELSE said(R!Answer(m))
                     /\ UNCHANGED <<pc, serves>>
                ELSE R!Done(t, said(R!Answer(m)))
    BY DEF R!Serve
  <1> HIDE DEF m
  <1>3. /\ read \in [RpcConns -> RpcLinks]
        /\ \A n \in RpcConns : n # k => read[n] = link[n]
        /\ read[k].up = Tail(link[k].up) /\ read[k].down = link[k].down
        /\ read[k].server = link[k].server /\ read[k].client = link[k].client
    BY <1>1 DEF RpcServerTypes, RpcLinks
  <1> HIDE DEF read, k
  <1>4. ASSUME NEW r \in {"pong", "ok", "not_found", "version_mismatch"}
        PROVE /\ said(r) \in [RpcConns -> RpcLinks]
              /\ \A n \in RpcConns : n # k => said(r)[n] = link[n]
              /\ said(r)[k].up = Tail(link[k].up) /\ said(r)[k].down = RpcSaid(link[k], r)
              /\ said(r)[k].server = link[k].server /\ said(r)[k].client = link[k].client
    BY <1>1, <1>3, RpcMessages DEF RpcLinks, RpcSaid
  <1> HIDE DEF said
  <1>5. CASE m = "ping"
    BY <1>1, <1>2, <1>4, <1>5 DEF k, m
  <1>6. CASE m # "ping"
    <2>1. /\ m \in R!Callers
          /\ R!Answer(m) = None \/ R!Answer(m) \in {"ok", "not_found", "version_mismatch"}
          /\ ~R!Invoked(m) => R!Answer(m) \in {"ok", "not_found", "version_mismatch"}
      BY <1>1, <1>6 DEF R!Answer, R!Invoked, RpcClientTypes, RpcCallKinds
    <2>2. CASE R!Invoked(m)
      BY <1>1, <1>2, <1>3, <1>4, <1>6, <2>1, <2>2 DEF k, m
    <2>3. CASE ~R!Invoked(m)
      <3> DEFINE l == said(R!Answer(m))
      <3>1. /\ l \in [RpcConns -> RpcLinks]
            /\ \A n \in RpcConns : n # k => l[n] = link[n]
            /\ l[k].down = RpcSaid(link[k], R!Answer(m)) /\ l[k].client = link[k].client
        BY <1>4, <2>1, <2>3
      <3>2. R!Done(t, l) /\ ran' = ran
        BY <1>2, <1>6, <2>3
      <3> HIDE DEF l
      <3>3. RpcCloses(k, l, link')
        BY <1>1, <3>1, <3>2, RpcDoneDoes DEF k
      <3>5. QED
        BY <1>1, <2>1, <2>3, <3>1, <3>2, <3>3 DEF R!Done, RpcCloses, k, m
    <2>4. QED
      BY <2>2, <2>3
  <1>7. QED
    BY <1>5, <1>6

\* The inductive invariant
RpcInv == RpcServerTypes /\ RpcClientTypes /\ RpcQuiet /\ RpcTalk

LEMMA RpcInvInit == R!RpcAssumption /\ R!Init => RpcInv
  <1> SUFFICES ASSUME R!RpcAssumption, R!Init PROVE RpcInv
    OBVIOUS
  <1>1. /\ \A k \in RpcConns : link[k].up = <<>> /\ link[k].down = <<>>
                               /\ link[k].server = "closed" /\ link[k].client = "closed"
        /\ \A c \in R!Callers : ss[c] = None /\ step[c] = "idle"
    BY DEF R!Init, R!Closed
  <1>2. RpcTalk
    <2>1. RpcTold
      BY <1>1 DEF R!Init, RpcTold, RpcToldOf, R!Callers
    <2>2. RpcOwned /\ \A c \in R!Callers : RpcConversation(c)
      BY <1>1 DEF RpcOwned, RpcConversation, R!Callers
    <2>3. QED
      BY <2>1, <2>2 DEF RpcTalk
  <1>3. RpcQuiet
    <2>1. RpcRunning = {} /\ backlog = <<>>
      BY DEF R!Init, RpcRunning
    <2>2. running = Cardinality(RpcRunning)
      BY <2>1, FS_EmptySet DEF R!Init
    <2>3. listening = FALSE /\ \A t \in Threads : pc[t] = "none" /\ serves[t] = None
      BY DEF R!Init
    <2>4. QED
      BY <1>1, <2>1, <2>2, <2>3 DEF RpcQuiet, RpcQuietThreads, RpcQuietConns
  <1>4. QED
    BY <1>2, <1>3, RpcTypesInit DEF RpcInv

\* Nothing runs at the server but what holds in every state
LEMMA RpcQueuedIs ==
  ASSUME RpcServerTypes PROVE /\ R!Queued \subseteq RpcConns
                              /\ (backlog = <<>> => R!Queued = {})
                              /\ (backlog # <<>> => /\ Head(backlog) \in R!Queued
                                                    /\ Tail(backlog) \in Seq(RpcConns)
                                                    /\ \A k \in R!Queued : k # Head(backlog) =>
                                                         \E i \in DOMAIN Tail(backlog) : Tail(backlog)[i] = k)
  <1>1. R!Queued \subseteq RpcConns /\ (backlog = <<>> => R!Queued = {})
    BY DEF RpcServerTypes, R!Queued
  <1>2. ASSUME backlog # <<>> PROVE Head(backlog) \in R!Queued /\ Tail(backlog) \in Seq(RpcConns)
    BY <1>2 DEF RpcServerTypes, R!Queued
  <1>3. ASSUME backlog # <<>>, NEW k \in R!Queued, k # Head(backlog)
        PROVE \E i \in DOMAIN Tail(backlog) : Tail(backlog)[i] = k
    <2>1. PICK i \in DOMAIN backlog : backlog[i] = k
      BY DEF R!Queued
    <2>2. i \in 2..Len(backlog)
      BY <1>3, <2>1 DEF RpcServerTypes
    <2>3. i - 1 \in DOMAIN Tail(backlog) /\ Tail(backlog)[i - 1] = k
      BY <1>3, <2>1, <2>2 DEF RpcServerTypes
    <2>4. QED
      BY <2>3
  <1>4. QED
    BY <1>1, <1>2, <1>3

LEMMA RpcClientSame ==
  ASSUME RpcServerTypes, RpcClientTypes, UNCHANGED <<R!client, ran>> PROVE RpcClientTypes'
  BY DEF RpcClientTypes, R!client

LEMMA RpcTalkSame ==
  ASSUME RpcTalk, UNCHANGED <<R!client, ran, link>> PROVE RpcTalk'
  <1>1. RpcOwned'
    BY DEF RpcTalk, RpcOwned, R!client
  <1>2. \A c \in R!Callers : RpcConversation(c)'
    <2>1. \A c \in R!Callers : R!Answer(c)' = R!Answer(c) /\ R!Invoked(c)' = R!Invoked(c)
      BY DEF R!Answer, R!Invoked, R!client
    <2>2. QED
      BY <2>1 DEF RpcTalk, RpcConversation, R!client
  <1>3. RpcTold'
    BY DEF RpcTalk, RpcTold, RpcToldOf, R!client
  <1>4. QED
    BY <1>1, <1>2, <1>3 DEF RpcTalk

\* Every action keeps it: serv(), stop() and the threads first.
LEMMA RpcStartInv == ASSUME R!RpcAssumption, RpcInv, R!Start PROVE RpcInv'
  <1> USE DEF RpcInv
  <1>1. RpcRunning = {} /\ backlog = <<>> /\ \A t \in Threads : serves[t] = None
    <2>1. RpcRunning = {}
      BY DEF R!Start, RpcQuiet, RpcQuietThreads, RpcQuietConns
    <2>2. backlog = <<>>
      BY Zenon DEF R!Start, RpcQuiet, RpcQuietThreads, RpcQuietConns
    <2>3. \A t \in Threads : pc[t] # "serve"
      BY <2>1 DEF RpcRunning
    <2>4. QED
      BY <2>1, <2>2, <2>3 DEF RpcQuiet, RpcQuietThreads, RpcQuietConns
  <1>2. \A k \in RpcConns : link[k].server # "open"
    <2>1. R!Queued = {}
      BY <1>1 DEF R!Queued
    <2>2. \A k \in RpcConns : link[k].server = "open" => k \in R!Queued \/ \E t \in Threads : serves[t] = k
      BY Zenon DEF RpcQuiet, RpcQuietThreads, RpcQuietConns
    <2>3. \A k \in RpcConns, t \in Threads : serves[t] = k => k = None
      BY <1>1
    <2>4. None \notin RpcConns
      BY DEF R!RpcAssumption
    <2>5. QED
      BY <2>1, <2>2, <2>3, <2>4, Zenon
  <1>3. RpcRunning' = Threads /\ listening' = TRUE /\ backlog' = <<>> /\ state' = "RUNNING"
    BY DEF R!Start, RpcRunning
  <1>4. RpcServerTypes'
    <2>1. running' \in Int
      BY FS_CardinalityType, RpcCard, RpcFinite DEF R!Start, R!RpcAssumption
    <2>2. pc' \in [Threads -> RpcServerSteps] /\ listening' \in BOOLEAN
      BY DEF R!Start, RpcServerSteps
    <2>3. backlog' \in Seq(RpcConns)
      BY <1>3
    <2>4. QED
      BY <2>1, <2>2, <2>3, <1>3 DEF R!Start, RpcServerTypes
  <1>5. RpcClientTypes' /\ RpcTalk'
    BY RpcClientSame, RpcTalkSame DEF R!Start
  <1>6. RpcQuiet'
    <2>1. running' = Cardinality(RpcRunning')
      BY <1>3, RpcCard DEF R!Start
    <2>2. state' # "STOPPED" /\ \A t \in Threads : pc'[t] = "test" /\ serves'[t] = None
      BY <1>1 DEF R!Start
    <2>3. \A k \in RpcConns : link'[k].server # "open"
      BY <1>2 DEF R!Start
    <2>4. QED
      BY <1>3, <2>1, <2>2, <2>3 DEF RpcQuiet, RpcQuietThreads, RpcQuietConns
  <1>7. QED
    BY <1>4, <1>5, <1>6

LEMMA RpcServReturnInv == ASSUME RpcInv, R!ServReturn PROVE RpcInv'
  BY RpcClientSame, RpcTalkSame DEF R!ServReturn, RpcInv, RpcServerTypes, RpcQuiet, RpcQuietThreads,
     RpcQuietConns, RpcRunning, R!Alive, R!Queued, R!client

LEMMA RpcTestInv == ASSUME RpcInv, NEW t \in Threads, R!Test(t) PROVE RpcInv'
  <1> USE DEF RpcInv, R!Test
  <1>1. RpcServerTypes'
    BY DEF RpcServerTypes, RpcServerSteps
  <1>2. RpcRunning' = RpcRunning
    BY DEF RpcServerTypes, RpcRunning
  <1>3. state # "STOPPED"
    BY DEF RpcQuiet, RpcQuietThreads, RpcQuietConns, RpcRunning
  <1>4. RpcQuiet'
    BY <1>2, <1>3 DEF RpcServerTypes, RpcQuiet, RpcQuietThreads, RpcQuietConns, R!Alive, R!Queued
  <1>5. QED
    BY <1>1, <1>4, RpcClientSame, RpcTalkSame

LEMMA RpcEnterAcceptInv == ASSUME RpcInv, NEW t \in Threads, R!EnterAccept(t) PROVE RpcInv'
  <1> USE DEF RpcInv, R!EnterAccept
  <1>1. RpcServerTypes'
    BY DEF RpcServerTypes, RpcServerSteps
  <1>2. RpcRunning' = RpcRunning
    BY DEF RpcServerTypes, RpcRunning
  <1>3. RpcQuiet'
    BY <1>2 DEF RpcServerTypes, RpcQuiet, RpcQuietThreads, RpcQuietConns, R!Alive, R!Queued
  <1>4. QED
    BY <1>1, <1>3, RpcClientSame, RpcTalkSame

LEMMA RpcDoneInv ==
  ASSUME RpcInv, NEW t \in Threads, pc[t] = "serve", RpcCloses(serves[t], link, link'),
         serves' = [serves EXCEPT ![t] = None], pc' = [pc EXCEPT ![t] = "test"],
         UNCHANGED <<state, running, mutex, listening, backlog, serv, R!client, ran>>
  PROVE RpcInv'
  <1> USE DEF RpcInv
  <1>1. RpcServerTypes'
    BY DEF RpcServerTypes, RpcServerSteps, RpcCloses
  <1>2. RpcRunning' = RpcRunning
    BY DEF RpcServerTypes, RpcRunning
  <1>3. RpcQuiet'
    BY <1>2 DEF RpcServerTypes, RpcQuiet, RpcQuietThreads, RpcQuietConns, R!Alive, R!Queued, RpcCloses
  <1>4. RpcClosing
    BY DEF RpcCloses, RpcClosing
  <1>5. QED
    BY <1>1, <1>3, <1>4, RpcClientSame, RpcTalkClosing DEF R!client

LEMMA RpcEofTimeoutInv == ASSUME RpcInv, NEW t \in Threads, R!Eof(t) \/ R!Timeout(t) PROVE RpcInv'
  <1>1. serves[t] \in RpcConns /\ link \in [RpcConns -> RpcLinks] /\ R!Done(t, link) /\ pc[t] = "serve"
    BY DEF R!Eof, R!Timeout, RpcInv, RpcQuiet, RpcQuietThreads, RpcQuietConns, RpcServerTypes
  <1>2. QED
    BY <1>1, RpcDoneDoes, RpcDoneInv DEF R!Eof, R!Timeout, R!Done

LEMMA RpcLeaveInv == ASSUME R!RpcAssumption, RpcInv, NEW t \in Threads, R!Leave(t) PROVE RpcInv'
  <1> USE DEF RpcInv, R!Leave
  <1>1. t \in RpcRunning /\ RpcRunning' = RpcRunning \ {t} /\ IsFiniteSet(RpcRunning)
    BY FS_Subset, RpcFinite DEF RpcRunning, RpcServerTypes, R!RpcAssumption
  <1>2. running' = Cardinality(RpcRunning') /\ running' \in Int
    BY <1>1, FS_RemoveElement, FS_CardinalityType DEF RpcQuiet, RpcQuietThreads, RpcQuietConns,
       RpcServerTypes
  <1>3. state' = "STOPPED" => RpcRunning' = {}
    <2>1. state = "STOPPING"
      BY DEF RpcQuiet, RpcQuietThreads, RpcQuietConns
    <2>2. IsFiniteSet(RpcRunning') /\ running' \in Nat
      BY <1>1, <1>2, FS_Subset, FS_CardinalityType
    <2>3. QED
      BY <2>1, <2>2, <1>2, FS_EmptySet
  <1>4. RpcServerTypes'
    BY <1>2 DEF RpcServerTypes, RpcServerSteps
  <1>5. RpcQuiet'
    <2>1. state = "STOPPING" /\ ~listening /\ R!Alive' = R!Alive /\ R!Queued' = R!Queued
      BY DEF RpcQuiet, RpcQuietThreads, RpcQuietConns, R!Alive, R!Queued, RpcServerTypes
    <2>2. \A u \in Threads : pc'[u] = "leave" => u \in RpcRunning'
      BY DEF RpcServerTypes, RpcRunning
    <2>3. \A u \in Threads : pc'[u] = "leave" => state' = "STOPPING"
      BY <1>3, <2>1, <2>2
    <2>4. \A u \in Threads : serves'[u] # None <=> pc'[u] = "serve"
      BY DEF RpcQuiet, RpcQuietThreads, RpcQuietConns, RpcServerTypes
    <2>5. QED
      BY <1>2, <1>3, <2>1, <2>3, <2>4 DEF RpcQuiet, RpcQuietThreads, RpcQuietConns
  <1>6. QED
    BY <1>4, <1>5, RpcClientSame, RpcTalkSame

LEMMA RpcBacklogAs == ASSUME RpcServerTypes, backlog' = Tail(backlog), backlog # <<>>
  PROVE \A k \in R!Queued : k = Head(backlog) \/ k \in R!Queued'
  BY RpcQueuedIs DEF R!Queued

LEMMA RpcAcceptInv == ASSUME R!RpcAssumption, RpcInv, NEW t \in Threads, R!Accept(t) PROVE RpcInv'
  <1> USE DEF RpcInv
  <1> DEFINE k == Head(backlog)
  <1>1. k \in RpcConns /\ Tail(backlog) \in Seq(RpcConns) /\ pc[t] = "accept" /\ backlog # <<>>
    BY RpcQueuedIs DEF R!Accept
  <1>2. /\ serves' = [serves EXCEPT ![t] = k] /\ pc' = [pc EXCEPT ![t] = "serve"]
        /\ UNCHANGED <<state, running, mutex, listening, serv, R!client, ran>>
    BY DEF R!Accept
  <1>3. pc' \in [Threads -> RpcServerSteps] /\ serves' \in [Threads -> RpcConns \cup {None}]
    BY <1>1, <1>2 DEF RpcServerTypes, RpcServerSteps
  <1>4. RpcRunning' = RpcRunning
    BY <1>1, <1>2 DEF RpcServerTypes, RpcRunning
  <1> HIDE DEF k
  <1>5. /\ RpcQuietThreads'
        /\ \A n \in RpcConns : (\E u \in Threads : serves[u] = n) => \E u \in Threads : serves'[u] = n
        /\ \E u \in Threads : serves'[u] = k
    <2>1. serves[t] = None /\ k # None
      BY <1>1 DEF RpcQuiet, RpcQuietThreads, R!RpcAssumption
    <2>2. RpcQuietThreads'
      BY <1>1, <1>2, <1>4, <2>1 DEF RpcServerTypes, RpcQuiet, RpcQuietThreads
    <2>3. serves'[t] = k /\ \A u \in Threads : u # t => serves'[u] = serves[u]
      BY <1>2 DEF RpcServerTypes
    <2>4. \A n \in RpcConns : (\E u \in Threads : serves[u] = n) => \E u \in Threads : serves'[u] = n
      BY <2>1, <2>3 DEF R!RpcAssumption
    <2>5. QED
      BY <2>2, <2>3, <2>4
  <1>6. CASE listening \/ \E u \in Threads \ {t} : pc[u] = "accept"
    <2>1. backlog' = Tail(backlog) /\ link' = link
      BY <1>6 DEF R!Accept
    <2>2. R!Alive'
      BY <1>2, <1>6 DEF R!Alive, RpcServerTypes
    <2>3. RpcQuietConns'
      BY <1>1, <1>5, <2>1, <2>2, RpcBacklogAs DEF RpcQuiet, RpcQuietConns, k
    <2>4. RpcServerTypes'
      BY <1>1, <1>2, <1>3, <2>1 DEF RpcServerTypes
    <2>5. QED
      BY <2>1, <2>3, <2>4, <1>2, <1>5, RpcClientSame, RpcTalkSame DEF RpcQuiet, RpcQuietThreads,
         RpcQuietConns
  <1>7. CASE ~(listening \/ \E u \in Threads \ {t} : pc[u] = "accept")
    <2>1. backlog' = <<>> /\ link' = R!Resets(R!Queued \ {k})
      BY <1>7 DEF R!Accept, k
    <2>2. /\ RpcClosing
          /\ \A n \in RpcConns : n \in R!Queued \ {k} => link'[n].server = "closed"
          /\ \A n \in RpcConns : n \notin R!Queued \ {k} => link'[n] = link[n]
      BY <2>1, RpcResetsDoes
    <2>3. backlog' \in Seq(RpcConns)
      BY <2>1
    <2>4. RpcQuietConns'
      BY <1>5, <2>1, <2>2 DEF RpcQuiet, RpcQuietConns
    <2>5. RpcServerTypes'
      BY <1>2, <1>3, <2>2, <2>3 DEF RpcServerTypes, RpcClosing
    <2>6. QED
      BY <2>2, <2>4, <2>5, <1>2, <1>5, RpcClientSame, RpcTalkClosing DEF R!client, RpcQuiet,
         RpcQuietThreads, RpcQuietConns
  <1>8. QED
    BY <1>6, <1>7

LEMMA RpcStopBeginInv == ASSUME R!RpcAssumption, RpcInv, R!StopBegin PROVE RpcInv'
  <1> USE DEF RpcInv
  <1>1. /\ state' = "STOPPING" /\ listening' = FALSE /\ step' = [step EXCEPT ![Stopper] = "stop"]
        /\ step[Stopper] = "idle" /\ state = "RUNNING"
        /\ UNCHANGED <<running, pc, serves, serv, ss, tries, kind, ran, outcome>>
    BY DEF R!StopBegin
  <1>2. /\ RpcClosing /\ backlog' \in Seq(RpcConns)
        /\ \/ R!Alive' /\ backlog' = backlog /\ link' = link
           \/ backlog' = <<>> /\ \A k \in R!Queued : link'[k].server = "closed"
    <2>1. CASE \E t \in Threads : pc[t] = "accept"
      <3>1. UNCHANGED <<backlog, link>>
        BY <2>1, Zenon DEF R!StopBegin
      <3>2. R!Alive'
        BY <2>1, <1>1 DEF R!Alive
      <3>3. QED
        BY <3>1, <3>2 DEF RpcServerTypes, RpcClosing
    <2>2. CASE ~\E t \in Threads : pc[t] = "accept"
      <3>1. backlog' = <<>> /\ link' = R!Resets(R!Queued)
        BY <2>2, Zenon DEF R!StopBegin
      <3>2. backlog' \in Seq(RpcConns)
        BY <3>1
      <3>3. QED
        BY <3>1, <3>2, RpcResetsDoes, RpcQueuedIs
    <2>3. QED
      BY <2>1, <2>2
  <1>3. RpcServerTypes'
    BY <1>1, <1>2 DEF RpcServerTypes, RpcClosing
  <1>4. RpcClientTypes'
    BY <1>1 DEF RpcClientTypes, RpcCallerSteps
  <1>5. RpcQuiet'
    BY <1>1, <1>2 DEF RpcQuiet, RpcQuietThreads, RpcQuietConns, RpcRunning, R!Queued, RpcClosing
  <1>6. RpcTalk'
    <2>1. \A c \in R!Callers : \/ step'[c] = step[c]
                               \/ c \notin Clients /\ step[c] = "idle" /\ step'[c] = "stop"
      <3>1. Stopper \notin Clients
        BY DEF R!RpcAssumption
      <3>2. QED
        BY <1>1, <3>1 DEF RpcClientTypes
    <2>2. QED
      BY <1>1, <1>2, <2>1, RpcTalkClosing
  <1>7. QED
    BY <1>3, <1>4, <1>5, <1>6

-----------------------------------------------------------------------------

\* Nothing of caller d has changed
RpcSame(d) ==
  /\ step'[d] = step[d] /\ ss'[d] = ss[d] /\ kind'[d] = kind[d] /\ ran'[d] = ran[d]
  /\ outcome'[d] = outcome[d]
  /\ ss[d] # None => link'[ss[d]] = link[ss[d]]

LEMMA RpcSameConversation ==
  ASSUME RpcClientTypes, NEW d \in R!Callers, RpcSame(d), RpcConversation(d) PROVE RpcConversation(d)'
  <1>1. R!Answer(d)' = R!Answer(d) /\ R!Invoked(d)' = R!Invoked(d)
    BY DEF RpcSame, R!Answer, R!Invoked
  <1>2. CASE ss[d] = None
    BY <1>2 DEF RpcSame, RpcConversation, RpcClientTypes
  <1>3. CASE ss[d] # None
    BY <1>1, <1>3 DEF RpcSame, RpcConversation
  <1>4. QED
    BY <1>2, <1>3

\* An action of one caller over a connection of its own
LEMMA RpcTalkByCaller ==
  ASSUME RpcClientTypes, RpcTalk, RpcOwned', NEW c \in R!Callers, \A d \in R!Callers : d # c => RpcSame(d),
         RpcConversation(c)', c \in Clients => RpcToldOf(c)'
  PROVE RpcTalk'
  <1>1. \A d \in R!Callers : RpcConversation(d)'
    BY RpcSameConversation DEF RpcTalk
  <1>2. RpcTold'
    BY DEF RpcTalk, RpcTold, RpcToldOf, RpcSame, R!Callers
  <1>3. QED
    BY <1>1, <1>2 DEF RpcTalk

\* nothing changes for the server by.
LEMMA RpcQuietCalls ==
  ASSUME RpcServerTypes, RpcQuiet, UNCHANGED <<state, running, listening, backlog, pc, serves>>,
         link' \in [RpcConns -> RpcLinks], \A n \in RpcConns : link'[n].server = link[n].server
  PROVE RpcServerTypes' /\ RpcQuiet'
  <1>1. RpcServerTypes'
    BY DEF RpcServerTypes
  <1>2. RpcQuietThreads'
    BY DEF RpcQuiet, RpcQuietThreads, RpcRunning
  <1>3. RpcQuietConns'
    BY DEF RpcQuiet, RpcQuietConns, R!Alive, R!Queued
  <1>4. QED
    BY <1>1, <1>2, <1>3 DEF RpcQuiet

\* The ends of the clients stay.
LEMMA RpcOwnedSame ==
  ASSUME RpcClientTypes, RpcOwned, UNCHANGED ss, NEW k \in RpcConns, link[k].client = "open",
         \A n \in RpcConns : n # k => link'[n] = link[n],
         link'[k].client = link[k].client,
         link'[k].server = "closed" => link'[k].up = <<>>
  PROVE RpcOwned'
  <1>1. \A n \in RpcConns : link'[n].client = link[n].client
    OBVIOUS
  <1>2. \A n \in RpcConns : link[n].client = "open" => \E c \in R!Callers : ss[c] = n
    BY DEF RpcOwned
  <1>3. \A n \in RpcConns : link'[n].client = "open" => \E c \in R!Callers : ss'[c] = n
    BY <1>1, <1>2
  <1>4. \A n \in RpcConns : /\ link'[n].client = "closed" => link'[n].up = <<>> /\ link'[n].down = <<>>
                            /\ link'[n].server = "closed" => link'[n].up = <<>>
    <2>1. ASSUME NEW n \in RpcConns, n # k
          PROVE  /\ link'[n].client = "closed" => link'[n].up = <<>> /\ link'[n].down = <<>>
                 /\ link'[n].server = "closed" => link'[n].up = <<>>
      <3>1. link'[n] = link[n]
        BY <2>1
      <3>2. QED
        BY <3>1 DEF RpcOwned
    <2>2. QED
      BY <2>1
  <1>5. \A c, d \in R!Callers : ss'[c] # None => link'[ss'[c]].client = "open" /\ (ss'[c] = ss'[d] => c = d)
    BY <1>1 DEF RpcOwned, RpcClientTypes
  <1>6. QED
    BY <1>3, <1>4, <1>5 DEF RpcOwned

LEMMA RpcServeInv == ASSUME R!RpcAssumption, RpcInv, NEW t \in Threads, R!Serve(t) PROVE RpcInv'
  <1> DEFINE k == serves[t]
  <1> DEFINE m == Head(link[k].up)
  <1>1. /\ k \in RpcConns /\ m \in R!Callers \cup {"ping"} /\ link[k].up # <<>>
        /\ link' \in [RpcConns -> RpcLinks]
        /\ \A n \in RpcConns : n # k => link'[n] = link[n]
        /\ link'[k].client = link[k].client
        /\ \/ /\ m = "ping" /\ UNCHANGED <<pc, serves, ran>>
              /\ link'[k].up = Tail(link[k].up) /\ link'[k].server = link[k].server
              /\ link'[k].down = RpcSaid(link[k], "pong")
           \/ /\ m \in R!Callers /\ R!Invoked(m) /\ UNCHANGED <<pc, serves>>
              /\ ran' = [ran EXCEPT ![m] = @ + 1]
              /\ link'[k].up = Tail(link[k].up) /\ link'[k].server = link[k].server
              /\ link'[k].down = IF R!Answer(m) = None THEN link[k].down ELSE RpcSaid(link[k], R!Answer(m))
           \/ /\ m \in R!Callers /\ ~R!Invoked(m) /\ ran' = ran
              /\ serves' = [serves EXCEPT ![t] = None] /\ pc' = [pc EXCEPT ![t] = "test"]
              /\ link'[k].up = <<>> /\ link'[k].server = "closed"
              /\ link'[k].down = RpcSaid(link[k], R!Answer(m))
    BY RpcServeDoes DEF RpcInv
  <1>2. pc[t] = "serve" /\ UNCHANGED <<state, running, mutex, listening, backlog, serv, R!client>>
    BY DEF R!Serve
  <1> HIDE DEF m, k
  <1>3. link[k].client = "open" /\ link[k].server = "open"
    BY <1>1 DEF RpcInv, RpcTalk, RpcOwned, RpcServerTypes, RpcLinks, RpcEnds2
  <1>4. PICK c \in R!Callers : ss[c] = k
    BY <1>1, <1>3 DEF RpcInv, RpcTalk, RpcOwned
  <1>5. k # None
    BY <1>1 DEF R!RpcAssumption
  <1>6. /\ link[k].down = <<>>
        /\ \/ step[c] = "pong" /\ link[k].up = <<"ping">>
           \/ step[c] = "reply" /\ link[k].up = <<c>> /\ ran[c] = 0
    BY <1>1, <1>4, <1>5 DEF RpcInv, RpcTalk, RpcConversation, RpcClientTypes, RpcCallerSteps
  <1>7. Head(<<c>>) = c /\ Tail(<<c>>) = <<>> /\ Head(<<"ping">>) = "ping" /\ Tail(<<"ping">>) = <<>>
    OBVIOUS
  <1>8. /\ Tail(link[k].up) = <<>>
        /\ \/ step[c] = "pong" /\ m = "ping"
           \/ step[c] = "reply" /\ m = c /\ m # "ping" /\ ran[c] = 0
    BY <1>6, <1>7, Zenon DEF m, R!RpcAssumption
  <1>9. \A r \in {"pong", "ok", "not_found", "version_mismatch"} : RpcSaid(link[k], r) = <<r>>
    BY <1>3, <1>6 DEF RpcSaid
  <1>10. link'[k].up = <<>>
    BY <1>1, <1>8
  <1>11. RpcServerTypes' /\ RpcClientTypes'
    <2>1. pc' \in [Threads -> RpcServerSteps] /\ serves' \in [Threads -> RpcConns \cup {None}]
      BY <1>1 DEF RpcInv, RpcServerTypes, RpcServerSteps
    <2>2. ran' \in [R!Callers -> Nat] /\ ran'[Stopper] = 0
      BY <1>1 DEF RpcInv, RpcClientTypes, R!Invoked, R!Callers
    <2>3. QED
      BY <1>1, <1>2, <2>1, <2>2 DEF RpcInv, RpcServerTypes, RpcClientTypes, R!client
  <1>12. RpcQuiet'
    <2>1. /\ link'[k].server = "closed" \/ (link'[k].server = link[k].server /\ serves' = serves)
          /\ \A u \in Threads : u # t => serves'[u] = serves[u]
          /\ \A u \in Threads : u # t => pc'[u] = pc[u]
      BY <1>1 DEF RpcInv, RpcServerTypes
    <2>2. \/ UNCHANGED <<pc, serves>>
          \/ pc'[t] = "test" /\ serves'[t] = None
      BY <1>1 DEF RpcInv, RpcServerTypes
    <2>3. RpcRunning' = RpcRunning
      BY <1>2, <2>1, <2>2 DEF RpcRunning
    <2>4. RpcQuietThreads'
      BY <1>2, <2>1, <2>2, <2>3 DEF RpcInv, RpcQuiet, RpcQuietThreads
    <2>5. R!Alive' = R!Alive /\ R!Queued' = R!Queued
      BY <1>2, <2>1, <2>2 DEF R!Alive, R!Queued
    <2>6. RpcQuietConns'
      BY <1>1, <1>2, <2>1, <2>5 DEF RpcInv, RpcQuiet, RpcQuietConns, k
    <2>7. QED
      BY <2>4, <2>6 DEF RpcQuiet
  <1>13. RpcTalk'
    <2>1. RpcOwned'
      BY <1>1, <1>2, <1>3, <1>10, RpcOwnedSame DEF RpcInv, RpcTalk, R!client
    <2>2. \A d \in R!Callers : d # c => RpcSame(d)
      <3>1. \A d \in R!Callers : d # c => ran'[d] = ran[d]
        <4>1. ran' = ran \/ (m = c /\ ran' = [ran EXCEPT ![m] = @ + 1])
          BY <1>1, <1>8, Zenon DEF R!RpcAssumption
        <4>2. QED
          BY <4>1 DEF RpcInv, RpcClientTypes
      <3>2. \A d \in R!Callers : d # c /\ ss[d] # None => link'[ss[d]] = link[ss[d]]
        BY <1>1, <1>4 DEF RpcInv, RpcTalk, RpcOwned, RpcClientTypes
      <3>3. QED
        BY <3>1, <3>2, <1>2 DEF RpcSame, R!client
    <2>3. step'[c] = step[c] /\ ss'[c] = k /\ R!Answer(c)' = R!Answer(c) /\ R!Invoked(c)' = R!Invoked(c)
          /\ kind'[c] = kind[c] /\ outcome'[c] = outcome[c]
      BY <1>2, <1>4 DEF R!client, R!Answer, R!Invoked
    <2>4. CASE step[c] = "pong"
      <3>1. link'[k].down = <<"pong">> /\ ran'[c] = ran[c]
        BY <1>1, <1>8, <1>9, <2>4 DEF R!RpcAssumption
      <3>2. RpcConversation(c)'
        BY <2>3, <2>4, <3>1, <1>10 DEF RpcConversation
      <3>3. c \in Clients => RpcToldOf(c)'
        BY <2>3, <2>4, <3>1 DEF RpcInv, RpcTalk, RpcTold, RpcToldOf
      <3>4. QED
        BY <2>1, <2>2, <3>2, <3>3, RpcTalkByCaller DEF RpcInv
    <2>5. CASE step[c] = "reply"
      <3>1. m = c /\ m # "ping" /\ ran[c] = 0
        BY <1>8, <2>5
      <3>2. R!Invoked(c) => ran'[c] = 1
        BY <1>1, <3>1 DEF RpcInv, RpcClientTypes
      <3>3. ~R!Invoked(c) => ran'[c] = 0 /\ R!Answer(c) # None
        BY <1>1, <3>1 DEF RpcInv, RpcClientTypes, RpcCallKinds, R!Answer, R!Invoked, R!RpcAssumption
      <3>4. R!Answer(c) = None \/ R!Answer(c) \in {"ok", "not_found", "version_mismatch"}
        BY DEF RpcInv, RpcClientTypes, RpcCallKinds, R!Answer
      <3>5. link'[k].down = IF R!Answer(c) = None THEN <<>> ELSE <<R!Answer(c)>>
        BY <1>1, <1>6, <1>9, <3>1, <3>3, <3>4
      <3>6. RpcConversation(c)'
        BY <2>3, <2>5, <3>2, <3>3, <3>5, <1>10 DEF RpcConversation
      <3>7. c \in Clients => RpcToldOf(c)'
        BY <2>3, <2>5 DEF RpcInv, RpcTalk, RpcTold, RpcToldOf
      <3>8. QED
        BY <2>1, <2>2, <3>6, <3>7, RpcTalkByCaller DEF RpcInv
    <2>6. QED
      BY <1>8, <2>4, <2>5
  <1>14. QED
    BY <1>11, <1>12, <1>13 DEF RpcInv

-----------------------------------------------------------------------------

\* The client's end of its connection, on which nothing is on the way, is closed
LEMMA RpcOwnedLeft ==
  ASSUME R!RpcAssumption, RpcServerTypes, RpcClientTypes, RpcOwned, NEW c \in R!Callers, ss[c] # None, link[ss[c]].up = <<>>,
         link' = [link EXCEPT ![ss[c]] = R!LeftByClient(ss[c])], ss' = [ss EXCEPT ![c] = None]
  PROVE /\ RpcOwned' /\ link' \in [RpcConns -> RpcLinks] /\ ss' \in [R!Callers -> RpcConns \cup {None}]
        /\ \A n \in RpcConns : link'[n].server = link[n].server
        /\ \A d \in R!Callers : d # c => ss'[d] = ss[d] /\ (ss[d] # None => link'[ss[d]] = link[ss[d]])
        /\ ss'[c] = None
  <1> DEFINE k == ss[c]
  <1>1. k \in RpcConns
    BY DEF RpcClientTypes
  <1> HIDE DEF k
  <1>2. /\ link' \in [RpcConns -> RpcLinks]
        /\ \A n \in RpcConns : n # k => link'[n] = link[n]
        /\ link'[k].down = <<>> /\ link'[k].client = "closed"
        /\ link'[k].up = link[k].up /\ link'[k].server = link[k].server
    BY <1>1, RpcLeftDoes DEF k
  <1>3. ss'[c] = None /\ ss' \in [R!Callers -> RpcConns \cup {None}] /\ \A d \in R!Callers : d # c => ss'[d] = ss[d]
    BY DEF RpcClientTypes
  <1>4. \A d \in R!Callers : d # c /\ ss[d] # None => ss[d] \in RpcConns /\ ss[d] # k
    BY DEF RpcOwned, k, RpcClientTypes
  <1>5. \A d \in R!Callers : d # c /\ ss[d] # None => link'[ss[d]] = link[ss[d]]
    BY <1>2, <1>4
  <1>6. RpcOwned'
    <2>1. \A n \in RpcConns : link[n].client = "open" => \E d \in R!Callers : ss[d] = n
      BY DEF RpcOwned
    <2>2. \A n \in RpcConns : link'[n].client = "open" => \E d \in R!Callers : ss'[d] = n
      BY <2>1, <1>2, <1>3 DEF k
    <2>3. \A n \in RpcConns : /\ link'[n].client = "closed" => link'[n].up = <<>> /\ link'[n].down = <<>>
                              /\ link'[n].server = "closed" => link'[n].up = <<>>
      <3>1. ASSUME NEW n \in RpcConns, n # k
            PROVE  /\ link'[n].client = "closed" => link'[n].up = <<>> /\ link'[n].down = <<>>
                   /\ link'[n].server = "closed" => link'[n].up = <<>>
        <4>1. link'[n] = link[n]
          BY <1>2, <3>1
        <4>2. QED
          BY <4>1 DEF RpcOwned
      <3>2. QED
        BY <3>1, <1>2 DEF k
    <2>4. \A d \in R!Callers : ss'[d] # None => link'[ss'[d]].client = "open"
      BY <1>3, <1>5 DEF RpcOwned
    <2>5. \A d, e \in R!Callers : ss'[d] # None /\ ss'[d] = ss'[e] => d = e
      BY <1>3 DEF RpcOwned
    <2>6. QED
      BY <2>2, <2>3, <2>4, <2>5 DEF RpcOwned
  <1>7. \A n \in RpcConns : link'[n].server = link[n].server
    BY <1>2
  <1>8. QED
    BY <1>2, <1>3, <1>5, <1>6, <1>7

\* A caller leaves its connection, with nothing on the way to the server, for a step
\* in which it has none.
LEMMA RpcLeftInv ==
  ASSUME R!RpcAssumption, RpcInv, NEW c \in R!Callers, ss[c] # None, link[ss[c]].up = <<>>,
         link' = [link EXCEPT ![ss[c]] = R!LeftByClient(ss[c])], ss' = [ss EXCEPT ![c] = None],
         UNCHANGED <<state, running, listening, backlog, pc, serves, serv, kind, ran>>,
         NEW at \in {"idle", "stop", "connect"}, step' = [step EXCEPT ![c] = at],
         outcome' \in [R!Callers -> RpcOutcomes], \A d \in R!Callers : d # c => outcome'[d] = outcome[d],
         c \in Clients => RpcToldOf(c)'
  PROVE RpcInv'
  <1> USE DEF RpcInv
  <1>1. /\ RpcOwned' /\ link' \in [RpcConns -> RpcLinks] /\ ss' \in [R!Callers -> RpcConns \cup {None}]
        /\ \A n \in RpcConns : link'[n].server = link[n].server
        /\ \A d \in R!Callers : d # c => ss'[d] = ss[d] /\ (ss[d] # None => link'[ss[d]] = link[ss[d]])
        /\ ss'[c] = None
    BY RpcOwnedLeft DEF RpcTalk
  <1>2. step'[c] = at /\ step' \in [R!Callers -> RpcCallerSteps] /\ \A d \in R!Callers : d # c => step'[d] = step[d]
    BY DEF RpcClientTypes, RpcCallerSteps
  <1>3. RpcServerTypes' /\ RpcQuiet'
    BY <1>1, RpcQuietCalls
  <1>4. RpcClientTypes'
    BY <1>1, <1>2 DEF RpcClientTypes
  <1>5. \A d \in R!Callers : d # c => RpcSame(d)
    BY <1>1, <1>2 DEF RpcSame
  <1>6. RpcConversation(c)'
    BY <1>1, <1>2 DEF RpcConversation
  <1>7. RpcTalk'
    BY <1>1, <1>5, <1>6, RpcTalkByCaller
  <1>8. QED
    BY <1>3, <1>4, <1>7

\* A caller that keeps what connection it has
LEMMA RpcKeptInv ==
  ASSUME R!RpcAssumption, RpcInv, NEW c \in R!Callers,
         UNCHANGED <<state, running, listening, backlog, pc, serves, serv, ss>>,
         link' \in [RpcConns -> RpcLinks], \A n \in RpcConns : n # ss[c] => link'[n] = link[n],
         ss[c] # None => /\ link'[ss[c]].client = link[ss[c]].client
                         /\ link'[ss[c]].server = link[ss[c]].server
                         /\ link[ss[c]].server = "closed" => link'[ss[c]].up = <<>>,
         NEW at \in RpcCallerSteps, step' = [step EXCEPT ![c] = at],
         at \in {"pong", "request", "reply"} => ss[c] # None,
         kind' \in [R!Callers -> RpcCallKinds], ran' \in [R!Callers -> Nat], outcome' \in [R!Callers -> RpcOutcomes],
         kind'[Stopper] = "exit", ran'[Stopper] = 0,
         \A d \in R!Callers : d # c => kind'[d] = kind[d] /\ ran'[d] = ran[d] /\ outcome'[d] = outcome[d],
         RpcConversation(c)', c \in Clients => RpcToldOf(c)'
  PROVE RpcInv'
  <1> USE DEF RpcInv
  <1>1. step'[c] = at /\ step' \in [R!Callers -> RpcCallerSteps] /\ \A d \in R!Callers : d # c => step'[d] = step[d]
    BY DEF RpcClientTypes
  <1>2. RpcClientTypes'
    BY <1>1 DEF RpcClientTypes
  <1>3. \A d \in R!Callers : d # c => RpcSame(d)
    BY <1>1 DEF RpcSame, RpcTalk, RpcOwned, RpcClientTypes
  <1>4. CASE ss[c] = None
    <2>1. \A n \in RpcConns : link'[n] = link[n]
      BY <1>4 DEF R!RpcAssumption
    <2>2. RpcOwned'
      BY <2>1, RpcOwnedClosing DEF RpcTalk, RpcClosing
    <2>3. RpcServerTypes' /\ RpcQuiet'
      BY <2>1, RpcQuietCalls
    <2>4. QED
      BY <1>2, <1>3, <2>2, <2>3, RpcTalkByCaller
  <1>5. CASE ss[c] # None
    <2>1. ss[c] \in RpcConns /\ link[ss[c]].client = "open"
      BY <1>5 DEF RpcClientTypes, RpcTalk, RpcOwned
    <2>2. RpcOwned'
      BY <1>5, <2>1, RpcOwnedSame DEF RpcTalk
    <2>3. \A n \in RpcConns : link'[n].server = link[n].server
      BY <1>5
    <2>4. RpcServerTypes' /\ RpcQuiet'
      BY <2>3, RpcQuietCalls
    <2>5. QED
      BY <1>2, <1>3, <2>2, <2>4, RpcTalkByCaller
  <1>6. QED
    BY <1>4, <1>5

\* The one message that is on the way
LEMMA RpcEmptyDown == ASSUME NEW r PROVE Tail(<<r>>) = <<>> /\ Head(<<r>>) = r
  OBVIOUS

\* The connection of a caller that has one
LEMMA RpcConnInv == ASSUME R!RpcAssumption, RpcInv, NEW c \in R!Callers, ss[c] # None
  PROVE ss[c] \in RpcConns /\ link[ss[c]].client = "open"
        /\ link[ss[c]].server \in RpcEnds2 /\ link \in [RpcConns -> RpcLinks]
  BY DEF RpcInv, RpcClientTypes, RpcServerTypes, RpcTalk, RpcOwned, RpcLinks

\* The callers
LEMMA RpcStopStepInv == ASSUME R!RpcAssumption, RpcInv, R!StopStep PROVE RpcInv'
  <1>1. PICK at \in {"idle", "connect"} : step' = [step EXCEPT ![Stopper] = at]
    BY DEF R!StopStep, R!StopExit, R!StopEnd
  <1>2. /\ UNCHANGED <<state, running, listening, backlog, pc, serves, serv, ss, kind, ran, outcome, link>>
        /\ step[Stopper] = "stop" /\ Stopper \in R!Callers /\ Stopper \notin Clients
    BY DEF R!StopStep, R!StopExit, R!StopEnd, R!server, R!RpcAssumption, R!Callers
  <1>3. RpcConversation(Stopper)'
    BY <1>1, <1>2 DEF RpcConversation, RpcInv, RpcTalk, RpcClientTypes
  <1>4. QED
    BY <1>1, <1>2, <1>3, RpcKeptInv DEF RpcInv, RpcServerTypes, RpcClientTypes, RpcCallerSteps, RpcTalk,
       RpcOwned

LEMMA RpcCallInv == ASSUME R!RpcAssumption, RpcInv, NEW c \in Clients, NEW what \in RpcKinds, R!Call(c, what) PROVE RpcInv'
  <1>1. /\ UNCHANGED <<state, running, listening, backlog, pc, serves, serv, ss, link>>
        /\ step[c] = "idle" /\ step' = [step EXCEPT ![c] = "connect"]
        /\ kind' = [kind EXCEPT ![c] = what] /\ ran' = [ran EXCEPT ![c] = 0]
        /\ outcome' = [outcome EXCEPT ![c] = "none"]
    BY DEF R!Call, R!server
  <1>2. what \in RpcCallKinds /\ c \in R!Callers /\ c # Stopper
    BY DEF R!RpcAssumption, RpcCallKinds, R!Callers
  <1>3. /\ kind' \in [R!Callers -> RpcCallKinds] /\ ran' \in [R!Callers -> Nat] /\ outcome' \in [R!Callers -> RpcOutcomes]
        /\ kind'[Stopper] = "exit" /\ ran'[Stopper] = 0 /\ kind'[c] = what /\ ran'[c] = 0 /\ outcome'[c] = "none"
        /\ step'[c] = "connect"
        /\ \A d \in R!Callers : d # c => kind'[d] = kind[d] /\ ran'[d] = ran[d] /\ outcome'[d] = outcome[d]
    BY <1>1, <1>2 DEF RpcInv, RpcClientTypes, RpcOutcomes, R!Callers
  <1>4. RpcConversation(c)'
    BY <1>1, <1>2, <1>3 DEF RpcConversation, RpcInv, RpcTalk
  <1>5. RpcToldOf(c)'
    BY <1>3 DEF RpcToldOf
  <1>6. QED
    BY <1>1, <1>2, <1>3, <1>4, <1>5, RpcKeptInv DEF RpcInv, RpcServerTypes, RpcClientTypes,
       RpcCallerSteps, RpcTalk, RpcOwned

LEMMA RpcQuitInv == ASSUME R!RpcAssumption, RpcInv, NEW c \in Clients, R!Quit(c) PROVE RpcInv'
  <1>1. /\ UNCHANGED <<state, running, listening, backlog, pc, serves, serv, kind, ran, outcome, step>>
        /\ step[c] = "idle" /\ ss[c] # None /\ c \in R!Callers /\ RpcToldOf(c)
        /\ link' = [link EXCEPT ![ss[c]] = R!LeftByClient(ss[c])] /\ ss' = [ss EXCEPT ![c] = None]
    BY DEF R!Quit, R!server, R!Callers, RpcInv, RpcTalk, RpcTold
  <1>2. step' = [step EXCEPT ![c] = "idle"] /\ link[ss[c]].up = <<>>
    BY <1>1 DEF RpcInv, RpcClientTypes, RpcTalk, RpcConversation
  <1>3. RpcToldOf(c)'
    BY <1>1 DEF RpcToldOf
  <1>4. QED
    BY <1>1, <1>2, <1>3, RpcLeftInv DEF RpcInv, RpcClientTypes

LEMMA RpcPongInv == ASSUME R!RpcAssumption, RpcInv, NEW c \in R!Callers, R!Pong(c) PROVE RpcInv'
  <1>1. /\ UNCHANGED <<state, running, listening, backlog, pc, serves, serv, ss, kind, ran, outcome>>
        /\ step[c] = "pong" /\ step' = [step EXCEPT ![c] = "request"]
        /\ R!Hears(c) /\ link' = R!HeardOf(c)
    BY DEF R!Pong, R!server
  <1>2. ss[c] # None /\ link[ss[c]].up = <<>> /\ link[ss[c]].down = <<"pong">>
    BY <1>1 DEF RpcInv, RpcClientTypes, RpcTalk, RpcConversation, R!Hears
  <1>3. /\ link' \in [RpcConns -> RpcLinks]
        /\ \A n \in RpcConns : n # ss[c] => link'[n] = link[n]
        /\ link'[ss[c]].down = Tail(link[ss[c]].down)
        /\ link'[ss[c]].server = link[ss[c]].server
        /\ link'[ss[c]].up = link[ss[c]].up /\ link'[ss[c]].client = link[ss[c]].client
    BY <1>1, <1>2, RpcConnInv, RpcHeardDoes DEF RpcInv
  <1>4. link'[ss[c]].up = <<>> /\ link'[ss[c]].down = <<>> /\ step'[c] = "request"
    BY <1>1, <1>2, <1>3, RpcEmptyDown DEF RpcInv, RpcClientTypes
  <1>5. RpcConversation(c)'
    BY <1>1, <1>4 DEF RpcConversation
  <1>6. c \in Clients => RpcToldOf(c)'
    BY <1>1 DEF RpcInv, RpcTalk, RpcTold, RpcToldOf
  <1>7. QED
    BY <1>1, <1>2, <1>3, <1>4, <1>5, <1>6, RpcKeptInv DEF RpcInv, RpcClientTypes, RpcCallerSteps

LEMMA RpcNoPongInv == ASSUME R!RpcAssumption, RpcInv, NEW c \in R!Callers, R!NoPong(c) PROVE RpcInv'
  <1>1. /\ UNCHANGED <<state, running, listening, backlog, pc, serves, serv, kind, ran, outcome>>
        /\ step[c] = "pong" /\ step' = [step EXCEPT ![c] = "connect"]
        /\ link' = [link EXCEPT ![ss[c]] = R!LeftByClient(ss[c])] /\ ss' = [ss EXCEPT ![c] = None]
    BY DEF R!NoPong, R!server
  <1>2. ss[c] # None
    BY <1>1 DEF RpcInv, RpcClientTypes
  <1>3. link[ss[c]].up = <<>>
    <2>1. CASE R!HearsEof(c)
      BY <1>2, <2>1, RpcConnInv DEF R!HearsEof, RpcInv, RpcTalk, RpcOwned
    <2>2. CASE R!Hears(c)
      BY <1>1, <2>2 DEF R!Hears, RpcInv, RpcTalk, RpcConversation
    <2>3. QED
      BY <2>1, <2>2 DEF R!NoPong
  <1>4. c \in Clients => RpcToldOf(c)'
    BY <1>1 DEF RpcInv, RpcTalk, RpcTold, RpcToldOf, RpcClientTypes
  <1>5. QED
    BY <1>1, <1>2, <1>3, <1>4, RpcLeftInv DEF RpcInv, RpcClientTypes

LEMMA RpcRequestInv == ASSUME R!RpcAssumption, RpcInv, NEW c \in R!Callers, R!Request(c) PROVE RpcInv'
  <1>1. /\ UNCHANGED <<state, running, listening, backlog, pc, serves, serv, ss, kind, ran, outcome>>
        /\ step[c] = "request" /\ step' = [step EXCEPT ![c] = "reply"]
        /\ link' = R!Sends(ss[c], c)
    BY DEF R!Request, R!server
  <1>2. ss[c] # None /\ link[ss[c]].up = <<>> /\ link[ss[c]].down = <<>>
    BY <1>1 DEF RpcInv, RpcClientTypes, RpcTalk, RpcConversation
  <1>3. /\ link' \in [RpcConns -> RpcLinks]
        /\ \A n \in RpcConns : n # ss[c] => link'[n] = link[n]
        /\ link'[ss[c]].up = IF link[ss[c]].server = "open" THEN Append(link[ss[c]].up, c) ELSE link[ss[c]].up
        /\ link'[ss[c]].server = link[ss[c]].server
        /\ link'[ss[c]].down = link[ss[c]].down /\ link'[ss[c]].client = link[ss[c]].client
    BY <1>1, <1>2, RpcConnInv, RpcSendsDoes DEF RpcInv
  <1>4. Append(<<>>, c) = <<c>>
    OBVIOUS
  <1>5. /\ link'[ss[c]].up = IF link[ss[c]].server = "open" THEN <<c>> ELSE <<>>
        /\ link'[ss[c]].down = <<>> /\ step'[c] = "reply"
    BY <1>1, <1>2, <1>3, <1>4 DEF RpcInv, RpcClientTypes
  <1>6. c \in Clients \/ c = Stopper
    BY DEF R!Callers
  <1>7. ran[c] = 0
    BY <1>1, <1>6 DEF RpcInv, RpcTalk, RpcTold, RpcToldOf, RpcClientTypes
  <1>8. RpcConversation(c)'
    BY <1>1, <1>5, <1>7 DEF RpcConversation
  <1>9. c \in Clients => RpcToldOf(c)'
    BY <1>1 DEF RpcInv, RpcTalk, RpcTold, RpcToldOf
  <1>10. QED
    BY <1>1, <1>2, <1>3, <1>5, <1>8, <1>9, RpcKeptInv DEF RpcInv, RpcClientTypes, RpcCallerSteps

\* How a client's call ends
LEMMA RpcEndsToldOf ==
  ASSUME RpcClientTypes, NEW c \in Clients, step' = [step EXCEPT ![c] = "idle"], UNCHANGED <<kind, ran>>,
         NEW how \in RpcOutcomes, outcome' = [outcome EXCEPT ![c] = how],
         ran[c] <= 1, how = "ok" => ran[c] = 1 /\ kind[c] = "good",
         how \in {"not_found", "version_mismatch", "no_connection"} => ran[c] = 0
  PROVE RpcToldOf(c)'
  BY DEF RpcClientTypes, RpcToldOf, R!Callers

LEMMA RpcStopperEndsInv ==
  ASSUME R!RpcAssumption, RpcInv, NEW how \in RpcOutcomes, R!Ends(Stopper, how),
         ss[Stopper] # None => link[ss[Stopper]].up = <<>>,
         UNCHANGED <<state, running, listening, backlog, pc, serves, serv, kind, ran>>
  PROVE RpcInv'
  <1>1. Stopper \in R!Callers /\ Stopper \notin Clients
    BY DEF R!Callers, R!RpcAssumption
  <1>2. PICK at \in {"idle", "stop"} : step' = [step EXCEPT ![Stopper] = at]
    BY DEF R!Ends
  <1>3. /\ ss' = [ss EXCEPT ![Stopper] = None] /\ outcome' = outcome
        /\ link' = IF ss[Stopper] = None THEN link
                   ELSE [link EXCEPT ![ss[Stopper]] = R!LeftByClient(ss[Stopper])]
    BY Zenon DEF R!Ends
  <1>4. CASE ss[Stopper] = None
    <2>1. ss' = ss /\ link' = link
      BY <1>3, <1>4 DEF RpcInv, RpcClientTypes
    <2>2. RpcConversation(Stopper)'
      BY <1>1, <1>2, <1>4, <2>1 DEF RpcConversation, RpcInv, RpcClientTypes
    <2>3. QED
      BY <1>1, <1>2, <1>3, <1>4, <2>1, <2>2, RpcKeptInv DEF RpcInv, RpcServerTypes, RpcClientTypes,
         RpcCallerSteps
  <1>5. CASE ss[Stopper] # None
    BY <1>1, <1>2, <1>3, <1>5, RpcLeftInv DEF RpcInv, RpcClientTypes
  <1>6. QED
    BY <1>4, <1>5

LEMMA RpcCannotConnectInv == ASSUME R!RpcAssumption, RpcInv, NEW c \in R!Callers, R!CannotConnect(c) PROVE RpcInv'
  <1>1. /\ UNCHANGED <<state, running, listening, backlog, pc, serves, serv, kind, ran>>
        /\ step[c] = "connect" /\ R!Ends(c, "no_connection")
    BY DEF R!CannotConnect
  <1>2. ss[c] # None => link[ss[c]].up = <<>> /\ link[ss[c]].down = <<>>
    BY <1>1 DEF RpcInv, RpcTalk, RpcConversation
  <1>3. CASE c = Stopper
    BY <1>1, <1>2, <1>3, RpcStopperEndsInv DEF RpcOutcomes
  <1>4. CASE c # Stopper
    <2>1. c \in Clients
      BY <1>4 DEF R!Callers
    <2>2. UNCHANGED <<ss, link>>
      BY <1>4 DEF R!CannotConnect
    <2>3. step' = [step EXCEPT ![c] = "idle"] /\ outcome' = [outcome EXCEPT ![c] = "no_connection"]
      BY <1>1, <1>4, Zenon DEF R!Ends
    <2>4. /\ outcome' \in [R!Callers -> RpcOutcomes]
          /\ \A d \in R!Callers : d # c => outcome'[d] = outcome[d]
      BY <2>3 DEF RpcInv, RpcClientTypes, RpcOutcomes
    <2>5. RpcConversation(c)'
      BY <1>2, <2>2, <2>3 DEF RpcConversation, RpcInv, RpcClientTypes
    <2>6. RpcToldOf(c)'
      <3>1. ran[c] = 0 /\ ran[c] <= 1
        BY <1>1, <2>1 DEF RpcInv, RpcTalk, RpcTold, RpcToldOf
      <3>2. RpcClientTypes /\ UNCHANGED <<kind, ran>> /\ "no_connection" \in RpcOutcomes
        BY <1>1 DEF RpcInv, RpcOutcomes
      <3>3. QED
        BY <2>1, <2>3, <3>1, <3>2, RpcEndsToldOf
    <2>8. link' \in [RpcConns -> RpcLinks] /\ \A n \in RpcConns : link'[n] = link[n]
      BY <2>2 DEF RpcInv, RpcServerTypes
    <2>9. /\ kind' \in [R!Callers -> RpcCallKinds] /\ ran' \in [R!Callers -> Nat]
          /\ kind'[Stopper] = "exit" /\ ran'[Stopper] = 0
      BY <1>1 DEF RpcInv, RpcClientTypes
    <2>7. QED
      BY <1>1, <1>2, <2>2, <2>3, <2>4, <2>5, <2>6, <2>8, <2>9, RpcKeptInv DEF RpcCallerSteps
  <1>5. QED
    BY <1>3, <1>4

LEMMA RpcReplyInv == ASSUME R!RpcAssumption, RpcInv, NEW c \in R!Callers, R!Reply(c) PROVE RpcInv'
  <1>1. /\ UNCHANGED <<state, running, listening, backlog, pc, serves, serv, kind, ran>>
        /\ step[c] = "reply" /\ R!Hears(c) /\ R!Ends(c, R!Heard(c))
    BY DEF R!Reply
  <1>2. /\ ss[c] # None /\ link[ss[c]].up = <<>> /\ link[ss[c]].down = <<R!Answer(c)>> /\ R!Answer(c) # None
    BY <1>1 DEF RpcInv, RpcClientTypes, RpcTalk, RpcConversation, R!Hears
  <1>3. R!Heard(c) = R!Answer(c) /\ Tail(link[ss[c]].down) = <<>>
    BY <1>2, RpcEmptyDown DEF R!Heard
  <1>4. R!Answer(c) \in RpcOutcomes
    BY <1>2 DEF RpcInv, RpcClientTypes, RpcCallKinds, R!Answer, RpcOutcomes
  <1>5. CASE c = Stopper
    BY <1>1, <1>2, <1>3, <1>4, <1>5, RpcStopperEndsInv
  <1>6. CASE c # Stopper
    <2>1. c \in Clients
      BY <1>6 DEF R!Callers
    <2>2. link' = R!HeardOf(c) /\ UNCHANGED ss
      BY <1>6 DEF R!Reply
    <2>3. step' = [step EXCEPT ![c] = "idle"] /\ outcome' = [outcome EXCEPT ![c] = R!Heard(c)]
      BY <1>1, <1>6, Zenon DEF R!Ends
    <2>4. /\ outcome' \in [R!Callers -> RpcOutcomes]
          /\ \A d \in R!Callers : d # c => outcome'[d] = outcome[d]
      BY <2>3, <1>3, <1>4 DEF RpcInv, RpcClientTypes
    <2>5. /\ link' \in [RpcConns -> RpcLinks]
          /\ \A n \in RpcConns : n # ss[c] => link'[n] = link[n]
          /\ link'[ss[c]].down = Tail(link[ss[c]].down)
          /\ link'[ss[c]].server = link[ss[c]].server
          /\ link'[ss[c]].up = link[ss[c]].up /\ link'[ss[c]].client = link[ss[c]].client
      BY <1>1, <1>2, <2>2, RpcConnInv, RpcHeardDoes DEF RpcInv
    <2>6. RpcConversation(c)'
      BY <1>2, <1>3, <2>2, <2>3, <2>5 DEF RpcConversation, RpcInv, RpcClientTypes
    <2>7. RpcToldOf(c)'
      <3>1. kind[c] \in RpcKinds /\ RpcKinds \subseteq {"good", "unknown", "version", "throws"}
        BY <1>1, <2>1 DEF RpcInv, RpcTalk, RpcTold, RpcToldOf, R!RpcAssumption
      <3>4. ran[c] = IF R!Invoked(c) THEN 1 ELSE 0
        BY <1>1, <1>2 DEF RpcInv, RpcTalk, RpcConversation
      <3>2. /\ ran[c] <= 1 /\ (R!Answer(c) = "ok" => ran[c] = 1 /\ kind[c] = "good")
            /\ (R!Answer(c) \in {"not_found", "version_mismatch", "no_connection"} => ran[c] = 0)
        BY <3>1, <3>4, <1>2 DEF R!Answer, R!Invoked
      <3>3. QED
        BY <1>1, <1>3, <1>4, <2>1, <2>3, <3>2, RpcEndsToldOf DEF RpcInv
    <2>8. QED
      BY <1>1, <1>2, <2>2, <2>3, <2>4, <2>5, <2>6, <2>7, RpcKeptInv DEF RpcInv, RpcClientTypes,
         RpcCallerSteps
  <1>7. QED
    BY <1>5, <1>6

LEMMA RpcNoReplyInv == ASSUME R!RpcAssumption, RpcInv, NEW c \in R!Callers, R!NoReply(c) PROVE RpcInv'
  <1>1. /\ UNCHANGED <<state, running, listening, backlog, pc, serves, serv, kind, ran>>
        /\ step[c] = "reply" /\ R!HearsEof(c) /\ R!Ends(c, "rpc_error")
    BY DEF R!NoReply
  <1>2. ss[c] # None
    BY <1>1 DEF RpcInv, RpcClientTypes
  <1>3. link[ss[c]].up = <<>>
    BY <1>1, <1>2, RpcConnInv DEF R!HearsEof, RpcInv, RpcTalk, RpcOwned
  <1>4. CASE c = Stopper
    BY <1>1, <1>3, <1>4, RpcStopperEndsInv DEF RpcOutcomes
  <1>5. CASE c # Stopper
    <2>1. c \in Clients
      BY <1>5 DEF R!Callers
    <2>2. link' = [link EXCEPT ![ss[c]] = R!LeftByClient(ss[c])] /\ ss' = [ss EXCEPT ![c] = None]
      BY <1>5 DEF R!NoReply
    <2>3. step' = [step EXCEPT ![c] = "idle"] /\ outcome' = [outcome EXCEPT ![c] = "rpc_error"]
      BY <1>1, <1>5, Zenon DEF R!Ends
    <2>4. /\ outcome' \in [R!Callers -> RpcOutcomes]
          /\ \A d \in R!Callers : d # c => outcome'[d] = outcome[d]
      BY <2>3 DEF RpcInv, RpcClientTypes, RpcOutcomes
    <2>5. RpcToldOf(c)'
      <3>1. ran[c] <= 1
        BY <1>1, <1>3 DEF RpcInv, RpcTalk, RpcConversation, R!Invoked
      <3>2. RpcClientTypes /\ UNCHANGED <<kind, ran>> /\ "rpc_error" \in RpcOutcomes
        BY <1>1 DEF RpcInv, RpcOutcomes
      <3>3. QED
        BY <2>1, <2>3, <3>1, <3>2, RpcEndsToldOf
    <2>6. QED
      BY <1>1, <1>2, <1>3, <2>2, <2>3, <2>4, <2>5, RpcLeftInv
  <1>6. QED
    BY <1>4, <1>5

\* A connection of a name that is free
LEMMA RpcNewInv ==
  ASSUME R!RpcAssumption, RpcInv, NEW c \in R!Callers, ss[c] = None, step[c] = "connect", R!Alive,
         NEW k \in RpcConns, link[k] = R!Closed,
         link' = [link EXCEPT ![k] = [up |-> <<"ping">>, down |-> <<>>, server |-> "open", client |-> "open"]],
         ss' = [ss EXCEPT ![c] = k], backlog' = Append(backlog, k), step' = [step EXCEPT ![c] = "pong"],
         UNCHANGED <<state, running, listening, pc, serves, serv, kind, ran, outcome>>
  PROVE RpcInv'
  <1> USE DEF RpcInv
  <1> DEFINE l == [up |-> <<"ping">>, down |-> <<>>, server |-> "open", client |-> "open"]
  <1>1. /\ l \in RpcLinks /\ l.up = <<"ping">> /\ l.down = <<>> /\ l.server = "open" /\ l.client = "open"
    BY RpcMessages DEF RpcLinks, RpcEnds2
  <1>2. link' = [link EXCEPT ![k] = l]
    OBVIOUS
  <1> HIDE DEF l
  <1>3. /\ link' \in [RpcConns -> RpcLinks] /\ link'[k] = l
        /\ \A n \in RpcConns : n # k => link'[n] = link[n]
    BY <1>1, <1>2 DEF RpcServerTypes
  <1>4. link[k].client = "closed"
    BY DEF R!Closed
  <1>5. /\ ss' \in [R!Callers -> RpcConns \cup {None}] /\ ss'[c] = k
        /\ step' \in [R!Callers -> RpcCallerSteps] /\ step'[c] = "pong"
        /\ \A d \in R!Callers : d # c => ss'[d] = ss[d] /\ step'[d] = step[d]
    BY DEF RpcClientTypes, RpcCallerSteps
  <1>6. \A d \in R!Callers : ss[d] # None => ss[d] \in RpcConns /\ ss[d] # k
    BY <1>4 DEF RpcTalk, RpcOwned, RpcClientTypes
  <1>7. \A d \in R!Callers : d # c => RpcSame(d)
    BY <1>3, <1>5, <1>6 DEF RpcSame
  <1>8. RpcClientTypes'
    BY <1>5, <1>7 DEF RpcClientTypes, RpcSame, R!RpcAssumption
  <1>9. RpcOwned'
    <2>1. \A n \in RpcConns : link[n].client = "open" => \E d \in R!Callers : ss[d] = n
      BY DEF RpcTalk, RpcOwned
    <2>2. \A n \in RpcConns : link'[n].client = "open" => \E d \in R!Callers : ss'[d] = n
      <3>1. ASSUME NEW n \in RpcConns, n # k, link'[n].client = "open" PROVE \E d \in R!Callers : ss'[d] = n
        <4>1. PICK d \in R!Callers : ss[d] = n
          BY <3>1, <1>3, <2>1
        <4>2. d # c
          BY <4>1 DEF R!RpcAssumption
        <4>3. QED
          BY <4>1, <4>2, <1>5
      <3>2. QED
        BY <3>1, <1>5
    <2>3. \A n \in RpcConns : /\ link'[n].client = "closed" => link'[n].up = <<>> /\ link'[n].down = <<>>
                              /\ link'[n].server = "closed" => link'[n].up = <<>>
      <3>1. ASSUME NEW n \in RpcConns, n # k
            PROVE  /\ link'[n].client = "closed" => link'[n].up = <<>> /\ link'[n].down = <<>>
                   /\ link'[n].server = "closed" => link'[n].up = <<>>
        <4>1. link'[n] = link[n]
          BY <1>3, <3>1
        <4>2. QED
          BY <4>1 DEF RpcTalk, RpcOwned
      <3>2. link'[k].client = "open" /\ link'[k].server = "open"
        BY <1>1, <1>3
      <3>3. QED
        BY <3>1, <3>2
    <2>4. \A d \in R!Callers : ss'[d] # None => link'[ss'[d]].client = "open"
      BY <1>1, <1>3, <1>5, <1>6 DEF RpcTalk, RpcOwned
    <2>5. \A d, e \in R!Callers : ss'[d] # None /\ ss'[d] = ss'[e] => d = e
      BY <1>5, <1>6 DEF RpcTalk, RpcOwned
    <2>6. QED
      BY <2>2, <2>3, <2>4, <2>5 DEF RpcOwned
  <1>10. RpcConversation(c)'
    BY <1>1, <1>3, <1>5 DEF RpcConversation
  <1>11. c \in Clients => RpcToldOf(c)'
    BY <1>5 DEF RpcTalk, RpcTold, RpcToldOf
  <1>12. RpcTalk'
    BY <1>7, <1>9, <1>10, <1>11, RpcTalkByCaller
  <1>13. RpcServerTypes'
    BY <1>3 DEF RpcServerTypes
  <1>14. RpcQuiet'
    <2>1. RpcQuietThreads'
      BY DEF RpcQuiet, RpcQuietThreads, RpcRunning
    <2>2. R!Alive'
      BY DEF R!Alive
    <2>3. /\ \A i \in DOMAIN backlog : i \in DOMAIN backlog' /\ backlog'[i] = backlog[i]
          /\ Len(backlog) + 1 \in DOMAIN backlog' /\ backlog'[Len(backlog) + 1] = k
      BY DEF RpcServerTypes
    <2>4. k \in R!Queued' /\ R!Queued \subseteq R!Queued'
      BY <2>3 DEF R!Queued
    <2>5. RpcQuietConns'
      BY <1>3, <2>2, <2>4 DEF RpcQuiet, RpcQuietConns
    <2>6. QED
      BY <2>1, <2>5 DEF RpcQuiet
  <1>15. QED
    BY <1>8, <1>12, <1>13, <1>14

LEMMA RpcConnectInv == ASSUME R!RpcAssumption, RpcInv, NEW c \in R!Callers, R!Connect(c) PROVE RpcInv'
  <1>1. /\ UNCHANGED <<state, running, listening, pc, serves, serv, kind, ran, outcome>>
        /\ step[c] = "connect"
    BY DEF R!Connect
  <1>2. c \in Clients => ran[c] = 0 /\ kind[c] \in RpcKinds /\ outcome[c] = "none"
    BY <1>1 DEF RpcInv, RpcTalk, RpcTold, RpcToldOf
  <1>3. CASE ss[c] # None
    <2>1. /\ link' = R!Sends(ss[c], "ping") /\ step' = [step EXCEPT ![c] = "pong"] /\ UNCHANGED <<backlog, ss>>
      BY <1>3 DEF R!Connect
    <2>2. link[ss[c]].up = <<>> /\ link[ss[c]].down = <<>>
      BY <1>1, <1>3 DEF RpcInv, RpcTalk, RpcConversation
    <2>3. /\ link' \in [RpcConns -> RpcLinks]
          /\ \A n \in RpcConns : n # ss[c] => link'[n] = link[n]
          /\ link'[ss[c]].up = IF link[ss[c]].server = "open" THEN Append(link[ss[c]].up, "ping") ELSE link[ss[c]].up
          /\ link'[ss[c]].server = link[ss[c]].server
          /\ link'[ss[c]].down = link[ss[c]].down /\ link'[ss[c]].client = link[ss[c]].client
      BY <1>3, <2>1, RpcConnInv, RpcSendsDoes DEF RpcInv
    <2>4. Append(<<>>, "ping") = <<"ping">>
      OBVIOUS
    <2>5. /\ link'[ss[c]].up = IF link[ss[c]].server = "open" THEN <<"ping">> ELSE <<>>
          /\ link'[ss[c]].down = <<>> /\ step'[c] = "pong"
      BY <2>1, <2>2, <2>3, <2>4 DEF RpcInv, RpcClientTypes
    <2>6. RpcConversation(c)'
      BY <2>1, <2>5 DEF RpcConversation
    <2>7. c \in Clients => RpcToldOf(c)'
      BY <1>1, <1>2, <2>5 DEF RpcToldOf
    <2>8. QED
      BY <1>1, <1>3, <2>1, <2>2, <2>3, <2>5, <2>6, <2>7, RpcKeptInv DEF RpcInv, RpcClientTypes,
         RpcCallerSteps
  <1>4. CASE ss[c] = None /\ R!Alive
    <2>1. \E n \in RpcConns : link[n] = R!Closed
      BY <1>4 DEF R!Connect
    <2>2. PICK k \in RpcConns : k = CHOOSE n \in RpcConns : link[n] = R!Closed
      BY <2>1
    <2>3. link[k] = R!Closed
      BY <2>1, <2>2
    <2>4. /\ link' = [link EXCEPT ![k] = [up |-> <<"ping">>, down |-> <<>>, server |-> "open", client |-> "open"]]
          /\ ss' = [ss EXCEPT ![c] = k] /\ backlog' = Append(backlog, k)
          /\ step' = [step EXCEPT ![c] = "pong"]
      BY <1>4, <2>2, Zenon DEF R!Connect
    <2>5. QED
      BY <1>1, <1>4, <2>3, <2>4, RpcNewInv
  <1>5. CASE ss[c] = None /\ ~R!Alive
    <2>1. UNCHANGED <<link, ss, backlog, step>>
      BY <1>5, Zenon DEF R!Connect
    <2>2. RpcConversation(c)'
      BY <1>1, <1>5, <2>1 DEF RpcConversation, RpcInv, RpcClientTypes
    <2>3. c \in Clients => RpcToldOf(c)'
      BY <1>1, <1>2, <2>1 DEF RpcToldOf
    <2>4. step' = [step EXCEPT ![c] = "connect"]
      BY <1>1, <2>1 DEF RpcInv, RpcClientTypes
    <2>5. QED
      BY <1>1, <1>5, <2>1, <2>2, <2>3, <2>4, RpcKeptInv DEF RpcInv, RpcServerTypes, RpcClientTypes,
         RpcCallerSteps
  <1>6. QED
    BY <1>3, <1>4, <1>5

LEMMA RpcInvNext == R!RpcAssumption /\ RpcInv /\ [R!Next]_rpcVars => RpcInv'
  <1> SUFFICES ASSUME R!RpcAssumption, RpcInv, [R!Next]_rpcVars PROVE RpcInv'
    OBVIOUS
  <1>1. CASE R!Start
    BY <1>1, RpcStartInv
  <1>2. CASE R!ServReturn
    BY <1>2, RpcServReturnInv
  <1>3. CASE R!StopBegin
    BY <1>3, RpcStopBeginInv
  <1>4. CASE R!StopStep
    BY <1>4, RpcStopStepInv
  <1>5. ASSUME NEW t \in Threads, R!ThreadStep(t) \/ R!Timeout(t) PROVE RpcInv'
    BY <1>5, RpcTestInv, RpcEnterAcceptInv, RpcAcceptInv, RpcEofTimeoutInv, RpcServeInv,
       RpcLeaveInv DEF R!ThreadStep
  <1>6. ASSUME NEW c \in R!Callers, R!CallStep(c) PROVE RpcInv'
    BY <1>6, RpcConnectInv, RpcCannotConnectInv, RpcPongInv, RpcNoPongInv, RpcRequestInv, RpcReplyInv,
       RpcNoReplyInv DEF R!CallStep
  <1>7. ASSUME NEW c \in Clients, R!Quit(c) PROVE RpcInv'
    BY <1>7, RpcQuitInv
  <1>8. ASSUME NEW c \in Clients, NEW what \in RpcKinds, R!Call(c, what) PROVE RpcInv'
    BY <1>8, RpcCallInv
  <1>9. CASE UNCHANGED rpcVars
    <2>1. UNCHANGED <<state, running, mutex, listening, backlog, pc, serves, serv, R!client, link, ran>>
      BY <1>9 DEF rpcVars, R!client
    <2>2. RpcServerTypes' /\ RpcQuiet'
      BY <2>1, RpcQuietCalls DEF RpcInv, RpcServerTypes
    <2>3. QED
      BY <2>1, <2>2, RpcClientSame, RpcTalkSame DEF RpcInv
  <1>10. QED
    BY <1>1, <1>2, <1>3, <1>4, <1>5, <1>6, <1>7, <1>8, <1>9 DEF R!Next

\* The invariant says what the two properties say.
LEMMA RpcInvQuiet == ASSUME R!RpcAssumption, RpcInv PROVE R!StoppedMeansQuiet
  <1> SUFFICES ASSUME state = "STOPPED"
               PROVE /\ running = 0 /\ ~R!Alive /\ backlog = <<>>
                     /\ \A t \in Threads : pc[t] = "none" /\ serves[t] = None
                     /\ \A k \in RpcConns : link[k].server = "closed"
    BY DEF R!StoppedMeansQuiet
  <1>1. running = Cardinality({}) /\ \A t \in Threads : pc[t] = "none"
    BY DEF RpcInv, RpcQuiet, RpcQuietThreads, RpcRunning
  <1>2. ~listening /\ \A t \in Threads : serves[t] = None
    BY <1>1 DEF RpcInv, RpcQuiet, RpcQuietThreads
  <1>3. ~R!Alive
    BY <1>1, <1>2 DEF R!Alive
  <1>4. backlog = <<>>
    BY <1>3, Zenon DEF RpcInv, RpcQuiet, RpcQuietConns
  <1>5. R!Queued = {}
    BY <1>4 DEF R!Queued
  <1>6. \A k \in RpcConns : link[k].server # "open"
    <2>1. None \notin RpcConns
      BY DEF R!RpcAssumption
    <2>2. \A k \in RpcConns : link[k].server = "open" => k \in R!Queued \/ \E t \in Threads : serves[t] = k
      BY Zenon DEF RpcInv, RpcQuiet, RpcQuietConns
    <2>3. QED
      BY <1>2, <1>5, <2>1, <2>2, Zenon
  <1>7. \A k \in RpcConns : link[k].server = "closed"
    BY <1>6 DEF RpcInv, RpcServerTypes, RpcLinks, RpcEnds2
  <1>8. QED
    BY <1>1, <1>2, <1>3, <1>4, <1>7, FS_EmptySet

LEMMA RpcInvOutcomes == ASSUME R!RpcAssumption, RpcInv PROVE R!OutcomesTrue
  <1> SUFFICES ASSUME NEW c \in Clients
               PROVE /\ ran[c] <= 1
                     /\ outcome[c] = "ok" => ran[c] = 1 /\ kind[c] = "good"
                     /\ outcome[c] \in {"not_found", "version_mismatch", "no_connection"} => ran[c] = 0
    BY DEF R!OutcomesTrue
  <1>1. c \in R!Callers /\ c # Stopper /\ step[c] \in RpcCallerSteps
    BY DEF RpcInv, RpcClientTypes, R!Callers, R!RpcAssumption
  <1>2. RpcToldOf(c) /\ RpcConversation(c)
    BY <1>1 DEF RpcInv, RpcTalk, RpcTold
  <1>3. CASE step[c] = "idle"
    BY <1>2, <1>3 DEF RpcToldOf
  <1>4. CASE step[c] \in {"connect", "pong", "request"}
    BY <1>2, <1>4 DEF RpcToldOf
  <1>5. CASE step[c] = "reply"
    BY <1>2, <1>5 DEF RpcToldOf, RpcConversation
  <1>6. QED
    BY <1>1, <1>2, <1>3, <1>4, <1>5 DEF RpcCallerSteps, RpcToldOf

-----------------------------------------------------------------------------
(* mprpc                                                                    *)

\* The types of the state
MpEnds2 == {"open", "closed"}
MpCallKinds == {"good", "unknown", "mistyped", "throws", "silent"}
MpResponses == {"result", "method_not_found", "type_mismatch", "error"}
MpOutcomes == MpResponses \cup {"none", "rpc_error"}

MpRequest == [id : Int, from : Clients, call : M!Calls]
MpResponded == [id : Int, call : M!Calls, is : MpResponses]
MpUps == Seq(MpRequest)
MpDowns == Seq(MpResponded)
MpLinks == [up : MpUps, down : MpDowns, server : MpEnds2, client : MpEnds2]

MpLinkTypes ==
  /\ mbacklog \in Seq(MpConns)
  /\ rs \in [Threads -> MpConns \cup {None}]
  /\ mpc \in [Threads -> {"none", "test", "accept", "inner", "receive"}]
  /\ \A t \in Threads : mpc[t] \in {"inner", "receive"} => rs[t] # None
  /\ mlink \in [MpConns -> MpLinks]

MpCallTypes ==
  /\ mstep \in [Clients -> {"idle", "join"}]
  /\ mss \in [Clients -> MpConns \cup {None}]
  /\ seqid \in [Clients -> Int]
  /\ msgid \in [Clients -> Int]
  /\ mkind \in [Clients -> [M!Calls -> MpCallKinds]]
  /\ made \in [Clients -> 0..MaxCalls]
  /\ mran \in [Clients -> [M!Calls -> Nat]]
  /\ moutcome \in [Clients -> [how : MpOutcomes, of : Nat]]

\* A method runs for a call that was made, once, and if it is one to be called.
MpRanOnce ==
  \A c \in Clients, i \in M!Calls :
    /\ mran[c][i] \in {0, 1}
    /\ mran[c][i] = 1 => i <= made[c] /\ M!Invoked(mkind[c][i])

MpInUp(k) == {mlink[k].up[i] : i \in DOMAIN mlink[k].up}
MpInDown(k) == {mlink[k].down[i] : i \in DOMAIN mlink[k].down}

\* The requests on their way have been sent and not run.
MpOnTheWay ==
  \A k \in MpConns : \A m \in MpInUp(k) : m.call <= made[m.from] /\ mran[m.from][m.call] = 0

\* Two requests on their way are of different calls.
MpApart ==
  \A k, n \in MpConns : \A i \in DOMAIN mlink[k].up, j \in DOMAIN mlink[n].up :
    LET m == mlink[k].up[i]
        o == mlink[n].up[j] IN
    m.from = o.from /\ m.call = o.call => k = n /\ i = j

\* The stream of c, over which the ids follow the calls.
MpOwnStream ==
  /\ \A c \in Clients : mss[c] # None => mlink[mss[c]].client = "open"
  /\ \A c, d \in Clients : mss[c] # None /\ mss[c] = mss[d] => c = d

MpNumbers ==
  \A c \in Clients : mss[c] # None =>
    /\ 0 <= msgid[c] /\ msgid[c] < made[c] /\ seqid[c] = (msgid[c] + 1) % Ids
    /\ \A m \in MpInUp(mss[c]) : m.from = c /\ m.id = msgid[c] - made[c] + m.call
    /\ \A m \in MpInDown(mss[c]) : m.call <= made[c] /\ m.id = msgid[c] - made[c] + m.call

\* What the answers on their way to c say
MpAnswers ==
  \A c \in Clients : mss[c] # None => \A m \in MpInDown(mss[c]) :
    /\ m.is = M!Response(mkind[c][m.call])
    /\ mran[c][m.call] = IF M!Invoked(mkind[c][m.call]) THEN 1 ELSE 0

MpTold ==
  \A c \in Clients :
    /\ mstep[c] = "join" => mss[c] # None /\ moutcome[c] = M!NoOutcome
    /\ moutcome[c].of = 0 => moutcome[c].how \in {"none", "rpc_error"}
    /\ moutcome[c].of # 0 => /\ moutcome[c].of = made[c] /\ moutcome[c].how = M!Response(mkind[c][made[c]])
                             /\ mran[c][made[c]] = IF M!Invoked(mkind[c][made[c]]) THEN 1 ELSE 0

MpContent == MpRanOnce /\ MpOnTheWay /\ MpApart /\ MpOwnStream /\ MpNumbers /\ MpAnswers

MpInv == MpLinkTypes /\ MpCallTypes /\ MpContent /\ MpTold

\* The queues of a connection, and what taking and adding a message does to them
LEMMA MpMessages ==
  /\ <<>> \in MpUps /\ <<>> \in MpDowns /\ DOMAIN <<>> = {}
  /\ \A q \in MpUps, m \in MpRequest :
       /\ Append(q, m) \in MpUps
       /\ \A i \in DOMAIN Append(q, m) : \/ i \in DOMAIN q /\ Append(q, m)[i] = q[i]
                                         \/ i \notin DOMAIN q /\ Append(q, m)[i] = m /\ i = Len(q) + 1
  /\ \A q \in MpUps : q # <<>> =>
       /\ Head(q) \in MpRequest /\ Tail(q) \in MpUps
       /\ 1 \in DOMAIN q /\ q[1] = Head(q)
       /\ \A i \in DOMAIN Tail(q) : i \in Int /\ i + 1 \in DOMAIN q /\ Tail(q)[i] = q[i + 1] /\ i + 1 # 1
  /\ \A q \in MpDowns, m \in MpResponded :
       /\ Append(q, m) \in MpDowns
       /\ \A i \in DOMAIN Append(q, m) : \/ i \in DOMAIN q /\ Append(q, m)[i] = q[i]
                                         \/ Append(q, m)[i] = m
  /\ \A q \in MpDowns : q # <<>> =>
       /\ Head(q) \in MpResponded /\ Tail(q) \in MpDowns
       /\ 1 \in DOMAIN q /\ q[1] = Head(q)
       /\ \A i \in DOMAIN Tail(q) : i + 1 \in DOMAIN q /\ Tail(q)[i] = q[i + 1]
  BY DEF MpUps, MpDowns

LEMMA MpLinkFields ==
  ASSUME NEW l \in [MpConns -> MpLinks], NEW k \in MpConns
  PROVE l[k] \in MpLinks /\ l[k].up \in MpUps /\ l[k].down \in MpDowns /\ l[k].server \in MpEnds2 /\ l[k].client \in MpEnds2
  BY DEF MpLinks

\* Messages only disappear, the rest stays.
MpFewer ==
  /\ UNCHANGED <<mss, seqid, msgid, mkind, made, mran>>
  /\ mlink' \in [MpConns -> MpLinks]
  /\ \A n \in MpConns :
       /\ mlink'[n].client = mlink[n].client
       /\ mlink'[n].up = mlink[n].up \/ mlink'[n].up = <<>>
       /\ \/ mlink'[n].down = mlink[n].down
          \/ mlink[n].down # <<>> /\ mlink'[n].down = Tail(mlink[n].down)

\* What is known of the messages on their way stays known of the rest of them.
LEMMA MpFewerContent == ASSUME MpLinkTypes, MpCallTypes, MpContent, MpFewer PROVE MpContent'
  <1> USE DEF MpContent, MpFewer
  <1>1. \A n \in MpConns :
          /\ mlink'[n].client = mlink[n].client
          /\ \A i \in DOMAIN mlink'[n].up : i \in DOMAIN mlink[n].up /\ mlink'[n].up[i] = mlink[n].up[i]
    BY MpMessages
  <1>2. ASSUME NEW n \in MpConns PROVE MpInUp(n)' \subseteq MpInUp(n) /\ MpInDown(n)' \subseteq MpInDown(n)
    <2>1. MpInUp(n)' \subseteq MpInUp(n)
      BY <1>1 DEF MpInUp
    <2>2. CASE mlink'[n].down = mlink[n].down
      BY <2>1, <2>2 DEF MpInDown
    <2>3. CASE mlink[n].down # <<>> /\ mlink'[n].down = Tail(mlink[n].down)
      <3>1. mlink[n].down \in MpDowns
        BY MpLinkFields DEF MpLinkTypes
      <3>2. \A i \in DOMAIN mlink'[n].down : i + 1 \in DOMAIN mlink[n].down /\ mlink'[n].down[i] = mlink[n].down[i + 1]
        BY <2>3, <3>1, MpMessages
      <3>3. QED
        BY <2>1, <3>2 DEF MpInDown
    <2>4. QED
      BY <2>2, <2>3
  <1>3. /\ mss' = mss /\ seqid' = seqid /\ msgid' = msgid /\ mkind' = mkind /\ made' = made /\ mran' = mran
        /\ \A c \in Clients : mss[c] # None => mss[c] \in MpConns
    BY DEF MpCallTypes
  <1>4. MpRanOnce'
    BY DEF MpRanOnce, M!Invoked
  <1>5. MpOnTheWay'
    BY <1>2, <1>3 DEF MpOnTheWay
  <1>6. MpApart'
    BY <1>1 DEF MpApart
  <1>7. MpOwnStream'
    BY <1>1, <1>3 DEF MpOwnStream
  <1>8. MpNumbers'
    BY <1>2, <1>3 DEF MpNumbers
  <1>9. MpAnswers'
    BY <1>2, <1>3 DEF MpAnswers, M!Response, M!Invoked
  <1>10. QED
    BY <1>4, <1>5, <1>6, <1>7, <1>8, <1>9

\* Steps of the server that read no message: they may close its end of connections.
LEMMA MpServerStep ==
  ASSUME MpInv, MpLinkTypes', UNCHANGED <<M!client, mran>>,
         \A n \in MpConns : /\ mlink'[n].client = mlink[n].client /\ mlink'[n].down = mlink[n].down
                            /\ mlink'[n].up = mlink[n].up \/ mlink'[n].up = <<>>
  PROVE MpInv'
  <1>1. MpFewer
    <2>1. UNCHANGED <<mss, seqid, msgid, mkind, made, mran>>
      BY DEF M!client
    <2>2. mlink' \in [MpConns -> MpLinks]
      BY DEF MpLinkTypes
    <2>3. QED
      BY <2>1, <2>2 DEF MpFewer
  <1>2. MpCallTypes'
    BY DEF MpInv, MpCallTypes, M!client
  <1>3. MpTold'
    BY DEF MpInv, MpTold, M!client, M!NoOutcome, M!Response, M!Invoked
  <1>4. QED
    BY <1>1, <1>2, <1>3, MpFewerContent DEF MpInv

LEMMA MpServerSame ==
  ASSUME MpInv, MpLinkTypes', UNCHANGED <<M!client, mran, mlink>> PROVE MpInv'
  BY MpServerStep

\* The threads
LEMMA MpThreadInv ==
  ASSUME M!MpRpcAssumption, MpInv, NEW t \in Threads, M!Test(t) \/ M!Accept(t) \/ M!AcceptFails(t) PROVE MpInv'
  <1>1. CASE M!Test(t)
    <2>1. MpLinkTypes'
      BY <1>1 DEF M!Test, MpInv, MpLinkTypes
    <2>2. QED
      BY <1>1, <2>1, MpServerSame DEF M!Test
  <1>2. CASE M!Accept(t)
    <2>1. Head(mbacklog) \in MpConns /\ Tail(mbacklog) \in Seq(MpConns) /\ None \notin MpConns
      BY <1>2 DEF M!Accept, MpInv, MpLinkTypes, M!MpRpcAssumption
    <2>2. MpLinkTypes'
      BY <1>2, <2>1 DEF M!Accept, MpInv, MpLinkTypes
    <2>3. QED
      BY <1>2, <2>2, MpServerSame DEF M!Accept
  <1>3. CASE M!AcceptFails(t)
    <2>1. MpLinkTypes'
      BY <1>3 DEF M!AcceptFails, MpInv, MpLinkTypes
    <2>2. QED
      BY <1>3, <2>1, MpServerSame DEF M!AcceptFails
  <1>4. QED
    BY <1>1, <1>2, <1>3

LEMMA MpDoneDoes ==
  ASSUME MpInv, NEW t \in Threads, rs[t] \in MpConns, M!Done(t)
  PROVE LET k == rs[t] IN
        /\ mlink' \in [MpConns -> MpLinks]
        /\ \A n \in MpConns : n # k => mlink'[n] = mlink[n]
        /\ mlink'[k].up = <<>> /\ mlink'[k].server = "closed"
        /\ mlink'[k].down = mlink[k].down /\ mlink'[k].client = mlink[k].client
  <1> DEFINE k == rs[t]
  <1>1. PICK none : none = <<>> /\ mlink' = [mlink EXCEPT ![k].server = "closed", ![k].up = none]
    BY Zenon DEF M!Done
  <1>2. none \in MpUps
    BY <1>1, MpMessages
  <1>3. mlink' = [mlink EXCEPT ![k].server = "closed", ![k].up = none]
    BY <1>1
  <1>4. /\ \A n \in MpConns : n # k => mlink'[n] = mlink[n]
        /\ mlink'[k].client = mlink[k].client /\ mlink'[k].down = mlink[k].down
        /\ mlink'[k].server = "closed" /\ mlink'[k].up = none /\ mlink' \in [MpConns -> MpLinks]
    BY <1>2, <1>3 DEF MpLinks, MpEnds2, MpInv, MpLinkTypes
  <1>5. QED
    BY <1>4, <1>1

LEMMA MpDoneInv ==
  ASSUME MpInv, NEW t \in Threads, mpc[t] \in {"inner", "receive"}, M!Done(t),
         UNCHANGED <<mbacklog, M!client, mran>>
  PROVE MpInv'
  <1>1. rs[t] \in MpConns
    BY DEF MpInv, MpLinkTypes
  <1>2. MpLinkTypes'
    BY <1>1, MpDoneDoes DEF M!Done, MpInv, MpLinkTypes
  <1>3. \A n \in MpConns : /\ mlink'[n].client = mlink[n].client /\ mlink'[n].down = mlink[n].down
                           /\ mlink'[n].up = mlink[n].up \/ mlink'[n].up = <<>>
    BY <1>1, MpDoneDoes
  <1>4. QED
    BY <1>2, <1>3, MpServerStep

LEMMA MpInnerInv == ASSUME MpInv, NEW t \in Threads, M!Inner(t) PROVE MpInv'
  <1>1. CASE serv_running
    <2>1. mpc' = [mpc EXCEPT ![t] = "receive"] /\ UNCHANGED <<rs, mlink>>
      BY <1>1, Zenon DEF M!Inner
    <2>2. MpLinkTypes'
      BY <2>1 DEF M!Inner, MpInv, MpLinkTypes
    <2>3. QED
      BY <2>1, <2>2, MpServerSame DEF M!Inner
  <1>2. CASE ~serv_running
    <2>1. M!Done(t) /\ mpc[t] = "inner" /\ UNCHANGED <<mbacklog, M!client, mran>>
      BY <1>2, Zenon DEF M!Inner
    <2>2. QED
      BY <2>1, MpDoneInv
  <1>3. QED
    BY <1>1, <1>2

LEMMA MpReceiveEndsInv == ASSUME MpInv, NEW t \in Threads, M!ReceiveEof(t) \/ M!ReceiveTimeout(t) PROVE MpInv'
  BY MpDoneInv DEF M!ReceiveEof, M!ReceiveTimeout

\* run(), stop() and create()
LEMMA MpStopCloseInv == ASSUME MpInv, M!StopClose PROVE MpInv'
  <1> DEFINE queued == {mbacklog[i] : i \in DOMAIN mbacklog}
  <1>1. PICK none : none = <<>> /\ mlink' = [k \in MpConns |-> IF k \in queued
                                                         THEN [mlink[k] EXCEPT !.server = "closed", !.up = none]
                                                         ELSE mlink[k]]
    BY Zenon DEF M!StopClose
  <1>2. none \in MpUps
    BY <1>1, MpMessages
  <1>3. mlink' = [k \in MpConns |-> IF k \in queued
                                    THEN [mlink[k] EXCEPT !.server = "closed", !.up = none]
                                    ELSE mlink[k]]
    BY <1>1
  <1> HIDE DEF queued
  <1>4. mlink' \in [MpConns -> MpLinks]
    BY <1>2, <1>3 DEF MpInv, MpLinkTypes, MpLinks, MpEnds2
  <1>5. \A n \in MpConns : /\ mlink'[n].client = mlink[n].client /\ mlink'[n].down = mlink[n].down
                           /\ mlink'[n].up = mlink[n].up \/ mlink'[n].up = none
    BY <1>2, <1>3 DEF MpInv, MpLinkTypes, MpLinks, MpEnds2
  <1>6. mbacklog' \in Seq(MpConns) /\ UNCHANGED <<M!client, mran, mpc, rs>>
    <2>1. mbacklog' = <<>> /\ UNCHANGED <<M!client, mran, mpc, rs>>
      BY Zenon DEF M!StopClose
    <2>2. mbacklog' \in Seq(MpConns)
      BY <2>1
    <2>3. QED
      BY <2>1, <2>2
  <1>7. MpLinkTypes'
    BY <1>4, <1>6 DEF MpInv, MpLinkTypes
  <1>8. QED
    BY <1>1, <1>5, <1>6, <1>7, MpServerStep

LEMMA MpRunnersInv == ASSUME MpInv, M!RunTest \/ M!RunStart \/ M!RunReturn \/ M!StopFlag \/ M!Create PROVE MpInv'
  <1>1. UNCHANGED <<M!client, mran, mlink, mbacklog, rs>>
    BY DEF M!RunTest, M!RunStart, M!RunReturn, M!StopFlag, M!Create
  <1>2. mpc' = mpc \/ mpc' = [t \in Threads |-> "test"]
    BY DEF M!RunTest, M!RunStart, M!RunReturn, M!StopFlag, M!Create
  <1>3. MpLinkTypes'
    BY <1>1, <1>2 DEF MpInv, MpLinkTypes
  <1>4. QED
    BY <1>1, <1>3, MpServerSame

-----------------------------------------------------------------------------

\* A response taken, or an end of the call without one
LEMMA MpTakesInv ==
  ASSUME MpInv, NEW c \in Clients, M!Answered(c), mlink' = [mlink EXCEPT ![mss[c]].down = Tail(@)],
         UNCHANGED <<mbacklog, mpc, rs, mss, seqid, msgid, mkind, made, mran>>
  PROVE /\ MpLinkTypes' /\ MpContent'
        /\ mss[c] \in MpConns /\ M!Answer(c) \in MpInDown(mss[c])
  <1>1. mss[c] \in MpConns /\ mlink[mss[c]].down # <<>>
    BY DEF M!Answered, MpInv, MpTold, MpCallTypes
  <1>2. mlink[mss[c]].down \in MpDowns
    BY <1>1, MpLinkFields DEF MpInv, MpLinkTypes
  <1>3. Tail(mlink[mss[c]].down) \in MpDowns /\ M!Answer(c) \in MpInDown(mss[c])
    <2> DEFINE q == mlink[mss[c]].down
    <2>1. Tail(q) \in MpDowns /\ 1 \in DOMAIN q /\ q[1] = Head(q)
      BY <1>1, <1>2, MpMessages
    <2>2. QED
      BY <2>1 DEF M!Answer, MpInDown
  <1>4. /\ mlink' \in [MpConns -> MpLinks]
        /\ \A n \in MpConns : n # mss[c] => mlink'[n] = mlink[n]
        /\ mlink'[mss[c]].down = Tail(mlink[mss[c]].down)
        /\ mlink'[mss[c]].up = mlink[mss[c]].up /\ mlink'[mss[c]].client = mlink[mss[c]].client
    BY <1>1, <1>3 DEF MpInv, MpLinkTypes, MpLinks
  <1>5. MpFewer
    <2>1. ASSUME NEW n \in MpConns
          PROVE /\ mlink'[n].client = mlink[n].client
                /\ mlink'[n].up = mlink[n].up
                /\ \/ mlink'[n].down = mlink[n].down
                   \/ mlink[n].down # <<>> /\ mlink'[n].down = Tail(mlink[n].down)
      <3>1. CASE n = mss[c]
        BY <1>1, <1>4, <3>1
      <3>2. CASE n # mss[c]
        BY <1>4, <3>2
      <3>3. QED
        BY <3>1, <3>2
    <2>2. QED
      BY <1>4, <2>1 DEF MpFewer
  <1>6. MpLinkTypes'
    BY <1>4 DEF MpInv, MpLinkTypes
  <1>7. QED
    BY <1>1, <1>3, <1>5, <1>6, MpFewerContent DEF MpInv

\* A call ends, with an answer to it or without one.
LEMMA MpEndsInv ==
  ASSUME MpInv, NEW c \in Clients, MpLinkTypes', MpContent', UNCHANGED <<mss, seqid, msgid, mkind, made, mran>>,
         mstep' = [mstep EXCEPT ![c] = "idle"], NEW how \in MpOutcomes, NEW of \in Nat,
         moutcome' = [moutcome EXCEPT ![c] = [how |-> how, of |-> of]],
         of = 0 => how \in {"none", "rpc_error"},
         of # 0 => /\ of = made[c] /\ how = M!Response(mkind[c][made[c]])
                   /\ mran[c][made[c]] = IF M!Invoked(mkind[c][made[c]]) THEN 1 ELSE 0
  PROVE MpInv'
  <1> DEFINE o == [how |-> how, of |-> of]
  <1>1. o \in [how : MpOutcomes, of : Nat] /\ o.how = how /\ o.of = of
    OBVIOUS
  <1>2. moutcome' = [moutcome EXCEPT ![c] = o]
    OBVIOUS
  <1> HIDE DEF o
  <1>3. /\ moutcome' \in [Clients -> [how : MpOutcomes, of : Nat]] /\ mstep' \in [Clients -> {"idle", "join"}]
        /\ moutcome'[c].how = how /\ moutcome'[c].of = of /\ mstep'[c] = "idle"
        /\ \A d \in Clients : d # c => moutcome'[d] = moutcome[d] /\ mstep'[d] = mstep[d]
    BY <1>1, <1>2 DEF MpInv, MpCallTypes
  <1>4. MpCallTypes'
    BY <1>3 DEF MpInv, MpCallTypes
  <1>5. MpTold'
    <2>1. mss' = mss /\ mkind' = mkind /\ made' = made /\ mran' = mran
      OBVIOUS
    <2>2. ASSUME NEW d \in Clients
          PROVE /\ mstep'[d] = "join" => mss'[d] # None /\ moutcome'[d] = M!NoOutcome
                /\ moutcome'[d].of = 0 => moutcome'[d].how \in {"none", "rpc_error"}
                /\ moutcome'[d].of # 0 => /\ moutcome'[d].of = made'[d] /\ moutcome'[d].how = M!Response(mkind'[d][made'[d]])
                                          /\ mran'[d][made'[d]] = IF M!Invoked(mkind'[d][made'[d]]) THEN 1 ELSE 0
      <3>1. CASE d = c
        BY <1>3, <2>1, <3>1
      <3>2. CASE d # c
        BY <1>3, <2>1, <3>2 DEF MpInv, MpTold
      <3>3. QED
        BY <3>1, <3>2
    <2>3. QED
      BY <2>2 DEF MpTold, M!NoOutcome
  <1>6. QED
    BY <1>4, <1>5 DEF MpInv

\* The clients: the end of a call
LEMMA MpJoinInv == ASSUME MpInv, NEW c \in Clients, M!Join(c) PROVE MpInv'
  <1> DEFINE m == M!Answer(c)
  <1>1. /\ M!Answered(c) /\ m.id = msgid[c]
        /\ mlink' = [mlink EXCEPT ![mss[c]].down = Tail(@)]
        /\ mstep' = [mstep EXCEPT ![c] = "idle"]
        /\ moutcome' = [moutcome EXCEPT ![c] = [how |-> m.is, of |-> m.call]]
        /\ UNCHANGED <<mbacklog, mpc, rs, mss, seqid, msgid, mkind, made, mran>>
    BY DEF M!Join, M!Joins, M!server
  <1>2. /\ MpLinkTypes' /\ MpContent' /\ mss[c] \in MpConns /\ m \in MpInDown(mss[c])
    BY <1>1, MpTakesInv
  <1>3. mstep[c] = "join" /\ mss[c] # None
    BY <1>1 DEF M!Answered, MpInv, MpTold
  <1>4. m \in MpResponded
    <2>1. mlink[mss[c]].down \in Seq(MpResponded)
      BY <1>2, MpLinkFields DEF MpInv, MpLinkTypes, MpDowns
    <2>2. QED
      BY <1>2, <2>1 DEF MpInDown
  <1> HIDE DEF m
  <1>5. m.call \in Nat /\ m.call # 0 /\ m.is \in MpOutcomes /\ m.id \in Int
    BY <1>4 DEF MpResponded, M!Calls, MpOutcomes
  <1>6. m.call = made[c]
    <2>1. m.id = msgid[c] - made[c] + m.call
      BY <1>2, <1>3 DEF MpInv, MpContent, MpNumbers
    <2>2. msgid[c] \in Int /\ made[c] \in Int
      BY DEF MpInv, MpCallTypes
    <2>3. QED
      BY <1>1, <1>5, <2>1, <2>2
  <1>7. /\ m.is = M!Response(mkind[c][made[c]])
        /\ mran[c][made[c]] = IF M!Invoked(mkind[c][made[c]]) THEN 1 ELSE 0
    BY <1>2, <1>3, <1>6 DEF MpInv, MpContent, MpAnswers
  <1>8. QED
    BY <1>1, <1>2, <1>5, <1>6, <1>7, MpEndsInv

LEMMA MpJoinDropsInv == ASSUME MpInv, NEW c \in Clients, M!JoinDrops(c) PROVE MpInv'
  <1>1. /\ M!Answered(c) /\ mlink' = [mlink EXCEPT ![mss[c]].down = Tail(@)]
        /\ UNCHANGED <<mbacklog, mpc, rs, M!client, mran>>
    BY DEF M!JoinDrops, M!server
  <1>2. /\ MpLinkTypes' /\ MpContent'
    BY <1>1, MpTakesInv DEF M!client
  <1>3. MpCallTypes' /\ MpTold'
    BY <1>1 DEF MpInv, MpCallTypes, MpTold, M!client, M!NoOutcome, M!Response, M!Invoked
  <1>4. QED
    BY <1>2, <1>3 DEF MpInv

LEMMA MpJoinFailsInv == ASSUME MpInv, NEW c \in Clients, M!JoinEof(c) \/ M!JoinTimeout(c) PROVE MpInv'
  <1>1. /\ UNCHANGED <<mbacklog, mpc, rs, mss, seqid, msgid, mkind, made, mran, mlink>>
        /\ mstep' = [mstep EXCEPT ![c] = "idle"]
        /\ moutcome' = [moutcome EXCEPT ![c] = [how |-> "rpc_error", of |-> 0]]
    BY DEF M!JoinEof, M!JoinTimeout, M!Fails, M!server
  <1>2. MpLinkTypes'
    BY <1>1 DEF MpInv, MpLinkTypes
  <1>3. MpFewer
    BY <1>1, <1>2 DEF MpFewer, MpLinkTypes
  <1>4. MpContent'
    BY <1>3, MpFewerContent DEF MpInv
  <1>5. QED
    BY <1>1, <1>2, <1>4, MpEndsInv DEF MpOutcomes

LEMMA MpQuitInv == ASSUME M!MpRpcAssumption, MpInv, NEW c \in Clients, M!Quit(c) PROVE MpInv'
  <1> USE DEF MpInv, MpContent
  <1> DEFINE k == mss[c]
  <1>1. /\ mstep[c] = "idle" /\ k \in MpConns /\ k # None
        /\ mss' = [mss EXCEPT ![c] = None] /\ seqid' = [seqid EXCEPT ![c] = 0]
        /\ UNCHANGED <<mbacklog, mpc, rs, mstep, msgid, mkind, made, moutcome, mran>>
    BY DEF M!Quit, M!server, MpCallTypes
  <1>2. PICK none : none = <<>> /\ mlink' = [mlink EXCEPT ![k].client = "closed", ![k].down = none]
    BY Zenon DEF M!Quit
  <1>3. none \in MpDowns
    BY <1>2, MpMessages
  <1>4. mlink' = [mlink EXCEPT ![k].client = "closed", ![k].down = none]
    BY <1>2
  <1>5. /\ mlink' \in [MpConns -> MpLinks]
        /\ \A n \in MpConns : n # k => mlink'[n] = mlink[n]
        /\ mlink'[k].up = mlink[k].up
    BY <1>1, <1>3, <1>4 DEF MpLinks, MpEnds2, MpLinkTypes
  <1>6. /\ mss' \in [Clients -> MpConns \cup {None}] /\ mss'[c] = None /\ seqid' \in [Clients -> Int]
        /\ \A d \in Clients : d # c => mss'[d] = mss[d] /\ seqid'[d] = seqid[d]
    BY <1>1 DEF MpCallTypes
  <1>7. \A d \in Clients : mss'[d] # None => /\ d # c /\ mss'[d] = mss[d] /\ mss[d] \in MpConns /\ mss[d] # k
                                             /\ mlink'[mss[d]] = mlink[mss[d]]
    BY <1>5, <1>6 DEF MpOwnStream, MpCallTypes
  <1> HIDE DEF k
  <1>8. MpLinkTypes'
    BY <1>1, <1>5 DEF MpLinkTypes
  <1>9. MpCallTypes'
    BY <1>1, <1>6 DEF MpCallTypes
  <1>10. \A n \in MpConns : mlink'[n].up = mlink[n].up
    BY <1>5
  <1>11. MpRanOnce'
    BY <1>1 DEF MpRanOnce, M!Invoked
  <1>12. MpOnTheWay'
    BY <1>1, <1>10 DEF MpOnTheWay, MpInUp
  <1>13. MpApart'
    BY <1>10 DEF MpApart
  <1>14. MpOwnStream'
    BY <1>7 DEF MpOwnStream
  <1>15. \A n \in MpConns : n # k => MpInUp(n)' = MpInUp(n) /\ MpInDown(n)' = MpInDown(n)
    BY <1>5 DEF MpInUp, MpInDown
  <1>16. MpNumbers'
    BY <1>1, <1>6, <1>7, <1>15 DEF MpNumbers
  <1>17. MpAnswers'
    BY <1>1, <1>6, <1>7, <1>15 DEF MpAnswers
  <1>18. MpTold'
    <2>1. ASSUME NEW d \in Clients, mstep[d] = "join" PROVE mss'[d] # None
      BY <1>1, <1>6, <2>1 DEF MpTold
    <2>2. QED
      BY <1>1, <2>1 DEF MpTold, M!NoOutcome, M!Response, M!Invoked
  <1>19. QED
    BY <1>8, <1>9, <1>11, <1>12, <1>13, <1>14, <1>16, <1>17, <1>18

\* A call begins: its kind is noted, and no earlier one changes.
LEMMA MpBeginsDoes ==
  ASSUME M!MpRpcAssumption, MpInv, NEW c \in Clients, NEW what \in MpKinds, M!Begins(c, what)
  PROVE /\ made[c] \in 0..MaxCalls /\ made[c] < MaxCalls /\ made'[c] = made[c] + 1 /\ made'[c] \in M!Calls
        /\ made' \in [Clients -> 0..MaxCalls] /\ mkind' \in [Clients -> [M!Calls -> MpCallKinds]]
        /\ \A d \in Clients : d # c => made'[d] = made[d] /\ mkind'[d] = mkind[d]
        /\ \A i \in M!Calls : i <= made[c] => mkind'[c][i] = mkind[c][i]
  <1>1. /\ made' = [made EXCEPT ![c] = @ + 1] /\ made[c] < MaxCalls
        /\ mkind' = [mkind EXCEPT ![c][made'[c]] = what]
    BY DEF M!Begins
  <1>2. made[c] \in 0..MaxCalls /\ made'[c] = made[c] + 1 /\ what \in MpCallKinds /\ MaxCalls \in Nat
    BY <1>1 DEF MpInv, MpCallTypes, M!MpRpcAssumption, MpCallKinds
  <1>3. made'[c] \in M!Calls /\ made' \in [Clients -> 0..MaxCalls] /\ \A d \in Clients : d # c => made'[d] = made[d]
    BY <1>1, <1>2 DEF MpInv, MpCallTypes, M!Calls
  <1> DEFINE i0 == made'[c]
  <1>4. mkind' = [mkind EXCEPT ![c][i0] = what] /\ i0 \in M!Calls /\ i0 = made[c] + 1
    BY <1>1, <1>2, <1>3
  <1> HIDE DEF i0
  <1>5. mkind' \in [Clients -> [M!Calls -> MpCallKinds]] /\ \A d \in Clients : d # c => mkind'[d] = mkind[d]
    BY <1>2, <1>4 DEF MpInv, MpCallTypes
  <1>6. \A i \in M!Calls : i # i0 => mkind'[c][i] = mkind[c][i]
    BY <1>4 DEF MpInv, MpCallTypes
  <1>7. \A i \in M!Calls : i <= made[c] => i # i0
    BY <1>2, <1>4 DEF M!Calls
  <1>8. QED
    BY <1>1, <1>2, <1>3, <1>5, <1>6, <1>7

\* Nothing has run for the call that begins,
LEMMA MpBeginsRanOnce ==
  ASSUME M!MpRpcAssumption, MpInv, NEW c \in Clients, NEW what \in MpKinds, M!Begins(c, what), UNCHANGED mran
  PROVE MpRanOnce' /\ mran[c][made[c] + 1] = 0
  <1>1. ASSUME NEW d \in Clients, NEW i \in M!Calls, mran[d][i] = 1
        PROVE i <= made'[d] /\ mkind'[d][i] = mkind[d][i] /\ i <= made[d]
    <2>1. i <= made[d]
      BY <1>1 DEF MpInv, MpContent, MpRanOnce
    <2>2. i \in Int /\ made[d] \in Int
      BY DEF M!Calls, MpInv, MpCallTypes
    <2>3. QED
      BY <2>1, <2>2, MpBeginsDoes
  <1>2. MpRanOnce'
    BY <1>1 DEF MpInv, MpContent, MpRanOnce, M!Invoked
  <1>3. made[c] + 1 \in M!Calls /\ made[c] \in Int
    BY MpBeginsDoes
  <1>4. mran[c][made[c] + 1] # 1
    BY <1>1, <1>3
  <1>5. QED
    BY <1>2, <1>3, <1>4 DEF MpInv, MpContent, MpRanOnce

\* and the requests on their way are of calls before it.
LEMMA MpBeginsOnTheWay ==
  ASSUME M!MpRpcAssumption, MpInv, NEW c \in Clients, NEW what \in MpKinds, M!Begins(c, what),
         NEW k \in MpConns, NEW m \in MpInUp(k)
  PROVE /\ m.from \in Clients /\ m.call \in M!Calls /\ m.call <= made[m.from]
        /\ m.call <= made'[m.from] /\ mran[m.from][m.call] = 0
  <1>1. m \in MpRequest
    BY MpLinkFields DEF MpInv, MpLinkTypes, MpUps, MpInUp
  <1>2. m.from \in Clients /\ m.call \in M!Calls /\ m.call \in Int
    BY <1>1 DEF MpRequest, M!Calls
  <1>3. m.call <= made[m.from] /\ mran[m.from][m.call] = 0
    BY DEF MpInv, MpContent, MpOnTheWay
  <1>4. made[m.from] \in Int /\ made'[m.from] \in Int /\ made[m.from] <= made'[m.from]
    <2>1. CASE m.from = c
      BY <2>1, MpBeginsDoes
    <2>2. CASE m.from # c
      BY <1>2, <2>2, MpBeginsDoes DEF MpInv, MpCallTypes
    <2>3. QED
      BY <2>1, <2>2
  <1>5. QED
    BY <1>2, <1>3, <1>4

\* The beginning of a call
LEMMA MpCannotConnectInv ==
  ASSUME M!MpRpcAssumption, MpInv, NEW c \in Clients, NEW what \in MpKinds, M!CannotConnect(c, what) PROVE MpInv'
  <1> USE DEF MpInv, MpContent
  <1>1. /\ M!Begins(c, what) /\ mss[c] = None
        /\ UNCHANGED <<mbacklog, mpc, rs, mss, seqid, msgid, mlink, mran>>
        /\ mstep' = [mstep EXCEPT ![c] = "idle"]
        /\ moutcome' = [moutcome EXCEPT ![c] = [how |-> "rpc_error", of |-> 0]]
    BY DEF M!CannotConnect, M!Fails, M!server
  <1> DEFINE o == [how |-> "rpc_error", of |-> 0]
  <1>2. o \in [how : MpOutcomes, of : Nat] /\ o.how = "rpc_error" /\ o.of = 0
    BY DEF MpOutcomes
  <1>3. moutcome' = [moutcome EXCEPT ![c] = o]
    BY <1>1
  <1> HIDE DEF o
  <1>4. /\ moutcome' \in [Clients -> [how : MpOutcomes, of : Nat]] /\ mstep' \in [Clients -> {"idle", "join"}]
        /\ moutcome'[c] = o /\ mstep'[c] = "idle"
        /\ \A d \in Clients : d # c => moutcome'[d] = moutcome[d] /\ mstep'[d] = mstep[d]
    BY <1>1, <1>2, <1>3 DEF MpCallTypes
  <1>5. /\ made[c] \in 0..MaxCalls /\ made'[c] = made[c] + 1
        /\ made' \in [Clients -> 0..MaxCalls] /\ mkind' \in [Clients -> [M!Calls -> MpCallKinds]]
        /\ \A d \in Clients : d # c => made'[d] = made[d] /\ mkind'[d] = mkind[d]
    BY <1>1, MpBeginsDoes
  <1>6. MpLinkTypes'
    BY <1>1 DEF MpLinkTypes
  <1>7. MpCallTypes'
    BY <1>1, <1>4, <1>5 DEF MpCallTypes
  <1>8. MpRanOnce'
    BY <1>1, MpBeginsRanOnce
  <1>9. MpOnTheWay'
    <2>1. \A k \in MpConns : \A m \in MpInUp(k) : m.call <= made'[m.from] /\ mran[m.from][m.call] = 0
      BY <1>1, MpBeginsOnTheWay
    <2>2. QED
      BY <1>1, <2>1 DEF MpOnTheWay, MpInUp
  <1>10. MpApart' /\ MpOwnStream'
    BY <1>1 DEF MpApart, MpOwnStream
  <1>11. \A d \in Clients : mss[d] # None => d # c /\ made'[d] = made[d] /\ mkind'[d] = mkind[d]
    BY <1>1, <1>5
  <1>16. \A n : MpInUp(n)' = MpInUp(n) /\ MpInDown(n)' = MpInDown(n)
    BY <1>1 DEF MpInUp, MpInDown
  <1>12. MpNumbers'
    BY <1>1, <1>11, <1>16 DEF MpNumbers
  <1>13. MpAnswers'
    BY <1>1, <1>11, <1>16 DEF MpAnswers
  <1>14. MpTold'
    <2>1. ASSUME NEW d \in Clients
          PROVE /\ mstep'[d] = "join" => mss'[d] # None /\ moutcome'[d] = M!NoOutcome
                /\ moutcome'[d].of = 0 => moutcome'[d].how \in {"none", "rpc_error"}
                /\ moutcome'[d].of # 0 => /\ moutcome'[d].of = made'[d] /\ moutcome'[d].how = M!Response(mkind'[d][made'[d]])
                                          /\ mran'[d][made'[d]] = IF M!Invoked(mkind'[d][made'[d]]) THEN 1 ELSE 0
      <3>1. CASE d = c
        BY <1>2, <1>4, <3>1
      <3>2. CASE d # c
        BY <1>1, <1>4, <1>5, <3>2 DEF MpTold
      <3>3. QED
        BY <3>1, <3>2
    <2>2. QED
      BY <2>1 DEF MpTold, M!NoOutcome
  <1>15. QED
    BY <1>6, <1>7, <1>8, <1>9, <1>10, <1>12, <1>13, <1>14

\* Connection k is, or is to be, c's alone, and what is on its way over it goes with its next
\* request having the number id.
MpReady(c, k, id) ==
  /\ id \in Int /\ 0 <= id /\ id <= made[c]
  /\ \A o \in MpInUp(k) : o.from = c /\ o.id = id - (made[c] + 1) + o.call
  /\ \A o \in MpInDown(k) : /\ o.call \in M!Calls /\ o.call <= made[c] /\ o.id = id - (made[c] + 1) + o.call
                            /\ o.is = M!Response(mkind[c][o.call])
                            /\ mran[c][o.call] = IF M!Invoked(mkind[c][o.call]) THEN 1 ELSE 0
  /\ \A d \in Clients : d # c /\ mss[d] # None => mss[d] # k

MpNextRequest(c, id) == [id |-> id, from |-> c, call |-> made[c] + 1]

MpSent(c, k, id) ==
  /\ mlink' \in [MpConns -> MpLinks] /\ \A n \in MpConns : n # k => mlink'[n] = mlink[n]
  /\ mlink'[k].client = "open" /\ mlink'[k].down = mlink[k].down
  /\ mlink'[k].up = mlink[k].up \/ mlink'[k].up = Append(mlink[k].up, MpNextRequest(c, id))
  /\ mss' = [mss EXCEPT ![c] = k]
  /\ msgid' = [msgid EXCEPT ![c] = id] /\ seqid' = [seqid EXCEPT ![c] = (id + 1) % Ids]
  /\ mstep' = [mstep EXCEPT ![c] = "join"] /\ moutcome' = [moutcome EXCEPT ![c] = M!NoOutcome]
  /\ mbacklog' \in Seq(MpConns) /\ UNCHANGED <<mpc, rs, mran>>

LEMMA MpSendsInv ==
  ASSUME M!MpRpcAssumption, MpInv, NEW c \in Clients, NEW what \in MpKinds, M!Begins(c, what),
         NEW k \in MpConns, NEW id, MpReady(c, k, id), MpSent(c, k, id)
  PROVE MpInv'
  <1> DEFINE m == MpNextRequest(c, id)
  <1>20. /\ id \in Int /\ 0 <= id /\ id <= made[c]
         /\ \A o \in MpInUp(k) : o.from = c /\ o.id = id - (made[c] + 1) + o.call
         /\ \A o \in MpInDown(k) : /\ o.call \in M!Calls /\ o.call <= made[c] /\ o.id = id - (made[c] + 1) + o.call
                                   /\ o.is = M!Response(mkind[c][o.call])
                                   /\ mran[c][o.call] = IF M!Invoked(mkind[c][o.call]) THEN 1 ELSE 0
         /\ \A d \in Clients : d # c /\ mss[d] # None => mss[d] # k
    BY DEF MpReady
  <1>21. /\ mlink' \in [MpConns -> MpLinks] /\ \A n \in MpConns : n # k => mlink'[n] = mlink[n]
         /\ mlink'[k].client = "open" /\ mlink'[k].down = mlink[k].down
         /\ mlink'[k].up = mlink[k].up \/ mlink'[k].up = Append(mlink[k].up, m)
         /\ mss' = [mss EXCEPT ![c] = k]
         /\ msgid' = [msgid EXCEPT ![c] = id] /\ seqid' = [seqid EXCEPT ![c] = (id + 1) % Ids]
         /\ mstep' = [mstep EXCEPT ![c] = "join"] /\ moutcome' = [moutcome EXCEPT ![c] = M!NoOutcome]
         /\ mbacklog' \in Seq(MpConns) /\ mpc' = mpc /\ rs' = rs /\ mran' = mran
    BY DEF MpSent
  <1>22. m = [id |-> id, from |-> c, call |-> made[c] + 1]
    BY DEF MpNextRequest
  <1> HIDE DEF m
  <1> USE <1>20, <1>21, <1>22
  <1> USE DEF MpInv, MpContent
  <1>1. /\ made[c] \in 0..MaxCalls /\ made'[c] = made[c] + 1 /\ made'[c] \in M!Calls
        /\ made' \in [Clients -> 0..MaxCalls] /\ mkind' \in [Clients -> [M!Calls -> MpCallKinds]]
        /\ \A d \in Clients : d # c => made'[d] = made[d] /\ mkind'[d] = mkind[d]
        /\ \A i \in M!Calls : i <= made[c] => mkind'[c][i] = mkind[c][i]
    BY MpBeginsDoes
  <1>2. k # None /\ Ids \in Nat /\ Ids > 0
    BY <1>1 DEF M!MpRpcAssumption, M!Calls
  <1>3. /\ mss' \in [Clients -> MpConns \cup {None}] /\ msgid' \in [Clients -> Int] /\ seqid' \in [Clients -> Int]
        /\ mstep' \in [Clients -> {"idle", "join"}]
        /\ mss'[c] = k /\ msgid'[c] = id /\ seqid'[c] = (id + 1) % Ids /\ mstep'[c] = "join"
        /\ \A d \in Clients : d # c => mss'[d] = mss[d] /\ msgid'[d] = msgid[d] /\ seqid'[d] = seqid[d] /\ mstep'[d] = mstep[d]
    BY <1>2 DEF MpCallTypes
  <1>4. /\ moutcome' \in [Clients -> [how : MpOutcomes, of : Nat]] /\ moutcome'[c] = M!NoOutcome
        /\ \A d \in Clients : d # c => moutcome'[d] = moutcome[d]
        /\ M!NoOutcome.how = "none" /\ M!NoOutcome.of = 0
    BY DEF MpCallTypes, M!NoOutcome, MpOutcomes
  <1>5. m \in MpRequest /\ m.id = id /\ m.from = c /\ m.call = made[c] + 1
    BY <1>1 DEF MpRequest
  <1>6. mlink[k].up \in MpUps
    BY MpLinkFields DEF MpLinkTypes
  <1>7. \A i \in DOMAIN mlink'[k].up : \/ i \in DOMAIN mlink[k].up /\ mlink'[k].up[i] = mlink[k].up[i]
                                       \/ mlink'[k].up[i] = m /\ i = Len(mlink[k].up) + 1 /\ i \notin DOMAIN mlink[k].up
    <2>1. CASE mlink'[k].up = mlink[k].up
      BY <2>1
    <2>2. CASE mlink'[k].up = Append(mlink[k].up, m)
      BY <1>5, <1>6, <2>2, MpMessages
    <2>3. QED
      BY <2>1, <2>2
  <1>8. /\ MpInUp(k)' \subseteq MpInUp(k) \cup {m} /\ MpInDown(k)' = MpInDown(k)
        /\ \A n \in MpConns : n # k => MpInUp(n)' = MpInUp(n) /\ MpInDown(n)' = MpInDown(n)
    BY <1>7 DEF MpInUp, MpInDown
  <1>9. MpLinkTypes'
    BY DEF MpLinkTypes
  <1>10. MpCallTypes'
    BY <1>1, <1>3, <1>4 DEF MpCallTypes
  <1>11. MpRanOnce' /\ mran[c][made[c] + 1] = 0
    BY MpBeginsRanOnce
  <1>12. MpOnTheWay'
    <2>1. \A n \in MpConns : \A o \in MpInUp(n) : o.call <= made'[o.from] /\ mran[o.from][o.call] = 0
      BY MpBeginsOnTheWay
    <2>2. m.call <= made'[m.from] /\ mran[m.from][m.call] = 0
      BY <1>1, <1>5, <1>11
    <2>3. \A n \in MpConns : \A o \in MpInUp(n)' : o.call <= made'[o.from] /\ mran[o.from][o.call] = 0
      BY <1>8, <2>1, <2>2
    <2>4. QED
      BY <2>3 DEF MpOnTheWay
  <1>13. MpApart'
    <2>1. \A n \in MpConns : \A o \in MpInUp(n) : ~(o.from = m.from /\ o.call = m.call)
      <3>1. ASSUME NEW n \in MpConns, NEW o \in MpInUp(n), o.from = m.from, o.call = m.call PROVE FALSE
        <4>1. o.call <= made[c] /\ o.call = made[c] + 1 /\ made[c] \in Int
          BY <1>1, <1>5, <3>1, MpBeginsOnTheWay
        <4>2. QED
          BY <4>1
      <3>2. QED
        BY <3>1
    <2>2. ASSUME NEW n \in MpConns, NEW i \in DOMAIN mlink'[n].up
          PROVE \/ i \in DOMAIN mlink[n].up /\ mlink'[n].up[i] = mlink[n].up[i] /\ mlink[n].up[i] \in MpInUp(n)
                \/ n = k /\ mlink'[n].up[i] = m /\ i = Len(mlink[k].up) + 1
      BY <1>7 DEF MpInUp
    <2>3. ASSUME NEW n \in MpConns, NEW p \in MpConns, NEW i \in DOMAIN mlink'[n].up, NEW j \in DOMAIN mlink'[p].up,
                 mlink'[n].up[i].from = mlink'[p].up[j].from, mlink'[n].up[i].call = mlink'[p].up[j].call
          PROVE n = p /\ i = j
      <3>1. CASE mlink'[n].up[i] = m /\ n = k /\ i = Len(mlink[k].up) + 1
        <4>1. ~(j \in DOMAIN mlink[p].up /\ mlink'[p].up[j] = mlink[p].up[j] /\ mlink[p].up[j] \in MpInUp(p))
          BY <2>1, <2>3, <3>1
        <4>2. QED
          BY <2>2, <3>1, <4>1
      <3>2. CASE i \in DOMAIN mlink[n].up /\ mlink'[n].up[i] = mlink[n].up[i] /\ mlink[n].up[i] \in MpInUp(n)
        <4>1. CASE mlink'[p].up[j] = m
          BY <2>1, <2>3, <3>2, <4>1
        <4>2. CASE j \in DOMAIN mlink[p].up /\ mlink'[p].up[j] = mlink[p].up[j]
          BY <2>3, <3>2, <4>2 DEF MpApart
        <4>3. QED
          BY <2>2, <4>1, <4>2
      <3>3. QED
        BY <2>2, <3>1, <3>2
    <2>4. QED
      BY <2>3 DEF MpApart
  <1>14. MpOwnStream'
    <2>1. \A d \in Clients : mss'[d] # None => mlink'[mss'[d]].client = "open"
      <3>1. ASSUME NEW d \in Clients, d # c, mss'[d] # None PROVE mlink'[mss'[d]].client = "open"
        <4>1. mss'[d] = mss[d] /\ mss[d] \in MpConns /\ mss[d] # k
          BY <1>3, <3>1 DEF MpCallTypes
        <4>2. mlink'[mss[d]] = mlink[mss[d]]
          BY <4>1
        <4>3. QED
          BY <3>1, <4>1, <4>2 DEF MpOwnStream
      <3>2. QED
        BY <1>3, <3>1
    <2>2. \A d, e \in Clients : mss'[d] # None /\ mss'[d] = mss'[e] => d = e
      BY <1>2, <1>3 DEF MpOwnStream, MpCallTypes
    <2>3. QED
      BY <2>1, <2>2 DEF MpOwnStream
  <1>16. MpNumbers'
    <2>1. ASSUME NEW d \in Clients, d # c, mss'[d] # None
          PROVE /\ 0 <= msgid'[d] /\ msgid'[d] < made'[d] /\ seqid'[d] = (msgid'[d] + 1) % Ids
                /\ \A n \in MpConns : n = mss'[d] =>
                    /\ \A o \in MpInUp(n)' : o.from = d /\ o.id = msgid'[d] - made'[d] + o.call
                    /\ \A o \in MpInDown(n)' : o.call <= made'[d] /\ o.id = msgid'[d] - made'[d] + o.call
      BY <1>1, <1>3, <1>8, <2>1 DEF MpNumbers, MpCallTypes
    <2>2. /\ 0 <= msgid'[c] /\ msgid'[c] < made'[c]
          /\ \A o \in MpInUp(k)' : o.from = c /\ o.id = msgid'[c] - made'[c] + o.call
      BY <1>1, <1>3, <1>5, <1>8
    <2>3. \A o \in MpInDown(k)' : o.call <= made'[c] /\ o.id = msgid'[c] - made'[c] + o.call
      BY <1>1, <1>3, <1>8 DEF M!Calls
    <2>4. ASSUME NEW d \in Clients, mss'[d] # None PROVE mss'[d] \in MpConns
      BY <1>3, <2>4
    <2>5. QED
      BY <1>3, <2>1, <2>2, <2>3, <2>4 DEF MpNumbers
  <1>17. MpAnswers'
    <2>1. ASSUME NEW d \in Clients, d # c, mss'[d] # None
          PROVE \A n \in MpConns : n = mss'[d] => \A o \in MpInDown(n)' :
                  /\ o.is = M!Response(mkind'[d][o.call])
                  /\ mran'[d][o.call] = IF M!Invoked(mkind'[d][o.call]) THEN 1 ELSE 0
      BY <1>1, <1>3, <1>8, <2>1 DEF MpAnswers, MpCallTypes
    <2>2. \A o \in MpInDown(k)' : /\ o.is = M!Response(mkind'[c][o.call])
                                  /\ mran'[c][o.call] = IF M!Invoked(mkind'[c][o.call]) THEN 1 ELSE 0
      BY <1>1, <1>8
    <2>3. ASSUME NEW d \in Clients, mss'[d] # None PROVE mss'[d] \in MpConns
      BY <1>3, <2>3
    <2>4. QED
      BY <1>3, <2>1, <2>2, <2>3 DEF MpAnswers
  <1>18. MpTold'
    <2>1. ASSUME NEW d \in Clients
          PROVE /\ mstep'[d] = "join" => mss'[d] # None /\ moutcome'[d] = M!NoOutcome
                /\ moutcome'[d].of = 0 => moutcome'[d].how \in {"none", "rpc_error"}
                /\ moutcome'[d].of # 0 => /\ moutcome'[d].of = made'[d] /\ moutcome'[d].how = M!Response(mkind'[d][made'[d]])
                                          /\ mran'[d][made'[d]] = IF M!Invoked(mkind'[d][made'[d]]) THEN 1 ELSE 0
      <3>1. CASE d = c
        BY <1>2, <1>3, <1>4, <3>1
      <3>2. CASE d # c
        <4>1. /\ mstep'[d] = mstep[d] /\ mss'[d] = mss[d] /\ moutcome'[d] = moutcome[d]
              /\ made'[d] = made[d] /\ mkind'[d] = mkind[d] /\ mran'[d] = mran[d]
          BY <1>1, <1>3, <1>4, <3>2
        <4>2. QED
          BY <4>1 DEF MpTold
      <3>3. QED
        BY <3>1, <3>2
    <2>2. QED
      BY <2>1 DEF MpTold, M!NoOutcome
  <1>19. QED
    BY <1>9, <1>10, <1>11, <1>12, <1>13, <1>14, <1>16, <1>17, <1>18

LEMMA MpCallInv ==
  ASSUME M!MpRpcAssumption, MpInv, NEW c \in Clients, NEW what \in MpKinds, M!Call(c, what) PROVE MpInv'
  <1> USE DEF MpInv, MpContent
  <1> DEFINE k == mss[c]
             id == seqid[c]
             m == MpNextRequest(c, id)
  <1>1. M!Begins(c, what) /\ k # None /\ UNCHANGED <<M!server, mss, mran>> /\ M!Sends(c, k, mlink, id)
    BY DEF M!Call
  <1>2. k \in MpConns
    BY <1>1 DEF MpCallTypes
  <1>3. made[c] \in Int /\ made[c] < MaxCalls /\ made'[c] \in M!Calls
    BY <1>1, MpBeginsDoes
  <1>4. msgid[c] \in Int /\ 0 <= msgid[c] /\ msgid[c] < made[c] /\ id = (msgid[c] + 1) % Ids
    BY <1>1 DEF MpNumbers, MpCallTypes
  <1>5. id = msgid[c] + 1
    BY <1>3, <1>4 DEF M!MpRpcAssumption
  <1>6. m \in MpRequest
    BY <1>3, <1>4, <1>5, MpBeginsDoes, <1>1 DEF MpRequest, MpNextRequest
  <1>7. mlink' = mlink \/ mlink' = [mlink EXCEPT ![k].up = Append(@, m)]
    <2>1. made'[c] = made[c] + 1
      BY <1>1, MpBeginsDoes
    <2>2. QED
      BY <1>1, <2>1, Zenon DEF M!Sends, MpNextRequest
  <1>8. mlink[k].up \in MpUps /\ mlink[k].client = "open"
    BY <1>1, <1>2, MpLinkFields DEF MpLinkTypes, MpOwnStream
  <1> DEFINE q == Append(mlink[k].up, m)
  <1>9. q \in MpUps
    BY <1>6, <1>8, MpMessages
  <1>10. mlink' = mlink \/ mlink' = [mlink EXCEPT ![k].up = q]
    BY <1>7
  <1> HIDE DEF q, m
  <1>11. /\ mlink' \in [MpConns -> MpLinks] /\ \A n \in MpConns : n # k => mlink'[n] = mlink[n]
         /\ mlink'[k].client = "open" /\ mlink'[k].down = mlink[k].down
         /\ mlink'[k].up = mlink[k].up \/ mlink'[k].up = q
    BY <1>2, <1>8, <1>9, <1>10 DEF MpLinkTypes, MpLinks
  <1>12. mlink'[k].up = mlink[k].up \/ mlink'[k].up = Append(mlink[k].up, m)
    BY <1>11 DEF q
  <1>13. /\ \A o \in MpInUp(k) : o \in MpRequest
         /\ \A o \in MpInDown(k) : o \in MpResponded
    <2>1. mlink[k].up \in MpUps /\ mlink[k].down \in MpDowns
      BY <1>2, MpLinkFields DEF MpLinkTypes
    <2>2. QED
      BY <2>1 DEF MpInUp, MpInDown, MpUps, MpDowns
  <1>14. \A o \in MpInUp(k) : o.from = c /\ o.id = id - (made[c] + 1) + o.call
    <2>1. \A o \in MpInUp(k) : o.from = c /\ o.id = msgid[c] - made[c] + o.call /\ o.call \in Int
      BY <1>1, <1>13 DEF MpNumbers, MpRequest, M!Calls
    <2>2. QED
      BY <1>3, <1>4, <1>5, <2>1
  <1>15. \A o \in MpInDown(k) : /\ o.call \in M!Calls /\ o.call <= made[c] /\ o.id = id - (made[c] + 1) + o.call
                                /\ o.is = M!Response(mkind[c][o.call])
                                /\ mran[c][o.call] = IF M!Invoked(mkind[c][o.call]) THEN 1 ELSE 0
    <2>1. \A o \in MpInDown(k) : /\ o.call \in M!Calls /\ o.call \in Int
                                 /\ o.call <= made[c] /\ o.id = msgid[c] - made[c] + o.call
      BY <1>1, <1>13 DEF MpNumbers, MpResponded, M!Calls
    <2>2. \A o \in MpInDown(k) : o.id = id - (made[c] + 1) + o.call
      BY <1>3, <1>4, <1>5, <2>1
    <2>3. \A o \in MpInDown(k) : /\ o.is = M!Response(mkind[c][o.call])
                                 /\ mran[c][o.call] = IF M!Invoked(mkind[c][o.call]) THEN 1 ELSE 0
      BY <1>1 DEF MpAnswers
    <2>4. QED
      BY <2>1, <2>2, <2>3
  <1>16. \A d \in Clients : d # c /\ mss[d] # None => mss[d] # k
    BY <1>1 DEF MpOwnStream
  <1>17. mss' = [mss EXCEPT ![c] = k] /\ mbacklog' \in Seq(MpConns) /\ UNCHANGED <<mpc, rs, mran>>
    BY <1>1 DEF M!server, MpCallTypes, MpLinkTypes
  <1>18. /\ msgid' = [msgid EXCEPT ![c] = id] /\ seqid' = [seqid EXCEPT ![c] = (id + 1) % Ids]
         /\ mstep' = [mstep EXCEPT ![c] = "join"] /\ moutcome' = [moutcome EXCEPT ![c] = M!NoOutcome]
    BY <1>1 DEF M!Sends
  <1>19. id \in Int /\ 0 <= id /\ id <= made[c]
    BY <1>3, <1>4, <1>5
  <1>20. MpReady(c, k, id)
    BY <1>14, <1>15, <1>16, <1>19 DEF MpReady
  <1>21. MpSent(c, k, id)
    BY <1>11, <1>12, <1>17, <1>18 DEF MpSent, m
  <1> HIDE DEF k, id, MpInv, MpContent
  <1>22. QED
    BY <1>1, <1>2, <1>20, <1>21, MpSendsInv

LEMMA MpConnectAndCallInv ==
  ASSUME M!MpRpcAssumption, MpInv, NEW c \in Clients, NEW what \in MpKinds, M!ConnectAndCall(c, what) PROVE MpInv'
  <1> USE DEF MpInv, MpContent
  <1> DEFINE k == CHOOSE n \in MpConns : mlink[n] = M!Closed
             l == [mlink EXCEPT ![k].server = "open", ![k].client = "open"]
             m == MpNextRequest(c, 0)
             q == Append(mlink[k].up, m)
  <1>1. /\ M!Begins(c, what) /\ M!Sends(c, k, l, 0)
        /\ mss' = [mss EXCEPT ![c] = k] /\ mbacklog' = Append(mbacklog, k) /\ UNCHANGED <<mpc, rs, mran>>
    BY Zenon DEF M!ConnectAndCall
  <1>2. k \in MpConns /\ mlink[k] = M!Closed
    <2>1. \E n \in MpConns : mlink[n] = M!Closed
      BY Zenon DEF M!ConnectAndCall
    <2>2. QED
      BY <2>1, Zenon
  <1>3. /\ mlink[k].client = "closed" /\ DOMAIN mlink[k].up = {} /\ DOMAIN mlink[k].down = {}
    <2>1. M!Closed.client = "closed" /\ M!Closed.up = <<>> /\ M!Closed.down = <<>>
      BY DEF M!Closed
    <2>2. DOMAIN <<>> = {}
      BY MpMessages, Zenon
    <2>3. QED
      BY <1>2, <2>1, <2>2, Zenon
  <1>4. mlink[k].up \in MpUps
    BY <1>2, MpLinkFields DEF MpLinkTypes
  <1> HIDE DEF k
  <1>5. made[c] \in Int /\ 0 <= made[c] /\ made[c] < MaxCalls /\ made'[c] = made[c] + 1 /\ made'[c] \in M!Calls
    BY <1>1, MpBeginsDoes
  <1>6. m \in MpRequest
    BY <1>5 DEF MpRequest, MpNextRequest
  <1>7. q \in MpUps
    BY <1>4, <1>6, MpMessages
  <1>8. /\ l \in [MpConns -> MpLinks] /\ \A n \in MpConns : n # k => l[n] = mlink[n]
        /\ l[k].client = "open" /\ l[k].server = "open" /\ l[k].down = mlink[k].down /\ l[k].up = mlink[k].up
    BY <1>2 DEF MpLinkTypes, MpLinks, MpEnds2
  <1>9. mlink' = [l EXCEPT ![k].up = Append(@, m)]
    <2>1. mlink' = [l EXCEPT ![k].up = Append(@, [id |-> 0, from |-> c, call |-> made'[c]])]
      BY <1>1, <1>8, Zenon DEF M!Sends
    <2>2. m = [id |-> 0, from |-> c, call |-> made'[c]]
      BY <1>5 DEF MpNextRequest
    <2>3. QED
      BY <2>1, <2>2
  <1> HIDE DEF l, m, q
  <1>10. mlink' = [l EXCEPT ![k].up = q]
    BY <1>8, <1>9, <1>2 DEF q
  <1>11. /\ mlink' \in [MpConns -> MpLinks] /\ \A n \in MpConns : n # k => mlink'[n] = mlink[n]
         /\ mlink'[k].client = "open" /\ mlink'[k].down = mlink[k].down /\ mlink'[k].up = q
    BY <1>2, <1>7, <1>8, <1>10 DEF MpLinks
  <1>12. MpInUp(k) = {} /\ MpInDown(k) = {}
    BY <1>3 DEF MpInUp, MpInDown
  <1>13. \A d \in Clients : mss[d] # None => mss[d] # k
    BY <1>3 DEF MpOwnStream
  <1>14. MpReady(c, k, 0)
    BY <1>5, <1>12, <1>13 DEF MpReady
  <1>15. mbacklog' \in Seq(MpConns)
    BY <1>1, <1>2 DEF MpLinkTypes
  <1>16. /\ msgid' = [msgid EXCEPT ![c] = 0] /\ seqid' = [seqid EXCEPT ![c] = (0 + 1) % Ids]
         /\ mstep' = [mstep EXCEPT ![c] = "join"] /\ moutcome' = [moutcome EXCEPT ![c] = M!NoOutcome]
    BY <1>1 DEF M!Sends
  <1>17. MpSent(c, k, 0)
    BY <1>1, <1>11, <1>15, <1>16 DEF MpSent, q, m
  <1> HIDE DEF MpInv, MpContent
  <1>18. QED
    BY <1>1, <1>2, <1>14, <1>17, MpSendsInv

-----------------------------------------------------------------------------

\* What Process does to connection k, whose next request is m
LEMMA MpProcessDoes ==
  ASSUME M!MpRpcAssumption, MpInv, NEW t \in Threads, M!Process(t)
  PROVE \E k \in MpConns : \E m \in MpRequest :
        /\ k = rs[t] /\ mlink[k].up # <<>> /\ m = Head(mlink[k].up) /\ m \in MpInUp(k)
        /\ mlink' \in [MpConns -> MpLinks]
        /\ \A n \in MpConns : n # k => mlink'[n] = mlink[n]
        /\ mlink'[k].up = Tail(mlink[k].up) /\ mlink'[k].client = mlink[k].client
        /\ \/ mlink'[k].down = mlink[k].down
           \/ \E a \in MpResponded : /\ a.id = m.id /\ a.call = m.call /\ a.is = M!Response(mkind[m.from][m.call])
                                     /\ mlink'[k].down = Append(mlink[k].down, a)
  <1> USE DEF MpInv, MpContent
  <1> DEFINE k == rs[t]
             m == Head(mlink[k].up)
             how == mkind[m.from][m.call]
             a == [id |-> m.id, call |-> m.call, is |-> M!Response(how)]
             quiet == M!Response(how) = None \/ mlink[k].client = "closed"
             p == Tail(mlink[k].up)
             q == IF quiet THEN mlink[k].down ELSE Append(mlink[k].down, a)
  <1>1. k \in MpConns /\ mlink[k].up # <<>>
    <2>1. mpc[t] = "receive" /\ mlink[k].up # <<>>
      BY Zenon DEF M!Process
    <2>2. QED
      BY <2>1 DEF MpLinkTypes
  <1>2. mlink' = [mlink EXCEPT ![k].up = Tail(@),
                               ![k].down = IF quiet THEN @ ELSE Append(@, a)]
    BY Zenon DEF M!Process
  <1>3. /\ mlink[k].up \in MpUps /\ mlink[k].down \in MpDowns /\ mlink[k].client \in MpEnds2
    BY <1>1, MpLinkFields DEF MpLinkTypes
  <1>4. m \in MpRequest /\ p \in MpUps /\ m \in MpInUp(k)
    BY <1>1, <1>3, MpMessages DEF MpInUp
  <1>5. how \in MpCallKinds
    BY <1>4 DEF MpRequest, MpCallTypes
  <1>6. M!Response(how) \in MpResponses \/ quiet
    <2>1. M!Response(how) \in MpResponses \cup {None}
      BY <1>5 DEF M!Response, MpCallKinds, MpResponses
    <2>2. QED
      BY <2>1
  <1>7. ~quiet => a \in MpResponded
    BY <1>4, <1>6 DEF MpResponded, MpRequest
  <1>8. a.id = m.id /\ a.call = m.call /\ a.is = M!Response(how)
    OBVIOUS
  <1> HIDE DEF quiet, a, k
  <1>9. mlink' = [mlink EXCEPT ![k].up = p, ![k].down = q]
    BY <1>1, <1>2 DEF MpLinkTypes, MpLinks
  <1>10. q \in MpDowns
    BY <1>3, <1>7, MpMessages
  <1> HIDE DEF p, q
  <1>11. /\ mlink' \in [MpConns -> MpLinks]
         /\ \A n \in MpConns : n # k => mlink'[n] = mlink[n]
         /\ mlink'[k].up = p /\ mlink'[k].client = mlink[k].client /\ mlink'[k].down = q
    BY <1>1, <1>4, <1>9, <1>10 DEF MpLinkTypes, MpLinks
  <1>12. \/ mlink'[k].down = mlink[k].down
         \/ a \in MpResponded /\ mlink'[k].down = Append(mlink[k].down, a)
    BY <1>7, <1>11 DEF q
  <1>13. QED
    BY <1>1, <1>4, <1>8, <1>11, <1>12 DEF k, p

\* The method of the call asked for runs, if it is one to be called, and no other does.
LEMMA MpProcessRuns ==
  ASSUME M!MpRpcAssumption, MpInv, NEW t \in Threads, M!Process(t), NEW m \in MpRequest,
         m = Head(mlink[rs[t]].up), NEW k \in MpConns, m \in MpInUp(k)
  PROVE /\ mran' \in [Clients -> [M!Calls -> Nat]]
        /\ mran[m.from][m.call] = 0 /\ m.call <= made[m.from]
        /\ mran'[m.from][m.call] = IF M!Invoked(mkind[m.from][m.call]) THEN 1 ELSE 0
        /\ \A c \in Clients, i \in M!Calls : mran'[c][i] = mran[c][i] \/ (c = m.from /\ i = m.call)
  <1> USE DEF MpInv, MpContent
  <1>1. m.from \in Clients /\ m.call \in M!Calls
    BY DEF MpRequest
  <1>2. mran[m.from][m.call] = 0 /\ m.call <= made[m.from]
    BY DEF MpOnTheWay
  <1>3. mran' = IF M!Invoked(mkind[m.from][m.call]) THEN [mran EXCEPT ![m.from][m.call] = @ + 1] ELSE mran
    BY Zenon DEF M!Process
  <1>4. CASE M!Invoked(mkind[m.from][m.call])
    <2> DEFINE f == m.from
               x == m.call
    <2>1. mran' = [mran EXCEPT ![m.from][m.call] = 1]
      <3>1. mran' = [mran EXCEPT ![f][x] = mran[f][x] + 1]
        BY <1>3, <1>4
      <3>2. mran[f][x] + 1 = 1
        BY <1>2
      <3>3. QED
        BY <3>1, <3>2, Zenon
    <2>2. QED
      BY <1>1, <1>2, <1>4, <2>1 DEF MpCallTypes
  <1>5. CASE ~M!Invoked(mkind[m.from][m.call])
    BY <1>1, <1>2, <1>3, <1>5 DEF MpCallTypes
  <1>6. QED
    BY <1>4, <1>5

LEMMA MpProcessInv ==
  ASSUME M!MpRpcAssumption, MpInv, NEW t \in Threads, M!Process(t) PROVE MpInv'
  <1> USE DEF MpInv, MpContent
  <1>1. PICK k \in MpConns : \E m \in MpRequest :
        /\ k = rs[t] /\ mlink[k].up # <<>> /\ m = Head(mlink[k].up) /\ m \in MpInUp(k)
        /\ mlink' \in [MpConns -> MpLinks]
        /\ \A n \in MpConns : n # k => mlink'[n] = mlink[n]
        /\ mlink'[k].up = Tail(mlink[k].up) /\ mlink'[k].client = mlink[k].client
        /\ \/ mlink'[k].down = mlink[k].down
           \/ \E a \in MpResponded : /\ a.id = m.id /\ a.call = m.call /\ a.is = M!Response(mkind[m.from][m.call])
                                     /\ mlink'[k].down = Append(mlink[k].down, a)
    BY MpProcessDoes
  <1>2. PICK m \in MpRequest :
        /\ k = rs[t] /\ mlink[k].up # <<>> /\ m = Head(mlink[k].up) /\ m \in MpInUp(k)
        /\ mlink' \in [MpConns -> MpLinks]
        /\ \A n \in MpConns : n # k => mlink'[n] = mlink[n]
        /\ mlink'[k].up = Tail(mlink[k].up) /\ mlink'[k].client = mlink[k].client
        /\ \/ mlink'[k].down = mlink[k].down
           \/ \E a \in MpResponded : /\ a.id = m.id /\ a.call = m.call /\ a.is = M!Response(mkind[m.from][m.call])
                                     /\ mlink'[k].down = Append(mlink[k].down, a)
    BY <1>1
  <1> DEFINE f == m.from
             x == m.call
             one == IF M!Invoked(mkind[f][x]) THEN 1 ELSE 0
  <1>3. /\ mran' \in [Clients -> [M!Calls -> Nat]] /\ mran[f][x] = 0 /\ x <= made[f] /\ mran'[f][x] = one
        /\ \A c \in Clients, i \in M!Calls : mran'[c][i] = mran[c][i] \/ (c = f /\ i = x)
    BY <1>2, MpProcessRuns
  <1>4. /\ UNCHANGED <<mbacklog, mstep, mss, seqid, msgid, mkind, made, moutcome, rs>>
        /\ mpc' = [mpc EXCEPT ![t] = "inner"] /\ mpc[t] = "receive"
    BY DEF M!Process, M!client
  <1>5. f \in Clients /\ x \in M!Calls
    BY DEF MpRequest
  <1> HIDE DEF one, f, x
  <1>6. mlink[k].up \in MpUps /\ mlink[k].down \in MpDowns
    BY MpLinkFields DEF MpLinkTypes
  <1>7. \A i \in DOMAIN mlink'[k].up : i \in Int /\ i + 1 \in DOMAIN mlink[k].up /\ mlink'[k].up[i] = mlink[k].up[i + 1] /\ i + 1 # 1
    <2> DEFINE q == mlink[k].up
    <2>1. \A i \in DOMAIN Tail(q) : i \in Int /\ i + 1 \in DOMAIN q /\ Tail(q)[i] = q[i + 1] /\ i + 1 # 1
      BY <1>2, <1>6, MpMessages
    <2>2. mlink'[k].up = Tail(q)
      BY <1>2
    <2>3. QED
      BY <2>1, <2>2, Zenon
  <1>8. 1 \in DOMAIN mlink[k].up /\ mlink[k].up[1] = m
    BY <1>2, <1>6, MpMessages
  <1>9. MpLinkTypes'
    BY <1>2, <1>4 DEF MpLinkTypes
  <1>10. MpCallTypes'
    BY <1>3, <1>4 DEF MpCallTypes
  <1>11. MpRanOnce'
    <2>1. one \in {0, 1} /\ (one = 1 => M!Invoked(mkind[f][x]))
      BY DEF one
    <2>2. ASSUME NEW c \in Clients, NEW i \in M!Calls
          PROVE mran'[c][i] \in {0, 1} /\ (mran'[c][i] = 1 => i <= made[c] /\ M!Invoked(mkind[c][i]))
      <3>1. CASE mran'[c][i] = mran[c][i]
        BY <3>1 DEF MpRanOnce
      <3>2. CASE c = f /\ i = x
        BY <1>3, <2>1, <3>2
      <3>3. QED
        BY <1>3, <3>1, <3>2
    <2>3. mkind' = mkind /\ made' = made
      BY <1>4
    <2>4. QED
      BY <2>2, <2>3 DEF MpRanOnce, M!Invoked
  <1>12. \A n \in MpConns : \A o \in MpInUp(n)' : o \in MpInUp(n) /\ o \in MpRequest /\ ~(o.from = f /\ o.call = x)
    <2>1. ASSUME NEW n \in MpConns, NEW i \in DOMAIN mlink'[n].up
          PROVE /\ mlink'[n].up[i] \in MpInUp(n)
                /\ ~(mlink'[n].up[i].from = f /\ mlink'[n].up[i].call = x)
      <3>1. CASE n # k
        <4>1. i \in DOMAIN mlink[n].up /\ mlink'[n].up[i] = mlink[n].up[i]
          BY <1>2, <3>1
        <4>2. QED
          BY <1>8, <3>1, <4>1 DEF MpApart, MpInUp, f, x
      <3>2. CASE n = k
        <4>1. i \in Int /\ i + 1 \in DOMAIN mlink[k].up /\ mlink'[k].up[i] = mlink[k].up[i + 1] /\ i + 1 # 1
          BY <1>7, <3>2
        <4>2. QED
          BY <1>8, <3>2, <4>1 DEF MpApart, MpInUp, f, x
      <3>3. QED
        BY <3>1, <3>2
    <2>2. \A n \in MpConns : \A o \in MpInUp(n) : o \in MpRequest
      BY MpLinkFields DEF MpLinkTypes, MpInUp, MpUps
    <2>3. QED
      BY <2>1, <2>2 DEF MpInUp
  <1>13. MpOnTheWay'
    <2>1. \A n \in MpConns : \A o \in MpInUp(n)' : o.call <= made[o.from] /\ mran'[o.from][o.call] = 0
      BY <1>3, <1>12 DEF MpOnTheWay, MpRequest
    <2>2. QED
      BY <1>4, <2>1 DEF MpOnTheWay
  <1>14. MpApart'
    <2>1. ASSUME NEW n \in MpConns, NEW p \in MpConns, NEW i \in DOMAIN mlink'[n].up, NEW j \in DOMAIN mlink'[p].up,
                 mlink'[n].up[i].from = mlink'[p].up[j].from, mlink'[n].up[i].call = mlink'[p].up[j].call
          PROVE n = p /\ i = j
      <3>1. CASE n # k /\ p # k
        <4>1. mlink'[n] = mlink[n] /\ mlink'[p] = mlink[p]
          BY <1>2, <3>1
        <4>2. QED
          BY <2>1, <4>1 DEF MpApart
      <3>2. CASE n = k /\ p # k
        <4>1. mlink'[p] = mlink[p]
          BY <1>2, <3>2
        <4>2. QED
          BY <1>7, <2>1, <3>2, <4>1 DEF MpApart
      <3>3. CASE n # k /\ p = k
        <4>1. mlink'[n] = mlink[n]
          BY <1>2, <3>3
        <4>2. QED
          BY <1>7, <2>1, <3>3, <4>1 DEF MpApart
      <3>4. CASE n = k /\ p = k
        <4>1. i \in Int /\ j \in Int /\ i + 1 = j + 1
          BY <1>7, <2>1, <3>4 DEF MpApart
        <4>2. QED
          BY <3>4, <4>1
      <3>5. QED
        BY <3>1, <3>2, <3>3, <3>4
    <2>2. QED
      BY <2>1 DEF MpApart
  <1>15. MpOwnStream'
    <2>1. \A c \in Clients : mss[c] # None => mlink'[mss[c]].client = "open"
      <3>1. ASSUME NEW c \in Clients, mss[c] # None PROVE mlink'[mss[c]].client = "open"
        <4>1. mss[c] \in MpConns /\ mlink[mss[c]].client = "open"
          BY <3>1 DEF MpCallTypes, MpOwnStream
        <4>2. QED
          BY <1>2, <4>1
      <3>2. QED
        BY <3>1
    <2>2. QED
      BY <1>4, <2>1 DEF MpOwnStream
  <1>16. \A n \in MpConns : \A o \in MpInDown(n)' :
           \/ o \in MpInDown(n) /\ o.call \in M!Calls
           \/ n = k /\ o.id = m.id /\ o.call = x /\ o.is = M!Response(mkind[f][x])
    <2>1. \A n \in MpConns : \A o \in MpInDown(n) : o.call \in M!Calls
      <3>1. \A n \in MpConns : mlink[n].down \in MpDowns
        BY MpLinkFields DEF MpLinkTypes
      <3>2. \A n \in MpConns : \A o \in MpInDown(n) : o \in MpResponded
        BY <3>1 DEF MpInDown, MpDowns
      <3>3. QED
        BY <3>2 DEF MpResponded
    <2>2. \A n \in MpConns : n # k => MpInDown(n)' = MpInDown(n)
      BY <1>2 DEF MpInDown
    <2>3. CASE mlink'[k].down = mlink[k].down
      <3>1. MpInDown(k)' = MpInDown(k)
        BY <2>3 DEF MpInDown
      <3>2. QED
        BY <2>1, <2>2, <3>1
    <2>4. ASSUME NEW a \in MpResponded, a.id = m.id, a.call = m.call, a.is = M!Response(mkind[m.from][m.call]),
                 mlink'[k].down = Append(mlink[k].down, a)
          PROVE \A n \in MpConns : \A o \in MpInDown(n)' :
                   \/ o \in MpInDown(n) /\ o.call \in M!Calls
                   \/ n = k /\ o.id = m.id /\ o.call = x /\ o.is = M!Response(mkind[f][x])
      <3>1. MpInDown(k)' \subseteq MpInDown(k) \cup {a}
        BY <1>6, <2>4, MpMessages DEF MpInDown
      <3>2. a.call = x /\ a.is = M!Response(mkind[f][x])
        BY <2>4 DEF f, x
      <3>3. QED
        BY <2>1, <2>2, <2>4, <3>1, <3>2
    <2>5. QED
      BY <1>2, <2>3, <2>4
  <1>17. ASSUME NEW c \in Clients, mss[c] # None
         PROVE mss[c] \in MpConns /\ (mss[c] = k => f = c /\ m.id = msgid[c] - made[c] + x)
    <2>1. mss[c] \in MpConns
      BY <1>17 DEF MpCallTypes
    <2>2. QED
      BY <1>2, <1>17, <2>1 DEF MpNumbers, f, x
  <1>18. MpNumbers'
    <2>1. ASSUME NEW c \in Clients, mss[c] # None
          PROVE /\ 0 <= msgid[c] /\ msgid[c] < made[c] /\ seqid[c] = (msgid[c] + 1) % Ids
                /\ \A n \in MpConns : n = mss[c] =>
                     /\ \A o \in MpInUp(n)' : o.from = c /\ o.id = msgid[c] - made[c] + o.call
                     /\ \A o \in MpInDown(n)' : o.call <= made[c] /\ o.id = msgid[c] - made[c] + o.call
      <3>1. \A o \in MpInUp(mss[c]) : o.from = c /\ o.id = msgid[c] - made[c] + o.call
        BY <2>1 DEF MpNumbers
      <3>2. \A o \in MpInDown(mss[c]) : o.call <= made[c] /\ o.id = msgid[c] - made[c] + o.call
        BY <2>1 DEF MpNumbers
      <3>3. \A n \in MpConns : n = mss[c] => \A o \in MpInDown(n)' : o.call <= made[c] /\ o.id = msgid[c] - made[c] + o.call
        BY <1>3, <1>16, <1>17, <2>1, <3>2
      <3>4. QED
        BY <1>12, <2>1, <3>1, <3>3 DEF MpNumbers
    <2>2. QED
      BY <1>4, <1>17, <2>1 DEF MpNumbers
  <1>19. ASSUME NEW c \in Clients, NEW i \in M!Calls, mran[c][i] = IF M!Invoked(mkind[c][i]) THEN 1 ELSE 0
         PROVE mran'[c][i] = IF M!Invoked(mkind[c][i]) THEN 1 ELSE 0
    <2>1. CASE mran'[c][i] = mran[c][i]
      BY <1>19, <2>1
    <2>2. CASE c = f /\ i = x
      BY <1>3, <2>2 DEF one
    <2>3. QED
      BY <1>3, <2>1, <2>2
  <1>20. MpAnswers'
    <2>1. ASSUME NEW c \in Clients, mss[c] # None
          PROVE \A n \in MpConns : n = mss[c] => \A o \in MpInDown(n)' :
                     /\ o.is = M!Response(mkind[c][o.call])
                     /\ mran'[c][o.call] = IF M!Invoked(mkind[c][o.call]) THEN 1 ELSE 0
      <3>1. \A o \in MpInDown(mss[c]) : /\ o.is = M!Response(mkind[c][o.call])
                                        /\ mran[c][o.call] = IF M!Invoked(mkind[c][o.call]) THEN 1 ELSE 0
        BY <2>1 DEF MpAnswers
      <3>2. mran'[f][x] = IF M!Invoked(mkind[f][x]) THEN 1 ELSE 0
        BY <1>3 DEF one
      <3>3. QED
        BY <1>16, <1>17, <1>19, <2>1, <3>1, <3>2
    <2>2. mkind' = mkind /\ mss' = mss
      BY <1>4
    <2>3. QED
      BY <1>17, <2>1, <2>2 DEF MpAnswers, M!Response, M!Invoked
  <1>21. MpTold'
    <2>1. ASSUME NEW c \in Clients, moutcome[c].of # 0
          PROVE mran'[c][made[c]] = IF M!Invoked(mkind[c][made[c]]) THEN 1 ELSE 0
      <3>1. made[c] \in M!Calls
        <4>1. moutcome[c].of = made[c] /\ moutcome[c].of \in Nat /\ made[c] \in 0..MaxCalls
          BY <2>1 DEF MpTold, MpCallTypes
        <4>2. QED
          BY <2>1, <4>1 DEF M!Calls, M!MpRpcAssumption
      <3>2. QED
        BY <1>19, <2>1, <3>1 DEF MpTold
    <2>2. UNCHANGED <<mstep, mss, moutcome, made, mkind>>
      BY <1>4
    <2>3. QED
      BY <2>1, <2>2 DEF MpTold, M!NoOutcome, M!Response, M!Invoked
  <1>22. QED
    BY <1>9, <1>10, <1>11, <1>13, <1>14, <1>15, <1>18, <1>20, <1>21

-----------------------------------------------------------------------------

\* The inductive invariant
LEMMA MpInvInit == M!MpRpcAssumption /\ M!Init => MpInv
  <1> SUFFICES ASSUME M!MpRpcAssumption, M!Init PROVE MpInv
    OBVIOUS
  <1>1. MpLinkTypes
    <2>1. M!Closed \in MpLinks
      <3>1. <<>> \in MpUps /\ <<>> \in MpDowns
        BY MpMessages
      <3>2. PICK none : none = <<>>
        OBVIOUS
      <3>3. none \in MpUps /\ none \in MpDowns
        BY <3>1, <3>2
      <3>4. M!Closed = [up |-> none, down |-> none, server |-> "closed", client |-> "closed"]
        BY <3>2, Zenon DEF M!Closed
      <3>5. QED
        BY <3>3, <3>4 DEF MpLinks, MpEnds2
    <2>2. mbacklog \in Seq(MpConns)
      BY DEF M!Init
    <2>3. mlink \in [MpConns -> MpLinks]
      BY <2>1 DEF M!Init
    <2>4. rs = [t \in Threads |-> None] /\ mpc = [t \in Threads |-> "none"]
      BY DEF M!Init
    <2>5. QED
      BY <2>2, <2>3, <2>4 DEF MpLinkTypes
  <1>2. M!NoOutcome \in [how : MpOutcomes, of : Nat] /\ M!NoOutcome.of = 0 /\ M!NoOutcome.how = "none"
    BY DEF M!NoOutcome, MpOutcomes
  <1>3. MpCallTypes
    BY <1>2 DEF M!Init, MpCallTypes, MpCallKinds, M!MpRpcAssumption
  <1>4. \A k \in MpConns : MpInUp(k) = {} /\ DOMAIN mlink[k].up = {}
    <2>1. M!Closed.up = <<>>
      BY DEF M!Closed
    <2>2. DOMAIN <<>> = {}
      BY MpMessages, Zenon
    <2>3. \A k \in MpConns : mlink[k] = M!Closed
      BY DEF M!Init
    <2>4. QED
      BY <2>1, <2>2, <2>3, Zenon DEF MpInUp
  <1>5. \A c \in Clients : mss[c] = None /\ mstep[c] = "idle" /\ moutcome[c] = M!NoOutcome /\ \A i \in M!Calls : mran[c][i] = 0
    BY DEF M!Init
  <1>6. MpContent
    BY <1>4, <1>5 DEF MpContent, MpRanOnce, MpOnTheWay, MpApart, MpOwnStream, MpNumbers, MpAnswers
  <1>7. MpTold
    BY <1>2, <1>5 DEF MpTold
  <1>8. QED
    BY <1>1, <1>3, <1>6, <1>7 DEF MpInv

LEMMA MpInvNext == M!MpRpcAssumption /\ MpInv /\ [M!Next]_mpRpcVars => MpInv'
  <1> SUFFICES ASSUME M!MpRpcAssumption, MpInv, [M!Next]_mpRpcVars PROVE MpInv'
    OBVIOUS
  <1>1. CASE UNCHANGED mpRpcVars
    <2>1. UNCHANGED <<M!client, mran, mlink>> /\ MpLinkTypes'
      BY <1>1 DEF mpRpcVars, M!client, MpInv, MpLinkTypes
    <2>2. QED
      BY <2>1, MpServerSame
  <1>2. CASE M!RunTest \/ M!RunStart \/ M!RunReturn \/ M!StopFlag \/ M!Create
    BY <1>2, MpRunnersInv
  <1>3. CASE M!StopClose
    BY <1>3, MpStopCloseInv
  <1>4. CASE \E t \in Threads : M!ThreadStep(t) \/ M!ReceiveTimeout(t)
    BY <1>4, MpThreadInv, MpInnerInv, MpReceiveEndsInv, MpProcessInv DEF M!ThreadStep
  <1>5. CASE \E c \in Clients : M!JoinStep(c) \/ M!JoinTimeout(c) \/ M!Quit(c)
    BY <1>5, MpJoinInv, MpJoinDropsInv, MpJoinFailsInv, MpQuitInv DEF M!JoinStep
  <1>6. CASE \E c \in Clients : \E what \in MpKinds : M!Call(c, what) \/ M!ConnectAndCall(c, what) \/ M!CannotConnect(c, what)
    BY <1>6, MpCallInv, MpConnectAndCallInv, MpCannotConnectInv
  <1>7. QED
    BY <1>1, <1>2, <1>3, <1>4, <1>5, <1>6 DEF M!Next

\* The invariant says what the property says.
LEMMA MpInvAnswers == M!MpRpcAssumption /\ MpInv => M!AnswersTrue
  <1> SUFFICES ASSUME M!MpRpcAssumption, MpInv, NEW c \in Clients
      PROVE /\ \A i \in M!Calls : mran[c][i] <= 1
            /\ LET o == moutcome[c] IN
               /\ o.of # 0 => o.of = made[c] /\ o.how = M!Response(mkind[c][made[c]])
               /\ o.how \in {"result", "error"} => mran[c][made[c]] = 1
               /\ o.how \in {"method_not_found", "type_mismatch"} => mran[c][made[c]] = 0
    BY DEF M!AnswersTrue
  <1>1. \A i \in M!Calls : mran[c][i] <= 1
    BY DEF MpInv, MpContent, MpRanOnce
  <1>2. CASE moutcome[c].of = 0
    BY <1>1, <1>2 DEF MpInv, MpTold
  <1>3. CASE moutcome[c].of # 0
    <2>1. made[c] \in M!Calls
      <3>1. moutcome[c].of = made[c] /\ moutcome[c].of \in Nat /\ made[c] \in 0..MaxCalls
        BY <1>3 DEF MpInv, MpTold, MpCallTypes
      <3>2. QED
        BY <1>3, <3>1 DEF M!Calls, M!MpRpcAssumption
    <2>2. mkind[c][made[c]] \in MpCallKinds
      BY <2>1 DEF MpInv, MpCallTypes
    <2>3. /\ moutcome[c].of = made[c] /\ moutcome[c].how = M!Response(mkind[c][made[c]])
          /\ mran[c][made[c]] = IF M!Invoked(mkind[c][made[c]]) THEN 1 ELSE 0
      BY <1>3 DEF MpInv, MpTold
    <2>4. None \notin MpResponses
      BY DEF M!MpRpcAssumption, MpResponses
    <2>5. QED
      BY <1>1, <2>2, <2>3, <2>4 DEF M!Response, M!Invoked, MpCallKinds, MpResponses
  <1>4. QED
    BY <1>2, <1>3

-----------------------------------------------------------------------------
(* MCServers: a step is one of the server that runs, or changes nothing of it. *)

LEMMA Steps == [Next]_vars => [R!Next]_rpcVars /\ [M!Next]_mpRpcVars
  BY DEF Next, vars, OfRpc, OfMpRpc

LEMMA Inits == Init => R!Init /\ M!Init
  BY DEF Init

LEMMA Assumed == R!RpcAssumption /\ M!MpRpcAssumption
  BY MCServersAssumption

LEMMA RpcInvHolds == Spec => []RpcInv
  <1>1. Init => RpcInv
    BY RpcInvInit, Inits, Assumed
  <1>2. RpcInv /\ [Next]_vars => RpcInv'
    BY RpcInvNext, Steps, Assumed
  <1>3. QED
    BY <1>1, <1>2, PTL DEF Spec

\* For any number of threads and clients, and with or without timeouts: STOPPED is told
\* only when no thread is in process() and no client has a connection nobody serves.
THEOREM StoppedMeansQuietHolds == Spec => []StoppedMeansQuiet
  <1>1. RpcInv => StoppedMeansQuiet
    BY RpcInvQuiet, Assumed DEF StoppedMeansQuiet
  <1>2. QED
    BY <1>1, RpcInvHolds, PTL

\* For the same, what the rpc_client of rpc/base.cpp tells its caller is true: an answer is
\* of a call that ran once, and of a call said not to have been made nothing ran.
THEOREM OutcomesTrueHolds == Spec => []OutcomesTrue
  <1>1. RpcInv => OutcomesTrue
    BY RpcInvOutcomes, Assumed DEF OutcomesTrue
  <1>2. QED
    BY <1>1, RpcInvHolds, PTL

\* However many calls time out and are answered late, as long as a client makes no more of
\* them than there are ids: the rpc_client of mprpc tells its caller the answer to this
\* call, and it is true.
THEOREM AnswersTrueHolds == Spec => []AnswersTrue
  <1>1. Init => MpInv
    BY MpInvInit, Inits, Assumed
  <1>2. MpInv /\ [Next]_vars => MpInv'
    BY MpInvNext, Steps, Assumed
  <1>3. MpInv => AnswersTrue
    BY MpInvAnswers, Assumed DEF AnswersTrue
  <1>4. QED
    BY <1>1, <1>2, <1>3, PTL DEF Spec

===============================================================================
