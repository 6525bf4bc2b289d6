-------------------------------- MODULE MpRpc --------------------------------
(***************************************************************************)
(* pfi::network::mprpc: rpc_server (rpc_server.cpp) with its threads,      *)
(* rpc_client, the rpc_stream both ends use, over object_stream and the    *)
(* kernel's sockets, which are external.  Calls are numbered by message    *)
(* ids, so that a call may time out at the client and its answer come late.*)
(*                                                                         *)
(* One thread calls run() and joins; another calls stop() once running()   *)
(* says so.  Arguments and results are abstracted to the kind of the call: *)
(*   "good"      a method that returns                                     *)
(*   "unknown"   a method that is not registered                           *)
(*   "mistyped"  a method whose parameters do not convert                  *)
(*   "throws"    a method that throws a std::exception                     *)
(*   "silent"    a method that throws an rpc_error, which nobody answers   *)
(* Writes are whole: object_stream::write() that times out half way leaves *)
(* a stream no model of messages can describe.                             *)
(***************************************************************************)
EXTENDS Integers, Sequences, FiniteSets

CONSTANTS
  Threads,        \* the threads run() starts
  Clients,        \* rpc_clients, used by one thread each
  Conns,          \* names of connections
  Kinds,          \* the kinds of call the clients make
  ServerTimeout,  \* whether the server has a timeout_sec
  MaxCalls,       \* bound: calls of one client thread
  Ids,            \* how many message ids there are: 2^32, fewer for TLC
  None

MpRpcAssumption ==
  /\ Kinds \subseteq {"good", "unknown", "mistyped", "throws", "silent"}
  /\ ServerTimeout \in BOOLEAN
  /\ MaxCalls \in Nat /\ Ids \in Nat /\ MaxCalls <= Ids
  /\ None \notin Conns \cup {"result", "method_not_found", "type_mismatch", "error"}

VARIABLES
  serv_running,
  sock,      \* the listening socket: "open" or "closed"
  backlog,   \* kernel: connections not accepted yet
  runner,    \* run(): "out", "set" after its test, or "join"
  stopper,   \* stop(): "out", or "close" after its assignment
  pc,        \* where each thread is in process(); "none" when it does not run
  rs,        \* rs[t]: the connection of thread t's rpc_stream
  link,      \* kernel: the messages of each connection and its two ends
  step,      \* where each client is in a call
  ss,        \* rpc_client::ss
  seqid,     \* of the client's rpc_stream
  msgid,     \* of the call the client makes
  kind,      \* kind[c][i]: of the i-th call of client c
  made,      \* how many calls each client has made
  ran,       \* history: ran[c][i]: how often the method of that call was invoked
  outcome    \* history: how c's last call ended, and whose answer it got

server == <<serv_running, sock, backlog, runner, stopper, pc, rs>>
client == <<step, ss, seqid, msgid, kind, made, outcome>>
vars == <<server, client, link, ran>>

Closed == [up |-> <<>>, down |-> <<>>, server |-> "closed", client |-> "closed"]
NoOutcome == [how |-> "none", of |-> 0]
Calls == 1..MaxCalls

\* create() has made the listening socket.
Init ==
  /\ serv_running = FALSE /\ sock = "open" /\ backlog = <<>>
  /\ runner = "out" /\ stopper = "out"
  /\ pc = [t \in Threads |-> "none"]
  /\ rs = [t \in Threads |-> None]
  /\ link = [k \in Conns |-> Closed]
  /\ step = [c \in Clients |-> "idle"]
  /\ ss = [c \in Clients |-> None]
  /\ seqid = [c \in Clients |-> 0]
  /\ msgid = [c \in Clients |-> 0]
  /\ kind = [c \in Clients |-> [i \in Calls |-> "good"]]
  /\ made = [c \in Clients |-> 0]
  /\ ran = [c \in Clients |-> [i \in Calls |-> 0]]
  /\ outcome = [c \in Clients |-> NoOutcome]

-----------------------------------------------------------------------------
(* run() and stop() *)

\* Not while a stop() is under way: run() would set serv_running again before the socket
\* is closed, and its threads would turn on accept() for ever.
RunTest ==
  /\ runner = "out" /\ sock = "open" /\ ~serv_running /\ stopper = "out"
  /\ \A t \in Threads : pc[t] = "none"
  /\ runner' = "set"
  /\ UNCHANGED <<serv_running, sock, backlog, stopper, pc, rs, client, link, ran>>

RunStart ==
  /\ runner = "set"
  /\ serv_running' = TRUE
  /\ pc' = [t \in Threads |-> "test"]
  /\ runner' = "join"
  /\ UNCHANGED <<sock, backlog, stopper, rs, client, link, ran>>

\* join() has joined every thread.
RunReturn ==
  /\ runner = "join" /\ \A t \in Threads : pc[t] = "none"
  /\ runner' = "out"
  /\ UNCHANGED <<serv_running, sock, backlog, stopper, pc, rs, client, link, ran>>

StopFlag ==
  /\ stopper = "out" /\ serv_running
  /\ serv_running' = FALSE
  /\ stopper' = "close"
  /\ UNCHANGED <<sock, backlog, runner, pc, rs, client, link, ran>>

\* socket::close() shuts the listening socket down, which resets what is in its backlog
\* and wakes every accept().
StopClose ==
  /\ stopper = "close"
  /\ sock' = "closed" /\ backlog' = <<>>
  /\ LET queued == {backlog[i] : i \in DOMAIN backlog} IN
     link' = [k \in Conns |-> IF k \in queued
                              THEN [link[k] EXCEPT !.server = "closed", !.up = <<>>]
                              ELSE link[k]]
  /\ stopper' = "out"
  /\ UNCHANGED <<serv_running, runner, pc, rs, client, ran>>

\* create() again, after run() has returned.
Create ==
  /\ runner = "out" /\ stopper = "out" /\ sock = "closed"
  /\ sock' = "open"
  /\ UNCHANGED <<serv_running, backlog, runner, stopper, pc, rs, client, link, ran>>

-----------------------------------------------------------------------------
(* process() *)

Test(t) ==
  /\ pc[t] = "test"
  /\ pc' = [pc EXCEPT ![t] = IF serv_running THEN "accept" ELSE "none"]
  /\ UNCHANGED <<serv_running, sock, backlog, runner, stopper, rs, client, link, ran>>

Accept(t) ==
  /\ pc[t] = "accept" /\ backlog # <<>>
  /\ rs' = [rs EXCEPT ![t] = Head(backlog)]
  /\ backlog' = Tail(backlog)
  /\ pc' = [pc EXCEPT ![t] = "inner"]
  /\ UNCHANGED <<serv_running, sock, runner, stopper, client, link, ran>>

AcceptFails(t) ==
  /\ pc[t] = "accept" /\ sock = "closed"
  /\ pc' = [pc EXCEPT ![t] = "test"]
  /\ UNCHANGED <<serv_running, sock, backlog, runner, stopper, rs, client, link, ran>>

\* The last reference to the rpc_stream goes.
Done(t) ==
  /\ link' = [link EXCEPT ![rs[t]].server = "closed", ![rs[t]].up = <<>>]
  /\ rs' = [rs EXCEPT ![t] = None]
  /\ pc' = [pc EXCEPT ![t] = "test"]

\* The inner loop looks at serv_running between two messages.
Inner(t) ==
  /\ pc[t] = "inner"
  /\ IF serv_running THEN pc' = [pc EXCEPT ![t] = "receive"] /\ UNCHANGED <<rs, link>>
     ELSE Done(t)
  /\ UNCHANGED <<serv_running, sock, backlog, runner, stopper, client, ran>>

ReceiveEof(t) ==
  /\ pc[t] = "receive" /\ link[rs[t]].up = <<>> /\ link[rs[t]].client = "closed"
  /\ Done(t)
  /\ UNCHANGED <<serv_running, sock, backlog, runner, stopper, client, ran>>

ReceiveTimeout(t) ==
  /\ ServerTimeout
  /\ pc[t] = "receive" /\ link[rs[t]].up = <<>> /\ link[rs[t]].client = "open"
  /\ Done(t)
  /\ UNCHANGED <<serv_running, sock, backlog, runner, stopper, client, ran>>

Invoked(how) == how \in {"good", "throws", "silent"}
Response(how) == CASE how = "good"     -> "result"
                   [] how = "unknown"  -> "method_not_found"
                   [] how = "mistyped" -> "type_mismatch"
                   [] how = "throws"   -> "error"
                   [] how = "silent"   -> None

\* process_request(): the method is looked up, its parameters converted, and it is
\* called; every response carries the id of its request.
Process(t) ==
  LET k == rs[t] IN
  LET m == Head(link[k].up) IN
  LET how == kind[m.from][m.call] IN
  LET answer == [id |-> m.id, call |-> m.call, is |-> Response(how)] IN
  /\ pc[t] = "receive" /\ link[k].up # <<>>
  /\ ran' = IF Invoked(how) THEN [ran EXCEPT ![m.from][m.call] = @ + 1] ELSE ran
  /\ link' = [link EXCEPT ![k].up = Tail(@),
                          ![k].down = IF Response(how) = None \/ link[k].client = "closed"
                                      THEN @ ELSE Append(@, answer)]
  /\ pc' = [pc EXCEPT ![t] = "inner"]
  /\ UNCHANGED <<serv_running, sock, backlog, runner, stopper, rs, client>>

-----------------------------------------------------------------------------
(* rpc_client, the callers and rpc_stream *)

Fails(c) ==
  /\ step' = [step EXCEPT ![c] = "idle"]
  /\ outcome' = [outcome EXCEPT ![c] = [how |-> "rpc_error", of |-> 0]]

Begins(c, what) ==
  /\ step[c] = "idle" /\ made[c] < MaxCalls
  /\ made' = [made EXCEPT ![c] = @ + 1]
  /\ kind' = [kind EXCEPT ![c][made'[c]] = what]

\* rpc_stream::send(): a number for the message, and its write.  One into a connection the
\* server has closed is found out by the read that follows.
Sends(c, k, l, id) ==
  /\ msgid' = [msgid EXCEPT ![c] = id]
  /\ seqid' = [seqid EXCEPT ![c] = (id + 1) % Ids]
  /\ link' = IF l[k].server = "closed" THEN l
             ELSE [l EXCEPT ![k].up = Append(@, [id |-> id, from |-> c, call |-> made'[c]])]
  /\ step' = [step EXCEPT ![c] = "join"]
  /\ outcome' = [outcome EXCEPT ![c] = NoOutcome]

\* get_connection() has its stream already, good or dead.
Call(c, what) ==
  /\ ss[c] # None
  /\ Begins(c, what)
  /\ Sends(c, ss[c], link, seqid[c])
  /\ UNCHANGED <<server, ss, ran>>

\* It makes one, which numbers its messages from 0.  (Bound: Conns at a time.)
ConnectAndCall(c, what) ==
  /\ ss[c] = None /\ sock = "open"
  /\ \E k \in Conns : link[k] = Closed
  /\ Begins(c, what)
  /\ LET k == CHOOSE n \in Conns : link[n] = Closed IN
     /\ ss' = [ss EXCEPT ![c] = k]
     /\ backlog' = Append(backlog, k)
     /\ Sends(c, k, [link EXCEPT ![k].server = "open", ![k].client = "open"], 0)
  /\ UNCHANGED <<serv_running, sock, runner, stopper, pc, rs, ran>>

CannotConnect(c, what) ==
  /\ ss[c] = None /\ sock = "closed"
  /\ Begins(c, what)
  /\ Fails(c)
  /\ UNCHANGED <<server, ss, seqid, msgid, link, ran>>

Answered(c) == step[c] = "join" /\ link[ss[c]].down # <<>>
Answer(c) == Head(link[ss[c]].down)

\* Fault: the next response is taken, whatever it is to.
Joins_AnyId(c) == TRUE

Joins(c) == Answer(c).id = msgid[c]

\* rpc_stream::join() and what the caller makes of it: the call returns or throws what
\* the answer says.
Join(c) ==
  /\ Answered(c) /\ Joins(c)
  /\ link' = [link EXCEPT ![ss[c]].down = Tail(@)]
  /\ step' = [step EXCEPT ![c] = "idle"]
  /\ outcome' = [outcome EXCEPT ![c] = [how |-> Answer(c).is, of |-> Answer(c).call]]
  /\ UNCHANGED <<server, ss, seqid, msgid, kind, made, ran>>

\* The answer to an earlier call that has timed out.
JoinDrops(c) ==
  /\ Answered(c) /\ ~Joins(c)
  /\ link' = [link EXCEPT ![ss[c]].down = Tail(@)]
  /\ UNCHANGED <<server, client, ran>>

JoinEof(c) ==
  /\ step[c] = "join" /\ link[ss[c]].down = <<>> /\ link[ss[c]].server = "closed"
  /\ Fails(c)
  /\ UNCHANGED <<server, ss, seqid, msgid, kind, made, link, ran>>

\* Fault: EAGAIN is tested before the elapsed time, and the read tried again.
JoinTimeout_Retries(c) ==
  /\ step[c] = "join" /\ link[ss[c]].down = <<>> /\ link[ss[c]].server = "open"
  /\ UNCHANGED vars

\* read() throws rpc_timeout_error; the stream is kept.
JoinTimeout(c) ==
  /\ step[c] = "join" /\ link[ss[c]].down = <<>> /\ link[ss[c]].server = "open"
  /\ Fails(c)
  /\ UNCHANGED <<server, ss, seqid, msgid, kind, made, link, ran>>

\* The rpc_client is destroyed.
Quit(c) ==
  /\ step[c] = "idle" /\ ss[c] # None
  /\ link' = [link EXCEPT ![ss[c]].client = "closed", ![ss[c]].down = <<>>]
  /\ ss' = [ss EXCEPT ![c] = None]
  /\ seqid' = [seqid EXCEPT ![c] = 0]
  /\ UNCHANGED <<server, step, msgid, kind, made, outcome, ran>>

-----------------------------------------------------------------------------

ThreadStep(t) == \/ Test(t) \/ Accept(t) \/ AcceptFails(t) \/ Inner(t) \/ ReceiveEof(t)
                 \/ Process(t)
JoinStep(c) == Join(c) \/ JoinDrops(c) \/ JoinEof(c)

Next ==
  \/ RunTest \/ RunStart \/ RunReturn \/ StopFlag \/ StopClose \/ Create
  \/ \E t \in Threads : ThreadStep(t) \/ ReceiveTimeout(t)
  \/ \E c \in Clients :
       \/ JoinStep(c) \/ JoinTimeout(c) \/ Quit(c)
       \/ \E what \in Kinds : Call(c, what) \/ ConnectAndCall(c, what) \/ CannotConnect(c, what)

\* Threads run, reads time out, and run() and stop() go on; clients need not call.
Fairness ==
  /\ WF_vars(RunStart) /\ WF_vars(RunReturn) /\ WF_vars(StopClose)
  /\ \A t \in Threads : SF_vars(ThreadStep(t)) /\ WF_vars(ReceiveTimeout(t))
  /\ \A c \in Clients : WF_vars(JoinStep(c)) /\ WF_vars(JoinTimeout(c))

Spec == Init /\ [][Next]_vars /\ Fairness

-----------------------------------------------------------------------------
(* Properties *)

\* A call that returns, or throws what the server sent it, got the answer to its own
\* request and not the late one of a call that timed out before it on the same stream; and
\* what it is told is true: its method ran exactly once if there is a result or an
\* exception of it, and not at all if it was not found or its parameters did not convert.
\* No method runs twice for one call.
AnswersTrue ==
  \A c \in Clients :
    /\ \A i \in Calls : ran[c][i] <= 1
    /\ LET o == outcome[c] IN
       /\ o.of # 0 => o.of = made[c] /\ o.how = Response(kind[c][made[c]])
       /\ o.how \in {"result", "error"} => ran[c][made[c]] = 1
       /\ o.how \in {"method_not_found", "type_mismatch"} => ran[c][made[c]] = 0

\* After stop() every thread leaves process() and run() returns, whatever the clients do
\* or leave undone, when the server has a timeout: an accept() is woken by the shutdown
\* of the listening socket, a receive() ends by its timeout.
StopsEnd == (stopper = "close") ~> (runner = "out")

\* With a timeout at the client every call returns or throws, also one that is never
\* answered and one over a stream that is dead.
CallsEnd == \A c \in Clients : step[c] = "join" ~> step[c] = "idle"

=============================================================================
