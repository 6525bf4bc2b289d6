--------------------------------- MODULE Rpc ---------------------------------
(***************************************************************************)
(* pfi::network::rpc: rpc_server (base.cpp) with its accepting threads,    *)
(* rpc_client with its kept connection, the callers (caller.h) and         *)
(* invokers (invoker.h), over the kernel's listening socket and            *)
(* connections, which are external.                                        *)
(*                                                                         *)
(* One thread runs serv(), which waits for the server to have stopped;     *)
(* another calls stop(), which holds state_mutex while it sends EXIT_MSG   *)
(* through rpc_clients of its own.  A message is what one flush sends; the *)
(* values of arguments and results are abstracted to the kind of the call: *)
(*   "good"     a registered method of the right version                   *)
(*   "unknown"  a method that is not registered                            *)
(*   "version"  a client of another version                                *)
(*   "throws"   a method that throws rpc_error itself                      *)
(***************************************************************************)
EXTENDS Integers, Sequences, FiniteSets

CONSTANTS
  Threads,   \* the server's threads, as many as serv() is asked to start
  Clients,   \* rpc_clients, used by one thread each
  Stopper,   \* the thread that calls stop()
  Conns,     \* names of connections
  Kinds,     \* the kinds of call the clients make
  Timeouts,  \* whether the server has a timeout_sec
  None

Callers == Clients \cup {Stopper}

\* The names are apart: callers are no messages, and None is no connection or answer.
RpcAssumption ==
  /\ IsFiniteSet(Threads)
  /\ Stopper \notin Clients
  /\ "ping" \notin Callers
  /\ None \notin Conns \cup {"ok", "not_found", "version_mismatch"}
  /\ Kinds \subseteq {"good", "unknown", "version", "throws"}
  /\ Timeouts \in BOOLEAN

VARIABLES
  state,      \* server_state
  running,    \* num_running_threads
  mutex,      \* state_mutex: held over several steps by stop() only
  listening,  \* server_socket::connected, with its descriptor open
  backlog,    \* kernel: connections not accepted yet
  pc,         \* where each server thread is in process(); "none" before its start
  serves,     \* serves[t]: the connection of thread t's socketstream
  serv,       \* serv(): "idle", or "waiting" on stop_condition
  step,       \* where each caller is; the stopper's "stop" is between two calls
  ss,         \* ss[c]: rpc_client::ss
  tries,      \* i of get_connection()
  kind,       \* kind[c]: of the call c makes
  left,       \* how many EXIT_MSG calls stop() has still to make
  link,       \* kernel: the messages of each connection and its two ends
  ran,        \* history: how often the method of c's call was invoked
  outcome     \* history: how c's last call ended

server == <<state, running, mutex, listening, backlog, pc, serves, serv>>
client == <<step, ss, tries, kind, left, outcome>>
vars == <<server, client, link, ran>>

Closed == [up |-> <<>>, down |-> <<>>, server |-> "closed", client |-> "closed"]

Init ==
  /\ state = "STOPPED" /\ running = 0 /\ mutex = None
  /\ listening = FALSE /\ backlog = <<>>
  /\ pc = [t \in Threads |-> "none"]
  /\ serves = [t \in Threads |-> None]
  /\ serv = "idle"
  /\ step = [c \in Callers |-> "idle"]
  /\ ss = [c \in Callers |-> None]
  /\ tries = [c \in Callers |-> 0]
  /\ kind = [c \in Callers |-> "exit"]
  /\ left = 0
  /\ link = [k \in Conns |-> Closed]
  /\ ran = [c \in Callers |-> 0]
  /\ outcome = [c \in Callers |-> "none"]

-----------------------------------------------------------------------------
(* The kernel's sockets *)

\* A listening socket lives while its descriptor or an accept() in progress holds it.
Alive == listening \/ \E t \in Threads : pc[t] = "accept"

\* When it dies, what nobody accepted is reset.
Resets(conns) == [k \in Conns |-> IF k \in conns THEN [link[k] EXCEPT !.server = "closed", !.up = <<>>]
                                  ELSE link[k]]
Queued == {backlog[i] : i \in DOMAIN backlog}

LeftByClient(k) == [link[k] EXCEPT !.client = "closed", !.down = <<>>]

Sends(k, m) == [link EXCEPT ![k].up = IF link[k].server = "open" THEN Append(@, m) ELSE @]

-----------------------------------------------------------------------------
(* serv() and stop() *)

\* start(): the socket listens, state is RUNNING and all threads run, then serv()
\* comes to wait_until_stopped().
Start ==
  /\ serv = "idle" /\ mutex = None /\ ~Alive
  /\ state = "STOPPED"
  /\ state' = "RUNNING" /\ listening' = TRUE /\ backlog' = <<>>
  /\ running' = Cardinality(Threads)
  /\ pc' = [t \in Threads |-> "test"]
  /\ serv' = "waiting"
  /\ UNCHANGED <<mutex, serves, client, link, ran>>

\* wait_until_stopped() finds STOPPED, at once or when notified.
ServReturn ==
  /\ serv = "waiting" /\ mutex = None /\ state = "STOPPED"
  /\ serv' = "idle"
  /\ UNCHANGED <<state, running, mutex, listening, backlog, pc, serves, client, link, ran>>

\* Fault: one EXIT message less than threads.
StopBegin_OneExitLess ==
  /\ step[Stopper] = "idle" /\ mutex = None /\ state = "RUNNING"
  /\ mutex' = Stopper /\ state' = "STOPPING" /\ listening' = FALSE
  /\ step' = [step EXCEPT ![Stopper] = "stop"]
  /\ left' = Cardinality(Threads) - 1
  /\ IF \E t \in Threads : pc[t] = "accept"
     THEN UNCHANGED <<backlog, link>>
     ELSE backlog' = <<>> /\ link' = Resets(Queued)
  /\ UNCHANGED <<running, pc, serves, serv, ss, tries, kind, ran, outcome>>

\* stop() while the server runs: STOPPING, and the descriptor is closed.
StopBegin ==
  /\ step[Stopper] = "idle" /\ mutex = None /\ state = "RUNNING"
  /\ mutex' = Stopper /\ state' = "STOPPING" /\ listening' = FALSE
  /\ step' = [step EXCEPT ![Stopper] = "stop"]
  /\ left' = Cardinality(Threads)
  /\ IF \E t \in Threads : pc[t] = "accept"
     THEN UNCHANGED <<backlog, link>>
     ELSE backlog' = <<>> /\ link' = Resets(Queued)
  /\ UNCHANGED <<running, pc, serves, serv, ss, tries, kind, ran, outcome>>

\* The next turn of its loop makes an rpc_client and calls EXIT_MSG with it.
StopExit ==
  /\ step[Stopper] = "stop" /\ left > 0
  /\ left' = left - 1
  /\ step' = [step EXCEPT ![Stopper] = "connect"]
  /\ tries' = [tries EXCEPT ![Stopper] = 0]
  /\ UNCHANGED <<server, ss, kind, link, ran, outcome>>

StopEnd ==
  /\ step[Stopper] = "stop" /\ left = 0
  /\ mutex' = None
  /\ step' = [step EXCEPT ![Stopper] = "idle"]
  /\ UNCHANGED <<state, running, listening, backlog, pc, serves, serv, ss, tries, kind, left,
                 link, ran, outcome>>

-----------------------------------------------------------------------------
(* process(), by the threads of the server *)

\* The condition of its loop: is_running() waits for the mutex.
Test(t) ==
  /\ pc[t] = "test" /\ mutex = None
  /\ pc' = [pc EXCEPT ![t] = IF state = "RUNNING" THEN "enter" ELSE "leave"]
  /\ UNCHANGED <<state, running, mutex, listening, backlog, serves, serv, client, link, ran>>

\* accept() of a closed server_socket returns NULL, and the loop continues.
EnterAccept(t) ==
  /\ pc[t] = "enter"
  /\ pc' = [pc EXCEPT ![t] = IF listening THEN "accept" ELSE "test"]
  /\ UNCHANGED <<state, running, mutex, listening, backlog, serves, serv, client, link, ran>>

\* The accept() that is in progress when the descriptor is closed goes on; the last
\* of them takes the listening socket with it.
Accept(t) ==
  /\ pc[t] = "accept" /\ backlog # <<>>
  /\ serves' = [serves EXCEPT ![t] = Head(backlog)]
  /\ pc' = [pc EXCEPT ![t] = "serve"]
  /\ IF listening \/ \E u \in Threads \ {t} : pc[u] = "accept"
     THEN backlog' = Tail(backlog) /\ UNCHANGED link
     ELSE backlog' = <<>> /\ link' = Resets(Queued \ {Head(backlog)})
  /\ UNCHANGED <<state, running, mutex, listening, serv, client, ran>>

\* The socketstream goes out of scope.
Done(t, l) ==
  /\ link' = [l EXCEPT ![serves[t]].server = "closed", ![serves[t]].up = <<>>]
  /\ serves' = [serves EXCEPT ![t] = None]
  /\ pc' = [pc EXCEPT ![t] = "test"]

\* recv() finds the end of the stream.
Eof(t) ==
  /\ pc[t] = "serve" /\ link[serves[t]].up = <<>> /\ link[serves[t]].client = "closed"
  /\ Done(t, link)
  /\ UNCHANGED <<state, running, mutex, listening, backlog, serv, client, ran>>

\* recv() times out on any client that has not sent yet, on stop() between its messages too.
Timeout(t) ==
  /\ Timeouts
  /\ pc[t] = "serve" /\ link[serves[t]].up = <<>> /\ link[serves[t]].client = "open"
  /\ Done(t, link)
  /\ UNCHANGED <<state, running, mutex, listening, backlog, serv, client, ran>>

\* What a request of caller c is answered with; None if its invoker throws rpc_error.
Answer(c) == CASE kind[c] = "good"    -> "ok"
               [] kind[c] = "exit"    -> "ok"
               [] kind[c] = "unknown" -> "not_found"
               [] kind[c] = "version" -> "version_mismatch"
               [] kind[c] = "throws"  -> None
Invoked(c) == kind[c] \in {"good", "throws"}

\* One turn of the loop: a ping, or the name and all that follows it.
Serve(t) ==
  LET k == serves[t] IN
  LET m == Head(link[k].up) IN
  LET read == [link EXCEPT ![k].up = Tail(@)] IN
  LET said(r) == [read EXCEPT ![k].down = IF link[k].client = "open" THEN Append(@, r) ELSE @] IN
  /\ pc[t] = "serve" /\ link[k].up # <<>>
  /\ IF m = "ping"
     THEN link' = said("pong") /\ UNCHANGED <<pc, serves, ran>>
     ELSE /\ ran' = IF Invoked(m) THEN [ran EXCEPT ![m] = @ + 1] ELSE ran
          /\ IF Invoked(m)
             THEN /\ link' = IF Answer(m) = None THEN read ELSE said(Answer(m))
                  /\ UNCHANGED <<pc, serves>>
             ELSE Done(t, said(Answer(m)))
  /\ UNCHANGED <<state, running, mutex, listening, backlog, serv, client>>

\* Fault: the first thread that leaves says STOPPED.
Leave_FirstSaysStopped(t) ==
  /\ pc[t] = "leave" /\ mutex = None
  /\ running' = running - 1
  /\ state' = "STOPPED"
  /\ pc' = [pc EXCEPT ![t] = "none"]
  /\ UNCHANGED <<mutex, listening, backlog, serves, serv, client, link, ran>>

\* notify_if_this_is_the_last_running_threads()
Leave(t) ==
  /\ pc[t] = "leave" /\ mutex = None
  /\ running' = running - 1
  /\ state' = IF running' > 0 THEN state ELSE "STOPPED"
  /\ pc' = [pc EXCEPT ![t] = "none"]
  /\ UNCHANGED <<mutex, listening, backlog, serves, serv, client, link, ran>>

-----------------------------------------------------------------------------
(* rpc_client and the callers *)

Call(c, what) ==
  /\ c \in Clients /\ step[c] = "idle"
  /\ step' = [step EXCEPT ![c] = "connect"]
  /\ kind' = [kind EXCEPT ![c] = what]
  /\ tries' = [tries EXCEPT ![c] = 0]
  /\ ran' = [ran EXCEPT ![c] = 0]
  /\ outcome' = [outcome EXCEPT ![c] = "none"]
  /\ UNCHANGED <<server, ss, left, link>>

\* How a call ends.  stop() destroys its rpc_client and looks at no result; it goes on to
\* its next call after cannot_get_connection, any other exception leaves it.
Ends(c, how) ==
  IF c = Stopper
  THEN /\ ss' = [ss EXCEPT ![c] = None]
       /\ link' = IF ss[c] = None THEN link ELSE [link EXCEPT ![ss[c]] = LeftByClient(ss[c])]
       /\ IF how = "rpc_error"
          THEN mutex' = None /\ step' = [step EXCEPT ![c] = "idle"]
          ELSE mutex' = mutex /\ step' = [step EXCEPT ![c] = "stop"]
       /\ UNCHANGED <<left, outcome>>
  ELSE /\ step' = [step EXCEPT ![c] = "idle"]
       /\ outcome' = [outcome EXCEPT ![c] = how]
       /\ UNCHANGED <<left, mutex>>

\* A turn of get_connection(): without a connection it makes one, and it sends a ping
\* over what it has.  A connection counts from the backlog on.  (Bound: Conns of them
\* at a time; one more waits until a name is free.)
Connect(c) ==
  /\ step[c] = "connect" /\ tries[c] < 2
  /\ ss[c] = None /\ Alive => \E n \in Conns : link[n] = Closed
  /\ IF ss[c] # None
     THEN /\ link' = Sends(ss[c], "ping")
          /\ step' = [step EXCEPT ![c] = "pong"]
          /\ UNCHANGED <<backlog, ss, tries>>
     ELSE IF Alive
     THEN LET k == CHOOSE n \in Conns : link[n] = Closed IN
          /\ link' = [link EXCEPT ![k] = [up |-> <<"ping">>, down |-> <<>>,
                                          server |-> "open", client |-> "open"]]
          /\ ss' = [ss EXCEPT ![c] = k]
          /\ backlog' = Append(backlog, k)
          /\ step' = [step EXCEPT ![c] = "pong"]
          /\ UNCHANGED tries
     ELSE tries' = [tries EXCEPT ![c] = @ + 1] /\ UNCHANGED <<link, ss, backlog, step>>
  /\ UNCHANGED <<state, running, mutex, listening, pc, serves, serv, kind, left, outcome, ran>>

CannotConnect(c) ==
  /\ step[c] = "connect" /\ tries[c] = 2
  /\ Ends(c, "no_connection")
  /\ IF c = Stopper THEN TRUE ELSE UNCHANGED <<ss, link>>
  /\ UNCHANGED <<state, running, listening, backlog, pc, serves, serv, kind, tries, ran>>

Hears(c) == link[ss[c]].down # <<>>
HearsEof(c) == link[ss[c]].down = <<>> /\ link[ss[c]].server = "closed"
Heard(c) == Head(link[ss[c]].down)
HeardOf(c) == [link EXCEPT ![ss[c]].down = Tail(@)]

Pong(c) ==
  /\ step[c] = "pong" /\ Hears(c) /\ Heard(c) = "pong"
  /\ link' = HeardOf(c)
  /\ step' = [step EXCEPT ![c] = "request"]
  /\ UNCHANGED <<server, ss, tries, kind, left, outcome, ran>>

\* No pong: the connection is dropped and the loop of get_connection() goes on.
NoPong(c) ==
  /\ step[c] = "pong"
  /\ HearsEof(c) \/ (Hears(c) /\ Heard(c) # "pong")
  /\ link' = [link EXCEPT ![ss[c]] = LeftByClient(ss[c])]
  /\ ss' = [ss EXCEPT ![c] = None]
  /\ tries' = [tries EXCEPT ![c] = @ + 1]
  /\ step' = [step EXCEPT ![c] = "connect"]
  /\ UNCHANGED <<server, kind, left, outcome, ran>>

\* DO_RPC writes the name, the version and the arguments, and flushes.
Request(c) ==
  /\ step[c] = "request"
  /\ link' = Sends(ss[c], c)
  /\ step' = [step EXCEPT ![c] = "reply"]
  /\ UNCHANGED <<server, ss, tries, kind, left, outcome, ran>>

\* A result, or the exception gen_exception() makes of its code: the connection is kept.
Reply(c) ==
  /\ step[c] = "reply" /\ Hears(c)
  /\ Ends(c, Heard(c))
  /\ IF c = Stopper THEN TRUE ELSE link' = HeardOf(c) /\ UNCHANGED ss
  /\ UNCHANGED <<state, running, listening, backlog, pc, serves, serv, kind, tries, ran>>

\* Fault: a call without a reply is made again over a new connection.
NoReply_Retries(c) ==
  /\ step[c] = "reply" /\ HearsEof(c)
  /\ step' = [step EXCEPT ![c] = "connect"]
  /\ link' = [link EXCEPT ![ss[c]] = LeftByClient(ss[c])]
  /\ ss' = [ss EXCEPT ![c] = None]
  /\ UNCHANGED <<server, kind, tries, left, outcome, ran>>

\* The empty code of a broken stream is an rpc_error; get_connection() replaces the
\* stream next time.
NoReply(c) ==
  /\ step[c] = "reply" /\ HearsEof(c)
  /\ Ends(c, "rpc_error")
  /\ IF c = Stopper THEN TRUE
     ELSE /\ link' = [link EXCEPT ![ss[c]] = LeftByClient(ss[c])]
          /\ ss' = [ss EXCEPT ![c] = None]
  /\ UNCHANGED <<state, running, listening, backlog, pc, serves, serv, kind, tries, ran>>

\* The rpc_client is destroyed, and the thread makes another one.
Quit(c) ==
  /\ c \in Clients /\ step[c] = "idle" /\ ss[c] # None
  /\ link' = [link EXCEPT ![ss[c]] = LeftByClient(ss[c])]
  /\ ss' = [ss EXCEPT ![c] = None]
  /\ UNCHANGED <<server, step, tries, kind, left, outcome, ran>>

-----------------------------------------------------------------------------

ThreadStep(t) == Test(t) \/ EnterAccept(t) \/ Accept(t) \/ Eof(t) \/ Serve(t) \/ Leave(t)
CallStep(c) == \/ Connect(c) \/ CannotConnect(c) \/ Pong(c) \/ NoPong(c) \/ Request(c)
               \/ Reply(c) \/ NoReply(c)
StopStep == StopExit \/ StopEnd

Next ==
  \/ Start \/ ServReturn \/ StopBegin \/ StopStep
  \/ \E t \in Threads : ThreadStep(t) \/ Timeout(t)
  \/ \E c \in Callers : CallStep(c)
  \/ \E c \in Clients : Quit(c) \/ \E what \in Kinds : Call(c, what)

\* Threads and callers run and recv() times out when it is set to; clients go on as
\* they please, but each is destroyed now and then.
Fairness ==
  /\ WF_vars(ServReturn) /\ WF_vars(StopStep)
  /\ \A t \in Threads : SF_vars(ThreadStep(t)) /\ WF_vars(Timeout(t))
  /\ \A c \in Callers : WF_vars(CallStep(c))
  /\ \A c \in Clients : SF_vars(Quit(c))

Spec == Init /\ [][Next]_vars /\ Fairness

-----------------------------------------------------------------------------
(* Properties *)

\* STOPPED, which lets serv() return and the server be destroyed or started again, is
\* told only when every thread has left process() (line 252): none accepts, serves a
\* connection or holds the listening socket, and no client waits on a connection.
StoppedMeansQuiet ==
  state = "STOPPED" =>
    /\ running = 0 /\ ~Alive /\ backlog = <<>>
    /\ \A t \in Threads : pc[t] = "none" /\ serves[t] = None
    /\ \A k \in Conns : link[k].server = "closed"

\* What a caller is told is true: a result means that its method ran once, an unknown
\* method, another version or no connection that it did not run, and after an rpc_error
\* it may have run or not.  It never ran twice: get_connection() tries twice only while
\* the arguments are not sent.
OutcomesTrue ==
  \A c \in Clients :
    /\ ran[c] <= 1
    /\ outcome[c] = "ok" => ran[c] = 1 /\ kind[c] = "good"
    /\ outcome[c] \in {"not_found", "version_mismatch", "no_connection"} => ran[c] = 0

\* stop() was left by an exception (line 131 catches one kind only) with calls to make.
StopFailed == step[Stopper] = "idle" /\ left > 0

\* Wherever the threads are when stop() is called (in the state test, in accept() or with
\* a client), the EXIT messages and the state test between them get every one of them
\* out, the last one says STOPPED, and serv() returns, also when the server's timeout
\* fires on a connection of stop() itself, unless it makes stop() throw before its last
\* message: then threads may stay in accept().
StopsEnd == state = "STOPPING" ~> (serv = "idle" \/ StopFailed)

\* With a timeout at the server a call returns or throws, also the one whose method threw
\* rpc_error and was sent no reply, and one made while the server stops.
CallsEnd == \A c \in Clients : step[c] # "idle" ~> step[c] = "idle"

=============================================================================
