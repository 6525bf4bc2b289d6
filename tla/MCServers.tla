----------------------------- MODULE MCServers -----------------------------
(* The two servers side by side: a run is of one of them, the other one     *)
(* keeps its initial state.                                                 *)
EXTENDS Naturals

CONSTANTS
  Threads, Clients, Timeouts, None,
  Stopper, RpcConns, RpcKinds,       \* Rpc
  MpConns, MpKinds, MaxCalls, Ids    \* MpRpc

VARIABLES
  part,  \* the server of this run
  state, running, mutex, listening, backlog, pc, serves, serv, step, ss, tries,
  kind, left, link, ran, outcome,
  serv_running, sock, mbacklog, runner, stopper, mpc, rs, mlink, mstep, mss, seqid,
  msgid, mkind, made, mran, moutcome

R == INSTANCE Rpc WITH Conns <- RpcConns, Kinds <- RpcKinds

M == INSTANCE MpRpc WITH
  Conns <- MpConns, Kinds <- MpKinds, ServerTimeout <- Timeouts, backlog <- mbacklog, pc <- mpc, link <- mlink, step <- mstep, ss <- mss,
  kind <- mkind, ran <- mran, outcome <- moutcome

ASSUME MCServersAssumption == R!RpcAssumption /\ M!MpRpcAssumption

rpcVars == <<state, running, mutex, listening, backlog, pc, serves, serv, step, ss, tries,
             kind, left, link, ran, outcome>>
mpRpcVars == <<serv_running, sock, mbacklog, runner, stopper, mpc, rs, mlink, mstep, mss, seqid,
               msgid, mkind, made, mran, moutcome>>
vars == <<part, rpcVars, mpRpcVars>>

Init == part \in {"rpc", "mprpc"} /\ R!Init /\ M!Init

OfRpc == part = "rpc" /\ UNCHANGED <<part, mpRpcVars>>
OfMpRpc == part = "mprpc" /\ UNCHANGED <<part, rpcVars>>

Next == \/ R!Next /\ OfRpc
        \/ M!Next /\ OfMpRpc

(* The fairness of both modules.  Since `part' never changes, the fairness of *)
(* a disjunction is that of the action of the server that runs.               *)
Either(rpc, mprpc) == (rpc /\ OfRpc) \/ (mprpc /\ OfMpRpc)

Fairness ==
  /\ WF_vars(Either(R!ServReturn, M!RunReturn)) /\ WF_vars(Either(R!StopStep, M!StopClose))
  /\ WF_vars(M!RunStart /\ OfMpRpc)
  /\ \A t \in Threads : /\ SF_vars(Either(R!ThreadStep(t), M!ThreadStep(t)))
                        /\ WF_vars(Either(R!Timeout(t), M!ReceiveTimeout(t)))
  /\ WF_vars(R!CallStep(Stopper) /\ OfRpc)
  /\ \A c \in Clients : /\ WF_vars(Either(R!CallStep(c), M!JoinStep(c)))
                        /\ WF_vars(M!JoinTimeout(c) /\ OfMpRpc)
                        /\ SF_vars(R!Quit(c) /\ OfRpc)

Spec == Init /\ [][Next]_vars /\ Fairness

----------------------------------------------------------------------------

\* STOPPED is told only when every thread has left process() and no client
\* waits on a connection (rpc/base.cpp).
StoppedMeansQuiet == R!StoppedMeansQuiet

\* What the rpc_client of rpc/base.cpp tells its caller of a call is true.
OutcomesTrue == R!OutcomesTrue

\* What the rpc_client of mprpc tells is the answer to the call, and true.
AnswersTrue == M!AnswersTrue

\* After stop(), wherever the threads are and whatever the clients do or leave
\* undone, serv() and run() return (StopsEnd of both modules); rpc's stop() may instead
\* throw before its last message, when the server's timeout fires on its own connection.
Stopping == IF part = "rpc" THEN state = "STOPPING" ELSE stopper = "close"
Returned == IF part = "rpc" THEN serv = "idle" \/ R!StopFailed ELSE runner = "out"
StopsEnd == Stopping ~> Returned

\* Every call of a client returns or throws (CallsEnd of both modules).
Calling(c) == IF part = "rpc" THEN step[c] # "idle" ELSE mstep[c] = "join"
Called(c) == IF part = "rpc" THEN step[c] = "idle" ELSE mstep[c] = "idle"
CallsEnd == \A c \in Clients : Calling(c) ~> Called(c)
============================================================================
