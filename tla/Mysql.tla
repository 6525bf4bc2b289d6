------------------------------- MODULE Mysql -------------------------------
(***************************************************************************)
(* pfi::database::mysql (src/src/database/mysql) under a client that uses   *)
(* `transaction(conn)` blocks (util.h), run(), and prepare() with a later   *)
(* execute().  The session at the server may be lost at any moment: before  *)
(* a command reaches the server, or after it did its work and before the    *)
(* client has the answer.  Every exchange with the server is one step.      *)
(*                                                                          *)
(* A statement is the number of the client call that issued it; what the    *)
(* server keeps is the sequence of the statements whose effects are         *)
(* committed.  The server itself is external and modelled from its use; an  *)
(* error that takes the whole transaction with it, as a deadlock does, is   *)
(* not modelled except for COMMIT.                                          *)
(***************************************************************************)
EXTENDS Naturals, Sequences, Functions

CONSTANTS MaxCalls,    \* bound: statements the client issues
          MaxLosses,   \* bound: sessions lost
          MaxRefusals  \* bound: connections and commands the server refuses

MysqlAssumption == {MaxCalls, MaxLosses, MaxRefusals} \subseteq Nat

VARIABLES
  conn,      \* the MYSQL handle: "null", or one whose session is "live" or "lost"
  server,    \* [open, pending, kept]: transaction open in the session, its
             \* statements, and the statements committed
  call,      \* the client's call under way: where it is and what it has tried
  held,      \* the statement object kept by the client: "none", "bound" to the
             \* present handle, or "detached" by the handle's close
  block,     \* the client's transaction block, with the statements that ran in it
  calls, losses, refusals

vars == <<conn, server, call, held, block, calls, losses, refusals>>

Idle == [at |-> "idle", command |-> "none", statement |-> 0, attempt |-> 0]
NoBlock == [state |-> "none", ran |-> {}, broken |-> FALSE]

Init ==
  /\ conn = "live"
  /\ server = [open |-> FALSE, pending |-> <<>>, kept |-> <<>>]
  /\ call = Idle /\ held = "none" /\ block = NoBlock
  /\ calls = 0 /\ losses = 0 /\ refusals = 0

----------------------------------------------------------------------------
(* The server. *)

Processed(s, command, statement) ==
  CASE command = "BEGIN"    -> [open |-> TRUE, pending |-> <<>>, kept |-> s.kept \o s.pending]
    [] command = "COMMIT"   -> [open |-> FALSE, pending |-> <<>>, kept |-> s.kept \o s.pending]
    [] command = "ROLLBACK" -> [s EXCEPT !.open = FALSE, !.pending = <<>>]
    [] OTHER -> IF s.open THEN [s EXCEPT !.pending = Append(@, statement)]
                          ELSE [s EXCEPT !.kept = Append(@, statement)]

SessionEnded(s) == [s EXCEPT !.open = FALSE, !.pending = <<>>]

\* The block's transaction is gone when the session ends before its COMMIT or
\* ROLLBACK has begun.
SessionLost(b) == [b EXCEPT !.broken = @ \/ b.state = "inside"]

Lose ==
  /\ conn = "live" /\ losses < MaxLosses
  /\ conn' = "lost" /\ losses' = losses + 1
  /\ server' = SessionEnded(server)
  /\ block' = SessionLost(block)
  /\ UNCHANGED <<call, held, calls, refusals>>

\* One command and its answer.
Answered(command, statement) ==
  /\ conn = "live"
  /\ server' = Processed(server, command, statement)
  /\ UNCHANGED <<conn, losses, refusals>>

Unanswered(command, statement) ==
  \/ conn = "lost" /\ UNCHANGED <<conn, server, losses, refusals>>
  \/ /\ conn = "live" /\ losses < MaxLosses
     /\ server' = SessionEnded(Processed(server, command, statement))
     /\ conn' = "lost" /\ losses' = losses + 1
     /\ UNCHANGED refusals

\* Any command may be refused, by the server or by its client library (commands out of
\* sync), and leave no trace; a COMMIT may also roll back.
Refused(command) ==
  /\ conn = "live" /\ refusals < MaxRefusals
  /\ refusals' = refusals + 1
  /\ server' \in {server} \cup IF command = "COMMIT" THEN {SessionEnded(server)} ELSE {}
  /\ UNCHANGED <<conn, losses>>

----------------------------------------------------------------------------
(* mysql_connection_impl::reconnect(): nothing when the ping is answered,   *)
(* else close, which detaches the handle's statements, and connect anew.    *)

Reconnected ==
  /\ conn' = "live"
  /\ held' = IF conn = "lost" /\ held = "bound" THEN "detached" ELSE held
  /\ UNCHANGED <<server, losses, refusals>>

ReconnectFails ==
  /\ conn # "live" /\ refusals < MaxRefusals
  /\ refusals' = refusals + 1
  /\ conn' = "null"
  /\ held' = IF held = "bound" THEN "detached" ELSE held
  /\ UNCHANGED <<server, losses>>

----------------------------------------------------------------------------
(* The block: begin_transaction() in the constructor of the committer, and  *)
(* in its destructor commit(), or rollback() while an exception unwinds.    *)

\* How the block stands once its BEGIN, COMMIT or ROLLBACK returned, with what code
\* nobody looks.  A BEGIN that was refused or never answered leaves it without a
\* transaction; a refused ROLLBACK leaves the transaction open, and a later BEGIN
\* commits it.
BlockAfter(answer) ==
  CASE block.state = "committing" -> [block EXCEPT !.state = "committed"]
    [] block.state = "unwinding"  -> [block EXCEPT !.state = "rolled back",
                                                   !.broken = @ \/ answer = "refused"]
    [] OTHER -> [NoBlock EXCEPT !.state = "inside", !.broken = answer # "done"]

\* The same when it threw: there is no committer after a failed BEGIN, and an
\* exception out of a destructor that runs for another one terminates.
BlockThrown == IF block.state = "committing" THEN [block EXCEPT !.state = "committed"] ELSE block
CallThrown == IF block.state = "unwinding" THEN [Idle EXCEPT !.at = "terminated"] ELSE Idle

Query(command) == [Idle EXCEPT !.at = "query", !.command = command, !.attempt = 1]

Enter ==
  /\ call = Idle /\ block.state # "inside" /\ calls < MaxCalls
  /\ call' = Query("BEGIN") /\ block' = NoBlock
  /\ UNCHANGED <<conn, server, held, calls, losses, refusals>>

\* Fault: the destructor of the committer always commits.
Closing_Commits(thrown) == "COMMIT"

Closing(thrown) == IF thrown THEN "ROLLBACK" ELSE "COMMIT"

Leave ==
  /\ call = Idle /\ block.state = "inside"
  /\ \E thrown \in BOOLEAN :
       /\ call' = Query(Closing(thrown))
       /\ block' = [block EXCEPT !.state = IF thrown THEN "unwinding" ELSE "committing"]
  /\ UNCHANGED <<conn, server, held, calls, losses, refusals>>

----------------------------------------------------------------------------
(* mysql_connection::query(): reconnects when there is no handle; sends     *)
(* again, once, after a lost session, and ignores what becomes of that.     *)

QueryConnects ==
  /\ call.at \in {"query", "requery"} /\ (call.at = "query" => conn = "null")
  /\ \/ /\ Reconnected
        /\ call' = IF call.at = "query" THEN call ELSE [call EXCEPT !.at = "query", !.attempt = 2]
        /\ UNCHANGED block
     \/ ReconnectFails /\ call' = CallThrown /\ block' = BlockThrown
  /\ UNCHANGED calls

QueryLost ==
  /\ call.at = "query" /\ call.attempt = 1
  /\ Unanswered(call.command, 0)
  /\ call' = [call EXCEPT !.at = "requery"]
  /\ UNCHANGED <<held, block, calls>>

QueryReturns ==
  /\ call.at = "query"
  /\ \/ Answered(call.command, 0) /\ block' = BlockAfter("done")
     \/ Refused(call.command) /\ block' = BlockAfter("refused")
     \/ call.attempt = 2 /\ Unanswered(call.command, 0) /\ block' = BlockAfter("none")
  /\ call' = Idle
  /\ UNCHANGED <<held, calls>>

----------------------------------------------------------------------------
(* prepare() tries twice; run() catches the connection_error that leaves    *)
(* prepare(), reconnects and prepares once more: attempts 1, 2, then 3, 4.  *)
(* A prepare() of the client's own is attempts 3 and 4; with no handle it   *)
(* would pass NULL to mysql_stmt_init(), so the client here does not.       *)

NextStatement == calls < MaxCalls /\ calls' = calls + 1

Run ==
  /\ call = Idle /\ NextStatement
  /\ call' = [at |-> IF conn = "null" THEN "connect" ELSE "prepare",
              command |-> "run", statement |-> calls + 1, attempt |-> 1]
  /\ UNCHANGED <<conn, server, held, block, losses, refusals>>

Prepare ==
  /\ call = Idle /\ conn # "null" /\ held # "bound"
  /\ call' = [Idle EXCEPT !.at = "prepare", !.command = "prepare", !.attempt = 3]
  /\ UNCHANGED <<conn, server, held, block, calls, losses, refusals>>

RunConnects ==
  /\ call.at = "connect"
  /\ \/ Reconnected /\ call' = [call EXCEPT !.at = "prepare"]
     \/ ReconnectFails /\ call' = Idle
  /\ UNCHANGED <<block, calls>>

PrepareDone ==
  /\ call.at = "prepare" /\ conn = "live"
  /\ IF call.command = "run"
       THEN call' = [call EXCEPT !.at = "execute"] /\ UNCHANGED held
       ELSE call' = Idle /\ held' = "bound"
  /\ UNCHANGED <<conn, server, block, calls, losses, refusals>>

PrepareRefused ==
  /\ call.at = "prepare" /\ Refused(call.command)
  /\ call' = Idle
  /\ UNCHANGED <<held, block, calls>>

PrepareLost ==
  /\ call.at = "prepare" /\ conn = "lost"
  /\ call' = IF call.attempt = 4 THEN Idle ELSE [call EXCEPT !.at = "reprepare"]
  /\ UNCHANGED <<conn, server, held, block, calls, losses, refusals>>

\* A reconnection that fails inside prepare() is one more connection_error
\* for run() to catch.
PrepareReconnects ==
  /\ call.at = "reprepare"
  /\ \/ Reconnected /\ call' = [call EXCEPT !.at = "prepare", !.attempt = @ + 1]
     \/ /\ ReconnectFails
        /\ call' = IF call.attempt = 1 THEN [call EXCEPT !.attempt = 2] ELSE Idle
  /\ UNCHANGED <<block, calls>>

----------------------------------------------------------------------------
(* mysql_statement::execute(): every failure is a database_error, which     *)
(* nothing retries.  A statement whose handle was closed fails at once.     *)

ExecuteHeld ==
  /\ call = Idle /\ held # "none" /\ NextStatement
  /\ call' = IF held = "bound" THEN [Idle EXCEPT !.at = "execute", !.command = "held", !.statement = calls + 1]
                               ELSE Idle
  /\ UNCHANGED <<conn, server, held, block, losses, refusals>>

ExecuteDone ==
  /\ call.at = "execute" /\ Answered(call.command, call.statement)
  /\ call' = Idle
  /\ block' = IF block.state = "inside" THEN [block EXCEPT !.ran = @ \union {call.statement}] ELSE block
  /\ UNCHANGED <<held, calls>>

ExecuteRefused ==
  /\ call.at = "execute" /\ Refused(call.command)
  /\ call' = Idle
  /\ UNCHANGED <<held, block, calls>>

\* Fault: execute() reports a lost session as a connection_error, so that
\* run() tries again.
AfterLostExecute_Retried(c) ==
  IF c.attempt = 1 THEN [c EXCEPT !.at = "reprepare", !.attempt = 2] ELSE Idle

AfterLostExecute(c) == Idle

ExecuteLost ==
  /\ call.at = "execute" /\ Unanswered(call.command, call.statement)
  /\ call' = AfterLostExecute(call)
  /\ block' = SessionLost(block)
  /\ UNCHANGED <<held, calls>>

Next ==
  \/ Lose \/ Enter \/ Leave \/ Run \/ Prepare \/ ExecuteHeld
  \/ QueryConnects \/ QueryLost \/ QueryReturns
  \/ RunConnects \/ PrepareDone \/ PrepareRefused \/ PrepareLost \/ PrepareReconnects
  \/ ExecuteDone \/ ExecuteRefused \/ ExecuteLost

Spec == Init /\ [][Next]_vars

----------------------------------------------------------------------------

\* However often sessions are lost and calls are tried again, no statement has
\* its effect at the server twice (mysql/connection.cpp, run() and query()).
RunsOnce == IsInjective(server.kept \o server.pending)

KeptOfBlock == Range(server.kept) \intersect block.ran

\* A block that began and whose session lasted until it was left keeps all of its
\* statements or none, none when an exception left it and its ROLLBACK was not refused,
\* even when COMMIT was refused, or when COMMIT or ROLLBACK itself lost the session and
\* was sent again.  (begin_transaction() and rollback() drop what query() returns: of a
\* block whose BEGIN was refused each statement is kept alone.)
AtomicUnlessBroken ==
  ~block.broken =>
    /\ block.state = "committed" => KeptOfBlock \in {{}, block.ran}
    /\ block.state = "rolled back" => KeptOfBlock = {}
============================================================================
