----------------------------- MODULE Postgresql -----------------------------
(***************************************************************************)
(* pfi::database::postgresql (src/src/database/postgresql) under a client   *)
(* that uses `transaction(conn)` blocks (util.h), run(), and a prepared     *)
(* statement it keeps.  Every command, BEGIN and COMMIT included, is a      *)
(* prepare and an execute of the one unnamed statement of the session;      *)
(* get() resets the connection first when it is known to be lost; nothing   *)
(* is sent twice and every failure is an exception.                         *)
(***************************************************************************)
EXTENDS Naturals

CONSTANTS MaxCalls,    \* bound: run(), prepare() and execute() calls of the client
          MaxLosses,   \* bound: sessions lost
          MaxRefusals  \* bound: statements refused and resets that fail

PostgresqlAssumption == {MaxCalls, MaxLosses, MaxRefusals} \subseteq Nat

VARIABLES
  conn,      \* PQstatus: "ok"; "silent", the session is lost and the client has
             \* not noticed; or "bad"
  server,    \* [open, failed, pending, kept, unnamed]: the session's transaction
             \* and unnamed statement, and the set of statements committed
  call,      \* the client's call under way: its kind, its query, and whether it
             \* is at the prepare or the execute
  held,      \* the query of the statement object the client keeps
  block,     \* the client's block: its statements, and whether a call in it threw
  calls, losses, refusals

vars == <<conn, server, call, held, block, calls, losses, refusals>>

\* A query is a transaction command or the number of a run() statement.
Query(command, statement) == [command |-> command, statement |-> statement]
None == Query("none", 0)

Idle == [at |-> "idle", kind |-> "none", query |-> None]
NoBlock == [state |-> "none", ran |-> {}, threw |-> FALSE]

Init ==
  /\ conn = "ok"
  /\ server = [open |-> FALSE, failed |-> FALSE, pending |-> {}, kept |-> {}, unnamed |-> None]
  /\ call = Idle /\ held = None /\ block = NoBlock
  /\ calls = 0 /\ losses = 0 /\ refusals = 0

----------------------------------------------------------------------------
(* The server: BEGIN in a transaction and COMMIT or ROLLBACK outside of one  *)
(* are warnings; a failed transaction refuses statements and commits nothing.*)

Closed(s, kept) == [s EXCEPT !.open = FALSE, !.failed = FALSE, !.pending = {}, !.kept = kept]

Processed(s, q) ==
  CASE q.command = "BEGIN"    -> [s EXCEPT !.open = TRUE]
    [] q.command = "COMMIT"   -> Closed(s, IF s.failed THEN s.kept ELSE s.kept \union s.pending)
    [] q.command = "ROLLBACK" -> Closed(s, s.kept)
    [] OTHER -> IF s.open THEN [s EXCEPT !.pending = @ \union {q.statement}]
                          ELSE [s EXCEPT !.kept = @ \union {q.statement}]

SessionEnded(s) == [Closed(s, s.kept) EXCEPT !.unnamed = None]

Refuses(s, q) == s.failed /\ q.command \notin {"COMMIT", "ROLLBACK"}

Lose ==
  /\ conn = "ok" /\ losses < MaxLosses
  /\ conn' = "silent" /\ losses' = losses + 1
  /\ server' = SessionEnded(server)
  /\ UNCHANGED <<call, held, block, calls, refusals>>

----------------------------------------------------------------------------
(* How a call ends for the block around it.                                 *)

Returns ==
  /\ call' = Idle
  /\ block' = CASE call.kind = "BEGIN" -> [NoBlock EXCEPT !.state = "inside"]
                [] block.state = "committing" -> [block EXCEPT !.state = "committed"]
                [] block.state = "unwinding"  -> [block EXCEPT !.state = "rolled back"]
                [] block.state = "inside" /\ call.kind = "run"
                     -> [block EXCEPT !.ran = @ \union {call.query.statement}]
                [] OTHER -> block

\* An exception while another one unwinds terminates the program.
Throws ==
  /\ call' = IF block.state = "unwinding" THEN [Idle EXCEPT !.at = "terminated"] ELSE Idle
  /\ block' = [block EXCEPT !.threw = TRUE,
                            !.state = IF @ = "committing" THEN "committed" ELSE @]

----------------------------------------------------------------------------
(* The client.                                                              *)

Call(kind, at, query) ==
  /\ call' = [at |-> at, kind |-> kind, query |-> query]
  /\ UNCHANGED <<conn, server, losses, refusals>>

NextStatement == calls < MaxCalls /\ calls' = calls + 1

Enter ==
  /\ call = Idle /\ block.state # "inside" /\ calls < MaxCalls
  /\ Call("BEGIN", "prepare", Query("BEGIN", 0)) /\ block' = NoBlock
  /\ UNCHANGED <<held, calls>>

\* ~committer(): COMMIT, or ROLLBACK when an exception leaves the block.
Leave ==
  /\ call = Idle /\ block.state = "inside"
  /\ \/ /\ Call("COMMIT", "prepare", Query("COMMIT", 0))
        /\ block' = [block EXCEPT !.state = "committing"]
     \/ /\ Call("ROLLBACK", "prepare", Query("ROLLBACK", 0))
        /\ block' = [block EXCEPT !.state = "unwinding"]
  /\ UNCHANGED <<held, calls>>

Run ==
  /\ call = Idle /\ NextStatement
  /\ Call("run", "prepare", Query("run", calls + 1))
  /\ UNCHANGED <<held, block>>

Prepare ==
  /\ call = Idle /\ NextStatement
  /\ Call("hold", "prepare", Query("run", calls + 1))
  /\ UNCHANGED <<held, block>>

ExecuteHeld ==
  /\ call = Idle /\ held # None /\ NextStatement
  /\ Call("held", "execute", held)
  /\ UNCHANGED <<held, block>>

----------------------------------------------------------------------------
(* get(): a connection known to be lost is reset, or the call throws.        *)

Reset ==
  /\ call.at \in {"prepare", "execute"} /\ conn = "bad"
  /\ \/ conn' = "ok" /\ UNCHANGED <<call, block, refusals>>
     \/ refusals < MaxRefusals /\ refusals' = refusals + 1 /\ Throws /\ UNCHANGED conn
  /\ UNCHANGED <<server, held, calls, losses>>

\* PQprepare of the statement "" replaces the one before.
PrepareDone ==
  /\ call.at = "prepare" /\ conn = "ok" /\ ~Refuses(server, call.query)
  /\ server' = [server EXCEPT !.unnamed = call.query]
  /\ IF call.kind = "hold"
       THEN Returns /\ held' = call.query
       ELSE call' = [call EXCEPT !.at = "execute"] /\ UNCHANGED <<held, block>>
  /\ UNCHANGED <<conn, calls, losses, refusals>>

\* The client notices the lost session.
AfterLoss == Throws

Noticed ==
  /\ call.at \in {"prepare", "execute"} /\ conn = "silent"
  /\ conn' = "bad"
  /\ AfterLoss
  /\ UNCHANGED <<server, held, calls, losses, refusals>>

\* A statement that is refused fails the transaction; so does the execute of
\* an unnamed statement that a reset has dropped.
Refused ==
  /\ call.at \in {"prepare", "execute"} /\ conn = "ok"
  /\ \/ Refuses(server, call.query) /\ UNCHANGED refusals
     \/ call.at = "execute" /\ server.unnamed = None /\ UNCHANGED refusals
     \/ /\ call.query.command = "run" /\ refusals < MaxRefusals
        /\ refusals' = refusals + 1
  /\ server' = [server EXCEPT !.failed = server.open]
  /\ Throws
  /\ UNCHANGED <<conn, held, calls, losses>>

\* PQexecPrepared of the statement "": whatever was prepared last runs.
ExecuteDone ==
  /\ call.at = "execute" /\ conn = "ok"
  /\ server.unnamed # None /\ ~Refuses(server, server.unnamed)
  /\ server' = Processed(server, server.unnamed)
  /\ Returns
  /\ UNCHANGED <<conn, held, calls, losses, refusals>>

ExecuteUnanswered ==
  /\ call.at = "execute" /\ conn = "ok" /\ losses < MaxLosses
  /\ server.unnamed # None /\ ~Refuses(server, server.unnamed)
  /\ server' = SessionEnded(Processed(server, server.unnamed))
  /\ conn' = "bad" /\ losses' = losses + 1
  /\ Throws
  /\ UNCHANGED <<held, calls, refusals>>

Next ==
  \/ Lose \/ Enter \/ Leave \/ Run \/ Prepare \/ ExecuteHeld
  \/ Reset \/ PrepareDone \/ Noticed \/ Refused \/ ExecuteDone \/ ExecuteUnanswered

Spec == Init /\ [][Next]_vars

----------------------------------------------------------------------------

\* A block in which no call threw keeps what its run() calls did when it was
\* left normally and nothing of it when an exception left it, whatever
\* sessions were lost (postgresql/connection.cpp: no call is tried twice).
QuietBlockAtomic ==
  ~block.threw =>
    /\ block.state = "committed"   => block.ran \subseteq server.kept
    /\ block.state = "rolled back" => block.ran \intersect server.kept = {}
============================================================================
