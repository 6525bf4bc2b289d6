------------------------------- MODULE MCPcBuf -------------------------------
(* TLC's instances of PcBuf: who calls what. *)
EXTENDS PcBuf, TLC

CONSTANTS Pushers, Poppers, Clearers, TimedPushers, TimedPoppers

Pushes(timed) == [op : {"push"}, timed : {timed}, val : Values]
Pops(timed) == [op : {"pop"}, timed : {timed}, val : {NoResult}]
Clears == [op : {"clear"}, timed : {FALSE}, val : {NoResult}]

MCCallsOf ==
  [t \in Threads |->
     UNION {IF t \in Pushers THEN Pushes(FALSE) ELSE {},
            IF t \in Poppers THEN Pops(FALSE) ELSE {},
            IF t \in Clearers THEN Clears ELSE {},
            IF t \in TimedPushers THEN Pushes(TRUE) ELSE {},
            IF t \in TimedPoppers THEN Pops(TRUE) ELSE {}}]

\* Waiting pops and pushes get through while there is something to take or room,
\* and timed calls return (pcbuf.h).
CallsProgress == PopsProgress /\ PushesProgress /\ TimedCallsReturn
=============================================================================
