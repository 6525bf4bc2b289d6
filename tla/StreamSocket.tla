---------------------------- MODULE StreamSocket ----------------------------
(***************************************************************************)
(* pfi::network::stream_socket (socket.cpp): one thread writes, flushes,   *)
(* reads, connects again and shuts down; and basic_socketstreambuf         *)
(* (iostream.h), which puts its calls through to it.  The peer and the     *)
(* kernel in between are external: a send() takes what it likes of its     *)
(* data or fails, a recv() gives what it likes of what has arrived or      *)
(* fails (the end of the stream, an error, a timeout).                     *)
(* Bytes are numbered in the order they are made, 1, 2, 3, ... in each     *)
(* direction, so that order, loss and duplication can be told.             *)
(***************************************************************************)
EXTENDS Integers, Sequences, Functions

CONSTANTS
  BufSize,  \* buf_size, 8192 in the code
  MaxSize,  \* bound: the size of a write() or read()
  MaxSent,  \* bound: how many bytes are written
  MaxPeer,  \* bound: how many bytes the peer sends
  MaxConns  \* bound: how many connections there are

StreamSocketAssumption ==
  /\ BufSize \in Nat \ {0} /\ MaxSize \in Nat /\ MaxSent \in Nat /\ MaxPeer \in Nat /\ MaxConns \in Nat

VARIABLES
  sock,       \* the descriptor is there
  connected,
  rdbuf,      \* the bytes from rdbuf_p to rdbuf_end
  wrbuf,      \* the first wrbuf_size bytes
  conns,      \* how many connections there have been
  wire,       \* kernel: sent by the peer over this connection, not received yet
  peer,       \* how many bytes the peer has sent so far
  made,       \* how many bytes the caller has asked to write
  sent,       \* history: what went into the kernel, over all connections
  got,        \* history: what the caller has read
  last        \* history: the last write(): its bytes, from and to, and its result

vars == <<sock, connected, rdbuf, wrbuf, conns, wire, peer, made, sent, got, last>>

NoWrite == [from |-> 1, to |-> 0, result |-> 0]

Init ==
  /\ sock = TRUE /\ connected = FALSE
  /\ rdbuf = <<>> /\ wrbuf = <<>>
  /\ conns = 0 /\ wire = <<>> /\ peer = 0 /\ made = 0
  /\ sent = <<>> /\ got = <<>> /\ last = NoWrite

From(a, b) == [i \in 1..(b - a + 1) |-> a + i - 1]
First(s, n) == SubSeq(s, 1, n)
Rest(s, n) == SubSeq(s, n + 1, Len(s))
MinOf(a, b) == IF a <= b THEN a ELSE b
MaxOf(a, b) == IF a >= b THEN a ELSE b

-----------------------------------------------------------------------------
(* The descriptor *)

\* connect(): a connected socket is closed and opened first, its buffers stay.
Connect ==
  /\ sock /\ conns < MaxConns
  /\ connected' = TRUE
  /\ conns' = conns + 1
  /\ wire' = <<>>
  /\ last' = NoWrite
  /\ UNCHANGED <<sock, rdbuf, wrbuf, peer, made, sent, got>>

\* Nobody answers: the descriptor is closed, for good but for shutdown() and bind_socket().
ConnectFails ==
  /\ sock /\ conns < MaxConns
  /\ sock' = FALSE /\ connected' = FALSE
  /\ wire' = <<>>
  /\ last' = NoWrite
  /\ UNCHANGED <<rdbuf, wrbuf, conns, peer, made, sent, got>>

\* shutdown() is close() and open(); on a closed socket it does nothing.
Shutdown ==
  /\ sock
  /\ connected' = FALSE
  /\ wire' = <<>>
  /\ last' = NoWrite
  /\ UNCHANGED <<sock, rdbuf, wrbuf, conns, peer, made, sent, got>>

\* bind_socket() closes what it has and takes over an accepted descriptor.
BindSocket ==
  /\ conns < MaxConns
  /\ sock' = TRUE /\ connected' = TRUE
  /\ conns' = conns + 1
  /\ wire' = <<>>
  /\ last' = NoWrite
  /\ UNCHANGED <<rdbuf, wrbuf, peer, made, sent, got>>

\* The kernel has taken n of the bytes: all of them, or it failed after n, and send()
\* has closed the socket.
SendAll(bytes, n) ==
  /\ n \in 0..Len(bytes) /\ (n > 0 => connected)
  /\ sent' = sent \o First(bytes, n)
  /\ IF n < Len(bytes)
     THEN IF connected THEN sock' = FALSE /\ connected' = FALSE /\ wire' = <<>>
          ELSE UNCHANGED <<sock, connected, wire>>
     ELSE UNCHANGED <<sock, connected, wire>>

-----------------------------------------------------------------------------
(* Writing *)

\* Fault: a failed flush keeps its bytes for the next one.
AfterFlush_KeepsFailed(n) == IF n < Len(wrbuf) THEN wrbuf ELSE <<>>

AfterFlush(n) == <<>>

\* flush() empties the buffer whatever the kernel took of it.
Flush ==
  /\ wrbuf # <<>>
  /\ \E n \in 0..Len(wrbuf) :
       /\ SendAll(wrbuf, n)
       /\ wrbuf' = AfterFlush(n)
  /\ last' = NoWrite
  /\ UNCHANGED <<rdbuf, conns, peer, made, got>>

\* What write() returns when it could not flush more than res bytes, of which init_size
\* are from before.
Unflushed(res, init_size) == MaxOf(0, res - init_size)

\* write() of the next size bytes.  What fills the buffer flushes it; a rest as large as
\* the buffer is sent at once, a smaller one buffered.
Write(size) ==
  LET new == From(made + 1, made + size) IN
  LET fits == MinOf(size, BufSize - Len(wrbuf)) IN
  LET full == wrbuf \o First(new, fits) IN
  LET rest == Rest(new, fits) IN
  /\ made + size <= MaxSent
  /\ made' = made + size
  /\ \E result \in 0..size :
       /\ last' = [from |-> made + 1, to |-> made + size, result |-> result]
       /\ \/ /\ Len(full) < BufSize
             /\ result = size /\ wrbuf' = full
             /\ UNCHANGED <<sock, connected, wire, sent>>
          \/ \E n \in 0..(BufSize - 1) :
             /\ Len(full) = BufSize
             /\ SendAll(full, n)
             /\ result = Unflushed(n, Len(wrbuf)) /\ wrbuf' = <<>>
          \/ /\ Len(full) = BufSize /\ Len(rest) < BufSize
             /\ SendAll(full, BufSize)
             /\ result = size /\ wrbuf' = rest
          \/ \E n \in 0..Len(rest) :
             /\ Len(full) = BufSize /\ Len(rest) >= BufSize
             /\ connected
             /\ SendAll(full \o rest, BufSize + n)
             /\ result = fits + n /\ wrbuf' = <<>>
  /\ UNCHANGED <<rdbuf, conns, peer, got>>

-----------------------------------------------------------------------------
(* Reading *)

PeerSends ==
  /\ connected /\ peer < MaxPeer
  /\ peer' = peer + 1
  /\ wire' = Append(wire, peer')
  /\ UNCHANGED <<sock, connected, rdbuf, wrbuf, conns, made, sent, got, last>>

\* recv() gives nothing: it closes the socket, which loses what is on the wire.
RecvFails ==
  IF connected THEN sock' = FALSE /\ connected' = FALSE /\ wire' = <<>>
  ELSE UNCHANGED <<sock, connected, wire>>

\* What read() leaves in the buffer: it copies from there first.
Buffered(size) == Rest(rdbuf, MinOf(size, Len(rdbuf)))

\* read(): what the buffer does not have comes from recv() calls until one fails.
Read(size) ==
  LET have == First(rdbuf, MinOf(size, Len(rdbuf))) IN
  LET want == size - Len(have) IN
  /\ size > 0
  /\ rdbuf' = Buffered(size)
  /\ \E n \in 0..MinOf(want, Len(wire)) :
       /\ got' = got \o have \o First(wire, n)
       /\ IF n < want THEN RecvFails ELSE wire' = Rest(wire, n) /\ UNCHANGED <<sock, connected>>
  /\ last' = NoWrite
  /\ UNCHANGED <<wrbuf, conns, peer, made, sent>>

\* getc(), and getline() as many times as the line is long: an empty buffer is filled by
\* one recv() first.
Getc ==
  /\ \/ /\ rdbuf # <<>>
        /\ got' = Append(got, Head(rdbuf)) /\ rdbuf' = Tail(rdbuf)
        /\ UNCHANGED <<sock, connected, wire>>
     \/ \E n \in 1..MinOf(BufSize, Len(wire)) :
        /\ rdbuf = <<>>
        /\ got' = Append(got, wire[1]) /\ rdbuf' = SubSeq(wire, 2, n)
        /\ wire' = Rest(wire, n)
        /\ UNCHANGED <<sock, connected>>
     \/ rdbuf = <<>> /\ RecvFails /\ UNCHANGED <<got, rdbuf>>
  /\ last' = NoWrite
  /\ UNCHANGED <<wrbuf, conns, peer, made, sent>>

-----------------------------------------------------------------------------

Next ==
  \/ Connect \/ ConnectFails \/ Shutdown \/ BindSocket
  \/ Flush \/ Getc \/ PeerSends
  \/ \E size \in 0..MaxSize : Write(size) \/ Read(size)

Spec == Init /\ [][Next]_vars

-----------------------------------------------------------------------------
(* Properties *)

Ascending(s) == \A i, j \in DOMAIN s : i < j => s[i] < s[j]

\* Over any sequence of calls, failures and new connections no byte is sent twice or
\* before one that was written earlier, by the write buffer and the direct send of large
\* writes in turns, and what a failed flush left is never sent again; and what read(),
\* getc() and getline() give, from the read buffer that may hold bytes of an earlier
\* connection and from direct recv() calls, keeps the peer's order, each byte once.
BytesInOrder == Ascending(sent \o wrbuf) /\ Ascending(got \o rdbuf \o wire)

\* What write() says is exact: if all its bytes were taken, they are sent or buffered; if
\* only some, those and no more have been sent, none is buffered, and the socket is no longer
\* connected.  (With BytesInOrder they are there in order and with nothing in between.)
WriteReportExact ==
  LET mine == last.from..last.to IN
  IF last.result = last.to - last.from + 1 THEN mine \subseteq Range(sent \o wrbuf)
  ELSE /\ mine \intersect Range(sent) = last.from..(last.from + last.result - 1)
       /\ wrbuf = <<>> /\ ~connected

=============================================================================
