# pficommon in TLA+

A verification project for pficommon (`src/`), the C++ library of Preferred
Infrastructure: threads and synchronisation, sockets, RPC, HTTP, parsers, data
structures and database connections. TLC checks the modules on small instances, and
TLAPS proves part of them for every value of the constants.

`PROJECT.json` lists the components, the runs, the mutants that show each property can
fail, the map from every definition to the lines it models, the findings, the hazards
and the theorems. Source paths below are relative to `src/src/`.

## 1. Inventory

### concurrent/

| component | state | operations | what is hard, and what makes it correct |
|---|---|---|---|
| `mutex`, `r_mutex` (mutex.cpp) | `mid` (pthread mutex), `holder`, `cnt` | lock, unlock | `holder` is compared without any lock. One thread at a time inside; the comparison is right whenever it is made |
| `condition` (condition.cpp) | pthread condition; rewrites the mutex's `holder` and `cnt` | wait, timed wait, notify, notify_all | a wait in a nested lock must give up all levels and have them back |
| `scoped_lock`, `synchronized` (lock.h) | `need_unlock` | constructor, destructor | unlocks if and only if it locked |
| `pcbuf` (pcbuf.h) | deque, capacity | push, pop, timed forms, clear | one condition for two kinds of waiter, notification after the unlock, timeouts racing notifications. A linearizable bounded FIFO; no lost wakeup; timed calls return |
| `qsem` (qsem.h) | counter | wait(q), signal(q) | never grants more than there is; no lost wakeup |
| `mvar` (mvar.h) | pointer | take, put, read, try_take, try_put, swap | swap is take and put under a recursive lock. A linearizable one-place cell |
| `chan` (chan.h) | deque per channel; `link`: mutex and set of channels | write, read, unget, dup, destructor | nested locks, a broadcast over a set that changes. One sequence for all linked channels; no deadlock |
| `rw_mutex` (rwmutex.cpp) | pthread rwlock | read/write lock (blocking, timed, non-blocking), unlock | the caller must know whether it has the lock; writers must not starve |
| `thread` (thread.cpp) | running flag, thread id | start, join, detach | a life cycle kept in an unsynchronised flag |

### network/

| component | state | operations | what is hard, and what makes it correct |
|---|---|---|---|
| `cached_dns_resolver` (dns.cpp) | `cache`, `access_time` | resolve, delete_cache, clear_cache | the mutex is given up during the resolution. Cache bounded, index and cache agree, entries expire |
| `rpc` (rpc/) | server: state, running-thread count, listening socket; client: cached connection | start, process, stop, wait_until_stopped; call | shutdown against accepting and serving threads; connection reuse; errors that send no reply. STOPPED is the truth; what a call is told is the truth; stop and calls end |
| `mprpc` (mprpc/) | server: running flag, threads, socket; stream: sequence number | create, run, stop, join, process; call, join by id | stop against accept and receive; late replies after a timeout |
| `stream_socket`, socket streams (socket.cpp, iostream.h) | descriptor, connected flag, read and write buffers | connect, close, read, write, flush, getc, getline | partial sends, failures with a buffer half sent, buffers that survive a reconnect. Bytes in order, once; write() reports what was taken |
| `http` (http/) | header list; body readers with the rest of the chunk or body | read and write header, fill, send, receive | ends of lines, of chunks, of input |
| `uri` (uri.cpp) | parts | parse, print, encode, decode | a grammar with backtracking over parts already stored |
| `cgi`, `ipv4_address` | - | accept loop, pages; four numbers | - |

### data/, text/, database/, math/

| component | state | what is hard, and what makes it correct |
|---|---|---|
| `lru` (data/lru.h) | map and index by time | one stamp per entry over any calls: a list in the order of use |
| `intern` (data/intern.h) | two tables | they stay inverse to each other through clear, swap and restore |
| `fenwick_tree` | partial sums | every range sum, at every boundary |
| string algorithms, `ustring` | - | double-array automaton with fail links, UTF-8 at the limits of each length |
| base64, integer codes, md5 padding | bit position | words across byte boundaries |
| serialization | - | a read into an object that holds something already, a text that is cut |
| `sparse_matrix` | three files | differences of columns in variable-length codes, rows without entries, the transposition |
| `json` (text/json) | tree of shared values | one character read ahead, surrogates, casts that fail half way, sharing against clone() |
| `csv` | parser shared by iterators | copies of iterators, quotes |
| `database` (MySQL, PostgreSQL) | session, transaction, statement | a session lost before or after the server did the work; retries; a commit in a destructor |
| vectors, `ratio` | - | laws over all twelve classes; signs and lowest terms |

`lang/`, `system/`, `xhtml`, the hashes and `optional`, FFT and random numbers,
`tools/genrpc`: see section 8.

### How the parts interact

Everything that blocks is built on `mutex` and `condition`: `pcbuf`, `qsem`, `mvar`
and `chan` call them through `scoped_lock`; `cached_dns_resolver` uses an `r_mutex`.
So those modules are written on the abstract `Monitor`, and `CondMutex` is shown to
implement `Monitor`. The RPC servers run their accept loop in `thread`s over a
listening socket and talk through socket streams and the archives of
`serialization`; http reads through `stream_socket::getline`; `json`, `ustring` and
`csv` meet only in the programs that use them, but the JSON parser reads UTF-8
through the decoder of `ustring.h`. The database blocks (`transaction`) sit on
the connections of either server.

## 2. Modules

| module | models | role |
|---|---|---|
| `Monitor` | lock and waiting room | abstract specification of mutex and condition, and the steps the next modules are made of |
| `CondMutex`, `CondMutexProofs` | mutex.cpp, condition.cpp | one memory access per step; implements `Monitor` |
| `BoundedFifo`, `PcBuf`, `MCPcBuf` | pcbuf.h | on `Monitor`'s steps; implements `BoundedFifo`, which is proved in `PcBuf` itself |
| `QSem` | qsem.h | on `Monitor`'s steps |
| `SyncCell`, `MVar`, `MVarProofs` | mvar.h | on `Monitor`'s steps (depth 2); implements `SyncCell` |
| `Broadcast`, `Chan`, `ChanProofs`, `MCChan` | chan.h | implements `Broadcast` |
| `RWMutex` | rwmutex.cpp, rwmutex.h | over an external pthread rwlock |
| `DnsCache` | dns.cpp | the cached resolver |
| `MCSync`, `SyncProofs` | | union of `CondMutex`, `QSem`, `MVar`, `RWMutex`, `DnsCache`, and what is proved of it |
| `Rpc`, `MpRpc`, `MCServers`, `ServersProofs` | rpc/, mprpc/ | server, clients and the connections between them; the union of both servers |
| `StreamSocket` | socket.cpp, iostream.h | buffers over an external kernel |
| `JsonHeap` | text/json/base.h | sharing of values |
| `RecencyList`, `Lru` | data/lru.h | implements `RecencyList` |
| `Intern`, `Fenwick` | data/ | against their reference definitions |
| `Mysql`, `Postgresql` | database/ | sessions that can be lost at any moment |
| `Vector`, `MathTypes` | math/ | ratio, and `Vector` for each vector class |
| `SqlValues` | database/ values and rows | |
| `Csv` | csv.h, csv.cpp | parser, and iterators that share it |
| `MCStores`, `StoresProofs`, `DataProofs` | | union of the eight lines above, and what is proved of it |
| `Uri` | uri.cpp | grammar, against the split of RFC 3986 |
| `Ustring`, `Strings` | data/string | |
| `Codes` | data/ encoding, code, digest, sparse_matrix | a sparse matrix is stored in the variable-length codes |
| `JsonText`, `JsonCast` | text/json/parser.cpp, base.h, cast.h | `JsonCast` extends `JsonText` |
| `Http` | http/base.cpp | |
| `Serialization` | data/ serialization | |
| `MCFormats` | | TLC's inputs for the six lines above |

`MCSync`, `MCServers` and `MCStores` are unions: a variable `part` chosen at the start
says which component a behaviour is of, and the others keep their initial state, so
one run checks each component on its own (nothing is multiplied). They pass their
CONSTANTS on to the components, the assumption of a union is that of its components
(`MCSyncAssumption`, `MCServersAssumption`, `MCStoresAssumption`), and the cfg gives the
values: so the proofs about a union are about the definitions that its run checks, for
every value. In `MCFormats` a
state is a subject and an input for it; a step makes the input one item longer, and
the invariants say what the functions do with it. `MCStores` does the same for the
functions that are proved about: where `part` is `vector`, `ratio`, `sql`, `row` or `table`, the
state is an `input`, and all components with state stay as they were.

### How state and actions correspond to the code

*CondMutex.* `mid`, `holder` and `cnt` are the fields of `mutex_base::impl`. Each
thread's `pc` says where it is in lock(), unlock() or wait(); each action is one
access to a field or one pthread call, in the order of the code. The local `cnt` of
wait() is `saved`. `depth` is a history variable that counts what a thread has
locked. A client unlocks a plain mutex only when it holds it and does not lock it
twice; an r_mutex is also unlocked and waited on by threads that do not hold it
(those calls change nothing and are therefore not actions). The comparison of
`holder` is a data race; the field is an aligned word, so a read gives the value
before or after a write, which is what steps of one access each produce. The comment
in condition.cpp:109 ("if holder is self, do nothing") says the opposite of the code
beneath it, which is right.

*PcBuf, QSem, MVar.* `depth` and `room` are Monitor's state. A call goes through
`pc` from its first to its last statement: Enter is the scoped_lock, the loop test is
Wait or Pass, the loop body's cond.wait is Wait, a wakeup, and Resume; the effect is
an action of its own; Unlock is the end of the block and NotifyAll the statement
after it. Time in PcBuf is one bit per call: whether its `second` has elapsed.

*Chan.* Mutexes are modelled by their owners, since neither is ever taken twice by
one thread and the link's mutex is never waited with. Each message is the number of
its write(). A channel is used only between the return of the dup() that made it and
the start of its destructor, as for any C++ object.

*RWMutex.* The pthread lock is the sets of its holders. What a caller believes
(`pc`, `locked`) comes from `LockResult`, the boolean the code makes of the pthread
result. Callers do not nest read locks.

*DnsCache.* `cache` is the map, `access` the multiset as a bag of (time, key). Each
block under the mutex is one action, except that the eviction loop is one action per
iteration, with the mutex held between them. `expire_second` is a field that
nothing changes after Init, so that one run has both a cache whose entries stay and one
whose entries all expire.

*Rpc.* One thread runs serv() (start, wait_until_stopped), one calls stop(), which
holds `state_mutex` (`mutex`) while it sends EXIT messages through clients of its
own. A server thread's `pc` is its place in process(): the state test, accept(), or
serving a connection. `link` is what each connection has in flight in both
directions and which end has closed it. A message is what one flush sends. A call
is abstracted to its kind (good, unknown, of another version, one that throws), of
which the invoker makes the reply code or nothing at all. The server's timeout may fire on
any connection that has not sent, those of stop() included; what a call then throws leaves
stop(), which catches `cannot_get_connection` only (base.cpp:131).

*MpRpc.* The same with message ids instead of a reply on the same stream: a call may
time out at its client, its answer then arrives during a later one and is dropped by
its id. `run()` starts only when no stop() is between its two steps (see section 8).

*StreamSocket.* Bytes are numbered in the order they are made in each direction, so
that order, loss and duplication can be told. A send takes what it likes of its data
or fails, a recv gives what it likes or fails; `sent` and `got` are histories over all
connections.

*Mysql, Postgresql.* A statement is the number of the client call that issued it; the
server keeps the committed ones. One exchange with the server is one step, which may
be answered, refused, or lost before or after the server did the work; any command may be
refused, BEGIN, COMMIT and ROLLBACK among them, whose results the library drops. MySQL's
query() and run() reconnect and try again; PostgreSQL never does, and all its commands
go through one unnamed statement of the session (`server.unnamed`).

*JsonHeap, Lru, Intern, Fenwick.* One action per operation of the class; the cells of
JsonHeap are the values that shared pointers point at, and go when nothing does.

*The functions.* Parsers are functions of the position in the text; where a read
changes an object that holds something already (uri, casts, archives), the old value
is an argument. A stream object of `Serialization` is its bytes and its two positions: a read
puts the bytes at the put position, over what was there, and goes back to the first byte
(iostream.h:101-115). The header of `Http` is changed by reading it: the reader of a request
looks two keys up with the operator[] that inserts them (base.cpp:440-443). Characters,
bytes and numbers keep the width the properties need: bytes are 0..255, int is -8..7 where narrowing matters (`IntMax`, `Int32Max` = 7).

Definitions named `X_Something` with a comment "Fault:" are variants of `X` that a
plausible bug would give; no specification uses them. `PROJECT.json` "mutants" says
which property each of them breaks.

## 3. Runs

| run | what it shows | instance |
|---|---|---|
| `CondMutexRecursive` | the unsynchronised holder test is exact, the count is the holder's depth, exclusion, refinement of Monitor | 3 threads, depth 3 |
| `PcBuf` | pcbuf is a linearizable bounded FIFO; timed calls fail only late and without effect, and return whatever the others do; no lost wakeup; pops and pushes get through | 3 threads with different mixes of calls, 2 values, capacity 2 |
| `Sync` | plain mutex: as above, although its holder is stale while its holder waits. qsem: never more granted than there is. mvar: a linearizable cell, swap included. rw_mutex: scoped locks know whether they hold the lock, writers exclude. DNS cache: bounded, every entry evictable. All: no lost wakeup, and who waits for what is there gets it (`WaitsEnd`) | mutex and mvar 3 threads; qsem 4 threads, 2 units; 2 readers, 2 writers; 2 resolvers, 3 keys, size 2 |
| `Chan` | linked channels deliver one sequence; the nested locks never deadlock; calls end | 2 writers, a reader, a linker, 2 channels, 2 messages |
| `Servers` | STOPPED is said when all is quiet; what calls are told is true; late answers are dropped; calls end, and stop() gets every thread out or has thrown with messages to send | 2 server threads, a client, 3 and 4 connections, every kind of call; mprpc: 2 calls, 4 ids |
| `Stores` | bytes in order and exact reports of write(); clones apart; tables inverse (`IdsExact`); sums exact (`SumsExact`); no statement twice; blocks whole or not at all; lru is a recency list; the laws of vectors and fractions (`MathExact`); variables get what a database kept, and rows arrive whole (`SqlReadBack`); tables of csv too, and copies of iterators keep their rows (`CsvExact`) | buffer of 3 bytes, 6 written and 5 from the peer, 2 connections; 4 cells; lru of 2, 3 keys, 6 uses; tree of 7; 3 statements, 2 losses, 2 refusals; components -2..2, terms -4..4, numbers -20..20, texts of up to 5; tables of up to 5 characters and ends |
| `Formats` | written is read back; parsers agree with the grammar they cite; algorithms with what they compute | all inputs up to a length from each subject's items (`Subjects` in `MCFormats`) |
| `QSemQuantity` | **violated**: wait(2) takes one unit | 2 threads |
| `RWMutexTryRead` | **violated**: the non-blocking read lock's answer is inverted | 2 readers, a writer |
| `DnsCacheAssert` | **violated**: dns.cpp's own assertion | 2 callers, 2 keys |
| `DnsCacheExpire` | **violated**: entries never expire | 1 caller |
| `JsonNumber` | **violated**: a number at the very end of a text | as `Formats` |

### Bounds, and why they are enough

Three threads are the least at which a third can act between two steps of an
interplay of two (a thread that locks while one sleeps and one notifies); where a
wakeup may go to the wrong kind of waiter, two of them can be of either kind at the
same time. `MaxDepth` 3 has an inner level that is neither the first nor the last.
The buffer has capacity 2, so that it is full, empty and neither, and two values
tell reordered or duplicated ones apart. `MaxWrites` 2 (a bound on the calls of
write(), the waiting ones included) gives the channels an order to disagree on.
`MaxQuantity` bounds the counter of qsem, which drifts when quantities differ from
1, in the guard of Give; `MaxTime` and `MaxIndex` bound the clock and, in the guard
of Call, the index of the DNS cache, which grows for ever otherwise; in `Sync` the
index does outgrow the cache (3 stamps, size 2).

In `Servers`, two threads are the least of which one is not the last to leave; stop()
needs a connection per thread besides the client's. `MaxCalls` 2 lets the answer to
the first call meet the second, and with 4 `Ids` the ids do not wrap around between
them. In `Stores`, a write is smaller than, as large as and larger than the buffer
(`BufSize` 3, `MaxSize` 6: the buffer and a rest as large), and `MaxConns` 2 has one reconnect for the buffers to
survive. `MaxCells` 4 has room for an object below another and its clone. The lru
evicts with three keys and a size of two, and `MaxUses` 6 lets every key be used,
evicted and come back; a tree of 7 has nodes of every level. `MaxLosses` 2 loses the session of the
retry as well. The fractions have every sign, common divisors and a numerator of 0; two components of a
vector are free and the last is repeated up to the tenth, so vectors that differ first, last or
nowhere are compared in every class; the numbers are on both sides of `Int32Max` 7, the texts
shorter and longer than the row buffer of 2, and the rows have up to ten columns, on both sides of
the widths that fetch_row gets wrong. In `Formats` the items of each subject have every class of character
or value the code tells apart and both sides of each numeric limit; the lengths have
the longest construct and something behind it (five tokens of a URI, four bytes of
UTF-8, six characters of a number, a chunk of five bytes over a buffer of two; hosts are
names, IPv4 and IPv6 addresses and, refused as the code refuses them, IPvFuture). A
`MayFollow` condition thins long inputs out where everything they could show is
shown by shorter ones.

### Fairness

QSem has weak fairness of each thread's own steps: the scheduler runs every thread
that can run, and a mutex that stays free is granted. It does not say that a
particular thread ever gets the mutex, so the progress property speaks of some
caller, not each; a client that was granted its units returns them. PcBuf, MVar and
Chan use strong fairness of those steps: a mutex that is free again and again goes to
each thread that asks for it some time. The implementations of pthread mutexes that
the library runs on do not promise it in theory and deliver it in practice, and a
named call cannot be shown to return without it. What it leaves to check is waits
that last for ever for another reason: a wakeup that never comes, a rearmed timeout,
a level of the lock kept over a wait. Spurious wakeups, which POSIX permits, must end
in QSem, PcBuf and MVar, or they alone would end every sleep and hide a lost wakeup.
In PcBuf time passes and timed waits end at their deadline. RWMutex's fairness is
weak: a writer is granted the lock because new readers stay out once it waits; two
writers may still starve each other, so the property speaks of some writer. In
DnsCache a caller in the eviction loop goes on.

In `Servers` server threads have strong fairness of their steps (accept() is a race
between the threads that each must win some time), timeouts of the server are weakly
fair, since recv() with a timeout returns, and clients that are in a call go on. The same
timeout can hit stop()'s own connection between its ping and its exit message: `StopsEnd` then
lets stop() end by the exception instead (`StopFailed`), with threads that may stay in
accept() and a STOPPED that nobody says; only an exception that leaves messages unsent
excuses it. A
client of `Rpc` is destroyed now and then, for its connection keeps a server thread as
long as it lives; the properties say nothing for a server without timeouts.

Deadlock is checked in every run but `Stores`, `Formats` and `JsonNumber`, whose
behaviours end at the bounds of their inputs.

## 4. Findings

1. `rwmutex.cpp:99` returns the result of pthread_rwlock_tryrdlock without comparing
   it with 0 (line 120 does, for the writer): a successful non-blocking read lock is
   reported as failed and never released. Run `RWMutexTryRead`.
2. `qsem.h:59` takes one unit whatever quantity wait(q) asked for, and signal(q) adds
   q. Run `QSemQuantity`.
3. `dns.cpp:215`'s assertion fails when two callers miss the same key at once; the
   index keeps a stamp no later hit erases. Run `DnsCacheAssert`.
4. `dns.cpp:192` stores the new time in an entry before it compares the time with the
   limit: entries never expire. Run `DnsCacheExpire`.
5. `text/json/parser.cpp:274` tests for the end of the input while a character is read
   ahead: "5e5" at the end of a text loses its last digit. Run `JsonNumber`.

Findings 2 and 4 are disagreements with the documentation, 1, 3 and 5 errors of the
code.

## 5. Proofs

All proofs are for any set of threads and any values of the other constants that the
named assumption of the module allows; where a theorem needs more than that, it is said
below. A module of proofs extends the module whose run checks the property; those about pcbuf
are at the end of its own. The proofs about
a union (`SyncProofs`, `ServersProofs`, `StoresProofs`, `DataProofs`) all end alike: the lemma `Steps` says
that a step of the union is a step of each component or changes nothing of it, `Inits` that
a component starts as its own Init says, so that an invariant of the component is one of
the union.

| theorem | states |
|---|---|
| `CondMutexProofs`: `TypeCorrect`, `MutualExclusionHolds`, `HolderTestExactHolds`, `CountExactHolds`, `Refinement` | recursive and plain mutex, and that they implement `Monitor` |
| `PcBuf`: `TypeCorrect`, `NoLostWakeupHolds`, `Refinement` | pcbuf implements `BoundedFifo` |
| `ChanProofs`: `NoLostWakeupHolds`, `Refinement` | linked chans implement `Broadcast` |
| `MVarProofs`: `NoLostWakeupHolds`, `Refinement` | mvar implements `SyncCell` |
| `SyncProofs`: `PlainMutexExactHolds`, `NoLostWakeupHolds`, `ImplementsSyncCellHolds`, `NeverOverGrantedHolds`, `LocksTrueHolds`, `SizeBoundedHolds`, `CachedAreIndexedHolds` | every safety property of `Sync` and its refinement |
| `ServersProofs`: `StoppedMeansQuietHolds`, `OutcomesTrueHolds`, `AnswersTrueHolds` | every safety property of `Servers` |
| `StoresProofs`: `RunsOnceHolds`, `AtomicUnlessBrokenHolds`, `IdsExactHolds`, `StreamsExactHolds`, `ImplementsRecencyListHolds`, `CsvExactHolds` | properties of `Stores`: both databases, intern, streams, csv; lru implements `RecencyList` |
| `DataProofs`: `SumsExactHolds`, `ClonesApartHolds`, `MathExactHolds`, `SqlReadBackHolds` | the other properties of `Stores`: the tree, json values, the number types, the values of the databases |

### Mutex, buffer, channels

*CondMutexProofs* rests on `CondMutexAssumption`. `MutualExclusion` is not inductive:
lock() of an r_mutex decides by `holder` and `cnt`, so the invariant `Inv` has to say what
these are worth at every place of the code. `HolderInv`: `holder` names a thread that
runs client code exactly if that thread has the mutex. `DepthInv`: which places are
reached at which depth. `PlainInv`, `RecursiveInv`: the count is the depth of the
owner, or is kept in the `saved` of a thread that waits, or one of the few assignments
that make it so is still to come. `InvNext` has one step per action. From it follow
`TypeCorrect`, `MutualExclusionHolds`, `HolderTestExactHolds`, `CountExactHolds`. For
`Refinement`, `AbstractNext` shows that each step is a step of `Monitor` (the pthread
calls) or changes nothing of it (the accesses to the fields).

*PcBuf* rests on `PcBufAssumption`. `Inv` is the type invariant, `LockInv` (one
thread between the lock and the unlock), `RoomInv` (who sleeps or was woken is where a wait is),
`CallInv` (what each place knows about its call and the buffer), and `NoLostWakeup`, which
is inductive given the rest: a step that makes a sleeper's condition true leads to
`notify_all`, and a sleeper has tested the condition under the lock it gives up as it
falls asleep. Theorems: `TypeCorrect`, `NoLostWakeupHolds`, and `Refinement` to `BoundedFifo`
(the steps Push, Pop, Clear are its steps, a timeout is the refused call, the
rest is stuttering).

*MVarProofs* rests on `MVarAssumption`. `NoLostWakeupHolds` needs to know how many levels of
the lock each place of a call has (`RoomInv`: swap()'s own lock is around those of its
halves) and which half of a swap() is under way (`CallInv`). For `Refinement` to `SyncCell`,
`MidInv` says that a swap() with the value in its hands has the lock and has left the cell
empty, so that at most one has and its put() never waits; `RetInv` that nobody has a result
before its effect; `PassInv` that the lock keeps the cell from the test to the effect. `Stutters`,
`Effects` and `Returns` say what each kind of step is to the cell, and
`AbstractNext` has one step per kind.

*ChanProofs* rests on `ChanAssumption`. `Control` says who owns the link's mutex, that a write()
under way comes to linked chans only and once to each, and that a chan being destroyed is in
no reader's call; a chan's own mutex is not needed, for the deque is changed in one step.
`NoLostWakeupHolds` follows from it. For `Refinement` to `Broadcast`, `OrderInv` says what a
deque holds: the messages from the last that was got (`Got`) to the last that was given (`Given`),
which is the last written, or the one before it while the write() under way has yet to
come to this chan; and what a reader can unget is the last it got. So a reader's next
message is `Got` + 1, whether the deque is empty or not, and each action changes it as
Broadcast does or not at all. `BoundInv` keeps the model's bound on the messages; it takes the
number of the writers to be finite.

### SyncProofs

It rests on `MCSyncAssumption`. The theorems about the plain mutex and mvar follow from the invariants
of `CondMutexProofs` and `MVarProofs`; the other three components have theirs here.

`QSemInv` (types, `QSemRoomInv`, `QSemLockInv`, `NoLostWakeup`) goes along the lines of PcBuf's and
holds for every quantity. `NeverOverGrantedHolds` assumes `Quantities = {1}`, which is lock()
and unlock() (with others the run `QSemQuantity` refutes it): `QSemUnitInv` says that the units
left and the units in use are all there were, and that who has passed the loop still
finds one, for the lock is not given up between the test and the take.

`RWInv`: `BeliefExact` is inductive together with the exclusiveness of the external lock and
the kinds of the calls. `LocksTrueHolds` assumes that no caller uses the non-blocking read lock,
with which the run `RWMutexTryRead` refutes it.

`DnsInv` is `SizeBounded`, `CachedAreIndexed` and the finiteness of the cache. The lemmas say what
the operations of bags do to the set of stamps; the index may hold stamps of entries that are gone
(finding 3), but each operation removes only stamps of the key whose entry it changes, and the
eviction removes the entry of the stamp it takes.

### ServersProofs

It rests on `MCServersAssumption`: the threads are finitely many and names are different from each
other; for mprpc, that a client makes no more calls than there are ids (an id that wraps around on one
stream may be taken for an older one, and nothing in the code or the protocol prevents it).

*rpc.* Neither `StoppedMeansQuiet` nor `OutcomesTrue` is inductive. `RpcQuiet` adds to the
first how it comes about: `running` is the number of threads in process(), the last to leave sets
STOPPED, and a connection whose server end is open waits in the queue of a socket that is listened
to or is served by some thread. `RpcTalk` adds to the second what is between the caller and the
server at each step of a call (`RpcConversation`: a request is in one place at a time, as bytes on
the wire or as one run of the method, or as its answer on the way back), that a connection
has one owner and that what a client closes is emptied (`RpcOwned`), and that the method has not run
before the request is out (`RpcTold`), which is what makes the retries over a stale connection harmless.

*mprpc.* `AnswersTrue` compares an answer with the call that joins. `MpNumbers`: on a stream of
its own the ids follow the calls, so an answer of an id belongs to the call of that number on this
stream, late answers included. `MpAnswers`: what an answer says is what its call runs to, and the
method did run. `MpRanOnce`, `MpOnTheWay`, `MpApart`: a request on its way has not run, and no call
has two.

### StoresProofs

It rests on the assumptions of the components: the bounds are naturals, the buffer has room for a byte and
the lru for a key.

*Induction.* The library's induction theorems are about an operator given as a parameter, which the
prover cannot instantiate. Its theorem about least elements is about a set and can be used:
`LeastOf` says that a set of numbers that is not empty has a least, and `FromSmaller` and `FromBefore`
are complete and plain induction for a set of numbers. A recursive function is a CHOOSE of something
that satisfies its equation; so each one used here first gets a lemma that something does
(`WalkExists` and `RunExists` here, `LowExists`, `SumsExist`, `WithinExists`, `TreesExist`, `LevelsExist`,
`EuclidExists` and `FoldsExist` for `DataProofs`; those over the naturals are cases of `Recursion`, those
that go on at a later position of a text of `WalkExists`), by induction over how far down it is defined,
and then it may be computed with. Only sets, folds and functions are within reach this way: a
RECURSIVE operator is not.

*MySQL* (`MyInv`). `RunsOnce` says that no statement is committed twice; in itself it is not
kept by a retry. `MyNumbered` adds that the statement of a call that is on its way is neither kept,
pending nor counted for its block: query() and run() send again only what the server cannot have
done, for what they repeat is the BEGIN, COMMIT or ROLLBACK, or the preparation. For `AtomicUnlessBroken`,
`MySession` says that a transaction is open only in the session the library knows of, and
`MyBlocked`, for a block that began and saw no new session, where its statements are at each of its
states: in the open transaction until the COMMIT, then all or none of them kept. A BEGIN that was
refused or never answered and a ROLLBACK that was refused mark the block as `broken`: the code goes on
after the first as if it were inside a transaction, so that each statement is kept alone, and
leaves the transaction open after the second, for the next BEGIN to commit. The theorem is about
the other blocks.

*PostgreSQL* (`PgInv`). The same with one more piece of state, the unnamed statement of the session:
`PgCalled` says that between its prepare and its execute a call finds its own query there, and
`PgBlocked` that a block none of whose calls threw has its session, that the transaction has not
failed, and that its statements are pending until it commits. A held statement that is
executed later runs what the unnamed statement is then; so `PgBlocked` also says which it can be.

*intern* (`InternInv`). `IdsExact` is about ids handed out; inductive is that both tables of each
object are inverse to each other, with the ids 0 to the size less one, and that what was handed out is
in them. The sets are finite, so the size of the table is the next id, which is where a key that is
new gets its number.

*stream_socket* (`StreamInv`). `StreamOut`: what was sent comes before what is buffered, and both
before what is still to be made, each in order; `StreamIn`: what was read comes before what is
buffered, that before what is on the wire, and all before what the peer has yet to send; there
is a wire only while connected, which is why a read buffer that survives a reconnect is still in front
of what comes. `WriteReportExact` compares the set of the bytes of a call that were taken (sent or
buffered) with the first `result` of them; the lemmas about cutting and joining ascending
sequences of numbers carry it through the write that fills, flushes and sends the rest itself.

*lru* (`LruInv`). `RecencyList` has the keys in the order of their uses; the code has a time for each, in
the map and in the index. `LruAgree` says that the index has the one pair of each entry of the map,
and that all times are below the clock. Such a set can be put in order in exactly one way
(`LruInOrder`, for the place of a pair is how many are before it), and that it can be at all is part
of the invariant, since the prover has no induction over finite sets: `LruDrop` and `LruAdd` make the order
after a step of the one before. Then every use is a drop and an add, and `LruEvicts` says that what set()
throws out is the head of the list or nothing.

*csv* (`CsvAll`). Reading is the inverse of writing because each function of the parser, started where
something of the writer's stands, ends where the next thing stands (`Stands(s, j, u)`: `u` is in `s` from `j`
on). So, from the inside out: two quotes for one are undone (`UnquotedDoubled`); a quoted text is closed
by its own last quote, whatever it has inside (`QuotedEndFound`), and a plain one ends at the first sign
(`FieldFound`); a row is its fields and stops at the end of its line or of the text (`RowFound`); the table is
its rows (`ParseFound`, `RowsAreKept`), with either end of line, and without one behind the last row unless that
is empty. Each of the recursions gives a value of its type for any text at all (`WalkTyped`), which
is what the iterators need: `RunInv` says that the rows of the copies left so far, the one the iterator is at
and those still ahead of the parser are the rows of the text, so that a copy that went on showing the
parser's row would break it at the next increment (`CopiesAreKept`). An unclosed quote and a carriage
return at the very end are where `ok` is FALSE; the theorem says nothing of their rows.

### DataProofs

It rests on the same assumptions, and is about what else is read recursively, by the same induction.

*fenwick_tree* (`TreeInv`). Each number of the tree is the sum of its part: from where query() goes
on, excluded, to its own place. `LowBit`'s equation gives what a power of two does to the place
after (`UpInside`, `UpOutside`), hence `PathIs`: the places increase() visits are just the ones whose part
has the increased number. `TotalSplit` joins adjacent sums, so query() adds up a prefix (`QueryIs`) and
the difference of two prefixes is the range. Sums are the library's, which pick elements in any order;
`TotalAdd` is that the order does not matter. The theorem has no bound on the size.

*json* (`JsonInv`). `ClonesApart` says nothing about who else points into a clone, and would not be
kept. Inductive is `Apart`: nothing outside the value of `x` leads into it, neither another variable
nor a value that is not part of it. So what does not go through `x` neither changes it nor
gets hold of it (`Unreached`, one lemma per operation), and the collection of unused values takes
none of it (`ApartCollected`). `Tree` of what is left is the same since two heaps that match place by
place from two cells show the same (`AlikeSame`, by induction over how much is below). For clone() itself
`WithinIs` shows that the ways through a value without cycles are finitely many, `CopyIs` that
each gets a cell of its own, `CopyOk` that the copy is closed and has no cycle, and `CopyShows`, with
the way as the match, that it shows the original. The sharing within the original is not
kept, which json_value::clone() does not do either.

*ratio* (`RatioHolds`). The gcd is taken as a common divisor that is a sum of multiples of both
(`IsGcd`); `GcdOfRest` is the step of Euclid's algorithm, `EuclidIs` that the loop returns it. Of two numbers
without a common divisor, 1 is such a sum, so products of such numbers are again (`CoprimeProduct`), and
a fraction in lowest terms is determined by its value (`LowestUnique`), which is why `==` may
compare the fields. From that each operator is exact and keeps the lowest terms (`PlusIs`, `TimesIs`,
`OverIs`), whatever the order in which it changes its own fields.

*vectors* (`ClassLawsHold`). The laws are proved once, for the instance `OfDim(n)` of `Vector` in any
dimension; the twelve classes are instances of it. `%` is not of that kind: only `vector2` and
`vector3` have one that can be used, so its laws stand in `MathTypes` for these two. The order is by the first component in which two
vectors differ (`VectorOrder`, with `LeastOf`); inner products are additive by `TotalPlus`; the laws
of the outer products are identities of polynomials.

*database values* (`SqlReadBackAll`). Kind by kind: the columns that each server has for a value
(`MyColumnsAre`, `PgColumnsAre`), what is kept in them (`KeptByMysql`, `KeptByPostgresql`: a bool as
a number, ten digits of a float, a fraction of a timestamp without its last zeros), and what a
variable of each kind takes from that (`Taken`, `SqlTakes`), an exception or the empty text
included; the numbers between the limits of the two integer types are what `Narrowed` throws for. Of a
timestamp of whole seconds, where value.cpp:107 passes NULL on, the theorem says nothing but that what
comes is undefined. *Rows*
(`RowsWhole`). `FoldIs` is induction over a fold; along the rows the buffer is never smaller than the
text just read, so each arrives whole, whatever came before it.

`MathExactHolds`, `SqlReadBackHolds` and `CsvExactHolds` come from `InputInv`: an input is a sequence of the items of
its part, of any length. The lemmas are about all integers, vectors, values and texts, so the
bounds of the inputs do not matter to them.

### What stays with TLC

- Every liveness property (`CallsEnd`, `WaitsEnd`, `StopsEnd`, `CallsProgress`): the
  prover has no fairness and no ENABLED.
- The invariants of `Formats`: `UriExact`, `TextExact`, `JsonReadExact`, `CastExact`,
  `StringsExact`, `HttpExact`, `EncodingsExact`. `JsonText`, `JsonCast`, `Strings`, `Http`,
  `Serialization`, `Codes` and `MCFormats` are written with RECURSIVE operators, over texts and nested
  values, which the prover refuses in any module it is to reach. `Uri` and `Ustring` are checked by
  the same run and stay with them.
- The properties that a run refutes (section 4), and with them the arguments that the theorems
  exclude: quantities other than 1 of qsem, the non-blocking read lock.

## 6. What the properties leave out

Each of these is code whose behaviour at an edge no line of the repository promises
anything about. The models keep the edge out, or have it without a property.

- `condition::wait` on an r_mutex by a thread that does not hold it returns at once.
- `cached_dns_resolver` with `max_size` <= 0 (`MaxSize` is positive).
- `rpc_server::start()` again while threads of the last run are still in process().
- `mprpc::rpc_server::run()` between the two steps of a `stop()`: its threads then turn
  on accept() of a closed socket (`RunTest` keeps the two apart).
- `object_stream::write()` that times out half way leaves a torn message.
- `stream_socket`: options and timeouts of the descriptor, the list of addresses that
  connect() tries.
- `rpc_server::stop()` that is left by an exception of its own calls (see Fairness).
- `http`: a byte 0xff in a chunked body is read as its end, since the buffer of that reader is
  of char (base.cpp:252); elsewhere it is a byte as any. When the connection ends inside a
  chunk, the incomplete block of the buffer is dropped. A header that a program gives a request
  is taken as it is: "chunked" or a wrong length make a request that cannot be read. (That an
  empty body reads what follows on the connection, and the two empty entries in the header
  that was read, are in the model and in `HttpExact`.)
- `uri`: parse_userinfo (uri.cpp:329) steps over an encoded character in one go and
  then over one more.
- `csv`: an unterminated quote or a "\r" at the very end is read past the end of the
  text, the character after a lone "\r" is skipped, and the terminator may go one
  behind the buffer. `CsvExact` is about texts whose rows end in "\n".
- `base64_decode` ignores what follows the first "="; `code_encoder::byte()` after a part
  of a word; `get_len(0)`; the decoder reads eight bytes at a time, past its input.
- `serialization`: a truncated stream object reads for ever, a wrong length allocates as
  much, and a set of scalars reads an element that is not initialised first. A stream that held
  something is written over and not replaced (`EncodingsExact` says by what); copies of
  a `stream` share one file, and none is put into a container. The order in which unordered
  containers are written is left out.
- `SqlValues`: ten arguments are written to a vector of nine (statement.h:157-167); a
  fetch_row of eight columns or more asks for one column less; a null is sent to MySQL as an
  empty value. PostgreSQL's fractions of seconds are misread, a text in some columns reads as ""
  or throws, and from_sql to a string of another type is "": `SqlReadBack` states these as they are.
- `Mysql`: after a reconnect inside a block the later statements commit on their own
  and a BEGIN, COMMIT or ROLLBACK that is refused is not noticed (`AtomicUnlessBroken` is about
  blocks whose session lasted and whose BEGIN and ROLLBACK were not refused); errors of the server
  that end the whole transaction, such as a deadlock, are not modelled but for COMMIT;
  prepare() on a closed handle passes NULL.
- `Postgresql`: execute() of a statement prepared earlier runs whatever was prepared
  last; the model does so, without a property about it.
- `JsonText`: a float out of the range of double (ERANGE, parser.cpp:285-291) throws; the numbers of
  the model have no such limit. `JsonCast`: the default of an optional member is lost.
- `vector2` to `vector10`: `%` of the array classes of two and three dimensions
  (vector.h:281-283, 612-614) names components x, y and z that they do not have, so that a use of it
  does not compile, and the model has none; operator[] out of range; `>>` that
  fails has assigned already. `ratio`: `a /= a` on one object, and division by zero.

## 7. Coverage of the hazards

Every hazard of `PROJECT.json` but three has a property: `max_size` <= 0,
run() during stop(), and PostgreSQL's unnamed statement are in the list above
with the reason. Read locks that are nested behind a waiting writer block for ever, as
pthread documents for the kind of lock the code asks for; callers of the model nest none.

## 8. Not modelled

- `thread`: a running flag over pthread_create, join and detach, used by the servers
  in the one order it admits.
- `singleton`: one creation under a mutex.
- `cgi`: an accept loop that never ends, without shared state, and formatting of pages.
- `ipv4_address`, `optional`, the hashes, `config_file`, `xhtml`, `lang/`: values, wrappers
  and formatting without state of their own.
- `system/`: wrappers of system calls.
- `rpc/reflect.h`, `serialization/reflect.h`: names of types as text.
- FFT, random numbers, the rounds of md5, abs() and normalize() of the vectors: numerics
  beyond integers of TLC.
- result cursors, encodings and parameters of the database connections.
- `tools/genrpc`: a text generator. Build scripts and documentation.

## 9. What could follow

Every safety property, action property and refinement of `CondMutexRecursive`, `PcBuf`, `Sync`, `Chan`,
`Servers` and `Stores` is proved, those of `Formats` are model-checked. What would come next:

1. `Ustring` and `Uri` on their own, apart from the modules with RECURSIVE operators: the decoder and
   encoder of UTF-8 are inverse to each other for each character, and the rest by `FoldIs`.
2. The integer codes of `Codes` and the archives of `Serialization`, after their recursion over bytes
   and types has been written with functions.
3. `thread` and the connection classes of `cgi`, should the library document what they promise.
