# A verification project for thestral

thestral is a SOCKS5 proxy server in C++ on boost::asio.  It listens for SOCKS
clients over TCP or TLS, serves the CONNECT command, and reaches the target
either directly or through another SOCKS proxy, again over TCP or TLS.  This
directory holds TLA+ models of its core, TLC configurations that check them on
small instances, and proofs, checked by TLAPS, that the main safety properties
hold for every value of the constants.

Paths below are relative to the repository (`src/` in `PROJECT.json` is the
repository root, so `src/src/socks_server.cc` there is `src/socks_server.cc`
here).

## 1. Inventory

| component | state | operations | talks to |
|---|---|---|---|
| `SocksTcpServer` (`socks_server.*`) | the sessions, kept alive only by the handlers bound to them | `Start`, `HandleNewConnection`, `ReceiveRequestPacket`, `HandleRequest`, `ResponseError`, `StartRelay` | transport factory (accept), packets, upstream factory |
| relay (`StartRelay`) | per direction one buffer of `kRelayBufferSize` and one outstanding operation | read handler, write handler | two transports |
| TCP transport and factory (`tcp_transport.*`) | a socket; an acceptor | `StartRead`, `StartWrite`, `StartClose`, `StartAccept`/`DoAccept`, `StartConnect`, `TryConnect` | asio |
| TLS transport and factory (`ssl.*`) | a TLS stream over a socket; an acceptor | the same, with a handshake | asio, OpenSSL |
| `DirectTcpUpstreamFactory` (`direct_upstream.*`) | a resolver | `StartRequest`: resolve, then connect | TCP factory |
| `SocksTcpUpstreamFactory` (`socks_upstream.*`) | cached endpoint, atomic flag, mutex | `StartRequest`, `SendAuthRequest`, `SendSocksRequest` | transport factory, packets |
| packets (`socks.*`, `base.*`) | none | read and write of each SOCKS packet | transports |
| logging (`logging.*`) | global list of sinks, a mutex and a level in each | `add_*_sink`, `Logger::Log`, `~LogRecordProxy`, `PushRecord` | called from everywhere |
| `MainApp` (`main_app.*`, `main.cc`) | io_service, servers | set up logging and servers, `io_service::run()` | all |

How they interact: everything runs in the callbacks of one `io_service`.
`MainApp::Run` calls `run()` once, from one thread, and nothing around it catches
an exception.  A server asks its transport factory for connections and is called
back for each; it reads packets with `StartCreateFrom`, asks the upstream factory
for a transport with `StartRequest`, answers, and lets `StartRelay` copy both
ways.  An object lives as long as a pending handler refers to it.  The upstream
factory and the logger are written for several threads (a mutex and an atomic
flag; a mutex per sink), although the program itself has one.

What is hard here:

* *Interleaving.*  A relay has two directions with an operation each; one may
  close both transports while the other has an operation outstanding, or completed
  and not yet handled.  Threads race through the double-checked initialisation of
  the upstream endpoint and through the sinks' mutexes.
* *Failure.*  Every operation may fail; the results of relayed writes are ignored;
  a client may be reset between the completion of an operation and its handler;
  descriptors run out.
* *No timers.*  There is no timeout anywhere: whatever must end has to be ended by
  an event.
* *Shared fate.*  The accept loop, the descriptors, the one thread and the process
  are shared by all sessions.

What makes each part correct:

* relay: a duplex pipe, closed once at both ends, that delivers what was sent
  before the end of a stream, holds a bounded amount and is released;
* server: the SOCKS conversation, whatever a client sends; no transport forgotten
  on any path; sessions that end are reclaimed; clients in the backlog are accepted;
* upstream factory: one result per request, a transport has exactly one owner, the
  endpoint is initialised once and published safely, the mutex is always released;
* packets: reader and writer agree on every field and on where a packet ends, a
  read never asks for more than the packet, and the reader is told;
* logging: the same order in every sink, no deadlock, a FATAL record is logged
  before it is thrown, patterns of a format are replaced;
* process: nothing is served before everything has been started, one session at a
  time keeps the thread, chains and circles of servers on it answer every request,
  the end of one session of a chain reaches the others, and a process that accepts
  nothing any more ends.

`PROJECT.json` lists each hazard at its line, with the properties that cover it.

## 2. Modules

| module | models | proofs |
|---|---|---|
| `Streams` | the ends of a session, byte streams | |
| `Pipe` | *abstract*: what a session promises to its two ends | |
| `Relay` | `SocksTcpServer::StartRelay`, reads, writes and closes of both kinds of transport | `RelayProofs` |
| `SocksSession` | *abstract*: what a server promises to each of its clients | |
| `SocksServer` | the accept loop and the sessions of one `SocksTcpServer` | `SocksServerProofs` |
| `UpstreamContract` | *abstract*: what an upstream factory promises to the server | |
| `SocksUpstream` | `SocksTcpUpstreamFactory` over either transport factory | `SocksUpstreamProofs` |
| `SocksPackets` | `Serialize` and `StartCreateFrom` of every SOCKS packet | `SocksPacketsProofs` |
| `MainApp` | `main`, `MainApp`, and the servers with both upstream factories on the one thread | `MainAppProofs` |
| `Logging` | loggers and sinks | `LoggingProofs` |
| `LogFormat` | the formats of sinks | |
| `MC*` | constants for TLC | |

### Relay

A direction is named by the side it reads from.  `op[s]` is its outstanding
operation: `read` and `write` wait for asio and the peer, `readOk`, `readErr`,
`writeOk` and `writeErr` are completions that wait for their handler, `none` is a
direction that is over.  A completion (`ReadSome`, `ReadFails`, `WriteSome`,
`WriteFails`) and its handler (`RelayClose`, `RelayForward`, `HandleWrite`) are
separate steps, because the other direction's handler may run between them.  A
handler is one step, because one thread runs them all.  A write goes out in pieces
(`async_write` is a loop of `write_some`), a read may be short.  The i-th byte a
peer sends is the number i, so every loss, repetition and reordering shows.

`TcpTransportImpl::StartClose` closes the socket; `SslTransportImpl::StartClose`
only starts the TLS shutdown.  After it the engine takes no more data to write, but
a read completes only when the peer sends or leaves: `Readable` and `WriteFails`
say so, and `kind[s]` says which side is which.

Peers are free to send, to end their stream, to reset it, and to stop reading for
good (`Stall`).

### SocksServer

A session has one outstanding operation at a time until it relays; `phase[c]` names
it.  A step is the completion of that operation together with the whole handler.
Since a reset may arrive between the two, a handler that asks for the client's
address can find it gone: `GetRemoteAddress` then throws, the exception leaves
`io_service::run()`, and the process ends (`fate`).  The accept loop is `acc`; a
TLS listener is in `handshake` from a connection until the end of its handshake and
accepts nothing meanwhile.  `Fds` counts the sockets of all sessions against
`MaxFds`.  An accept that fails for want of a descriptor ends the loop, and the
connections of the backlog with it.  The upstream is what its callback reports
(`Outcome`, the results of `UpstreamContract`).  Of the relay, whose detail is in
`Relay`, two steps are left: its end (`RelayEnds`), and a peer that stops reading
(`RelayStalls`), after which a write is outstanding and the end of the other peer may
never be noticed.  `Reclaim` excepts such a session, as `Teardown` does, and one whose
SOCKS upstream keeps silent.  The messages of a client are a set of at most one TLS hello, one offer and one request,
sent in order and as early as the client likes: each is a packet that is read whole
or not at all, so nothing else of the bytes matters here.

`conf.upstream = "socks"` is the SOCKS factory over TCP.  Over TLS it may call back
twice (section 6); that is a run of `SocksUpstream` and is not carried into the
server.  The descriptor of an upstream counts from the moment it is connected.

`SocksSession` is the same seen by the clients: a connection each, what they were
told, and whether there is an upstream for them.  Phases, descriptors, the accept
loop and the process are not in it; `conn` is the session's transport, closed as soon as
a TLS shutdown has begun.  Every step of it is about one client.

### SocksUpstream

`pc[r]` walks a call of `StartRequest` through the code.  Reads and writes of the
flag, of the endpoint and of the mutex are separate steps, up to the asynchronous
connect; the handlers of the handshake share nothing and are one step each.  The
`lock_guard` releases the mutex in `Unlock` on every path; `calls[r]` records every
call of the request's callback, in order, so that a second call is visible.
A response whose bound address has an unknown type ends in `dropped`: the parser of
the address calls nobody.  A bound host name of 254 or 255 bytes throws out of the
handler and ends the process; for this model that is an execution that stops.
A connect that finds no descriptor (`OpenFails`) ends it too with the TLS factory
(`fate`), which sets an option of the socket after it has called back.
`connected` remembers the endpoint `TryConnect` connected to, and `StoreEndpoint`
what the code caches.

`UpstreamContract` is the same seen from the server: the transport belongs to the
factory until the request has its result, and to the server afterwards.  Two
weaknesses of the code are part of it, because a server has to live with them: a
failure may come with a success code (`null`), and over TLS a second time.

### SocksPackets

A peer writes one packet as `Serialize` does and `Following` bytes after it; the
bytes arrive one by one and the stream may end anywhere.  `stage` is the read of
`StartCreateFrom` that is outstanding, `want` its size and `taken` what the reads
before it took.  Every handler is an action; it stores the fields it decodes in
`got` and starts the next read, or calls back.  Bytes are numbers from 0 to 255, the
length of a host name wraps at 256 as `uint8_t` does, and the port is put together
from its two bytes.  `result` is what became of the callback: called with success
or an error, `lost` (an unknown address type calls nobody) or `thrown` (a host of
fewer than two bytes cannot give up its port).

### MainApp

The start-up is one action per step of `main` and `MainApp::Run`: the automaton
over the arguments, one argument at a time (`i` and `state` are its local
variables), the file, the log section, one round of the loop per server.
A configuration is a record of what the code looks at; a server is checked in the
order of the code (`ServerChecks`), and the first of its `Failures` decides between
an exit with a message (`exitFailure`) and an exception nobody catches (`abort`).  A server
whose address does not resolve stays `off`; one whose address cannot be bound ends
the process.

After that, sessions: `<<k, 1>>` is the session of client k, at server `at[<<k, 1>>]`.
When the upstream of that server is a server of the same process, its connection is
the session `<<k, 2>>` there, and so on; the answer of a session waits for the outcome
of the next one (`There`).  Nothing in the code keeps a server from being its own
upstream, directly or in a circle, and then a request goes round until a connection
fails: `MaxHops` stands for the descriptors that bound it.  `Free`
says that the thread is in `io_service::run()`; a first request through a SOCKS
upstream keeps it in `resolve`, `try` and `tryTls` (`Sync`), and nothing else runs
meanwhile.  The kernel, however, goes on completing connections, so that `Try` can
connect to a server whose handlers are stopped.  `Dies` stands for the exceptions
that `SocksServer` describes.

Each session ends in a handler of its own (`RelayEnds`): a client's or a target's end
may come at any time, also before the first session of a chain has its answer, and
the session next to one that has ended reads that end for itself, unless it is
`stuck` in a write.  StartClose of a TLS stream is not over with the session: the
shutdown stays in `shutdowns` until the peer acts, and `run()` does not return before.

`ThreadKept` and `Chained` relate sessions to each other: which of them may keep the
thread, and what a session knows of the one made for it.  `Unwinds` has it that the end
of one session reaches the others.

### Logging and LogFormat

The destructor of `LogRecordProxy` locks the sinks one after the other, pushes the
record into each, and holds all locks to the end: a round of its loop is
`PushNext`, the releases are `Unlock`, one by one in any order, and `Return` throws
when the record is FATAL.  `pushed[i]` is what sink i was given and `stored[i]` what
it kept by its level (`PushRecord`).  Before that, `Log` writes the structure that `localtime` shares
between all threads and `Stamp` reads it.

`LogFormat` is the compilation of a format into constants and keys, as a recursive
function over its matches, and what a sink writes for it.  A format is a sequence of
tokens: braces, words (whole runs of the characters of keys) and other text.
`PatternsReplaced`
compares it with a definition that looks at each position of the format by itself.

## 3. Runs

| run | instance | shows |
|---|---|---|
| `relay_session` | 3 bytes per direction, a buffer of 2, TCP or TLS client | `StreamIntegrity`, `Drained`, `Backpressure`, refinement of `Pipe` (`PipeSpec`), `Teardown`, `Release` |
| `server_sessions` | 2 clients, 2 descriptors, TCP listener with a direct upstream or TLS listener with a SOCKS upstream | `Conversation`, `OpenWhileServed`, refinement of `SocksSession` (`SessionSpec`), `Reclaim`, `Answered`, `Accepted` |
| `upstream_requests` | 3 requests, 2 endpoints, TCP or TLS factory | `SafePublication`, `Ownership`, `CachedIsConnected`, `InitOnce`, refinement of `UpstreamContract` (`ContractSpec`), `LockGranted` |
| `packets` | packets of each kind, hosts of 0 to 255 bytes, ports at the edges, unknown address types, 3 bytes behind the packet | `InSync`, `WithinPacket`, `PacketTold` |
| `main_app` | 2 clients, up to 3 sessions for each, 21 configuration files with up to 3 servers, command lines of up to 4 arguments | `AllStarted`, `ThreadKept`, `Chained`, `CommandLine`, `Served`, `Unwinds`, `NoZombie` |
| `logging_threads` | 2 threads, 2 records each, 3 sinks with levels 1, 4, 0; formats of up to 7 tokens | `SameOrder`, `StoredInOrder`, `FatalIsLogged`, `StoredAsFormatted`, `LogReturns` |
| `server_reset`, `upstream_cached_endpoint`, `upstream_ssl_connect`, `upstream_method_refused`, `packets_long_host`, `logging_time` | small | disagreements, section 6 |

Each passing run checks its module's `TypeOK` too.  `Next` may come to an end in
every model (the peers are done, the process has ended), so deadlock is not
checked; that something still happens is what the liveness properties say.

Why the bounds are enough.  A relay buffer of 2 and 3 bytes give a full buffer, a
partial one, a short read, a write in two pieces and a second round of the loop in
the same direction while the other direction is anywhere.  Two clients are enough
for one session to hold up another, and 2 descriptors let one session, but not
two, have an upstream, so that `accept` and the upstream compete for the last one.
Three requests put one into the critical section, one behind it and one past it
with the flag already set.  Two threads and three sinks allow two threads to wait
for each other, and the sink in the middle stores the least.  The packets are the
real ones, at the real widths; lengths and ports are the values at which something
changes (0, 1, 2, 127, 253 to 255; 0, 255, 256, 65535).  The configuration files have
every way for a server to reach a target, one mistake of each sort, a chain of
three servers, so that a session waits for one that waits for a third and the one in
the middle can lose either neighbour, and a circle, which comes back to its first
server within `MaxHops`; two clients let one keep the thread while the other is
anywhere.  Formats of 7 tokens have two patterns, side by side, with text between
them, or with text before or behind.  What the safety properties
say, formats apart, is proved without bounds (section 4).

### Fairness

* Relay: asio completes what can complete and runs every queued handler (weak
  fairness of each completion and each handler).  The peers promise nothing: an
  end of stream, a reset or a reader that wakes up is never assumed.  `Teardown`
  and `Release` therefore name the peers that can prevent them.
* Server: the io_service runs every handler whose operation completed, per
  session; the accept handler as a whole (the kernel may take the backlog in any
  order).  The upstream's callback is fair with the direct factory only: the
  kernel gives up a connect that nobody answers and the resolver times out, whereas
  a SOCKS proxy may keep silent for ever.  Clients and targets promise nothing, and a
  relay with a write outstanding to one that does not read is not assumed to end.
* Upstream: threads run; a mutex that stays free is given to a waiter (weak
  fairness, since a request takes the mutex once and the contenders are finitely
  many); the synchronous resolve returns, and so does a TCP connect.  The TLS
  handshake in `TryConnect` is not assumed to.
* Packets: the io_service runs the handler of a read that has completed.  The peer
  need not send its packet, nor end its stream.
* Process: the start-up goes on, handlers of completed operations run, `run()`
  returns when nothing is outstanding; the synchronous resolve and TCP connect
  return and the kernel gives up a connect that nobody answers.  A session of the
  process sends its request, passes an answer on, and reads the end of a session next
  to it unless it is stuck in a write; clients, targets, proxies elsewhere and TLS
  peers promise nothing, and `Served` and `NoZombie` name them (`HeldUp`).  Neither is
  a TLS server of the process assumed to give up a session that greets it in plain
  text: the greeting is shorter than what the handshake waits for.  A failed accept,
  a client that leaves, the end of a shutdown and an exception are never assumed.
* Logging: a thread inside `Log` or the destructor runs.

## 4. Proofs

`RelayProofs`, for every `MaxBytes`, every `kRelayBufferSize` above 0 and every set
of transport kinds (`RelayAssumption`):

* `RelayTyping`, `RelayIntegrity`, `RelayDrained`, `RelayBackpressure`:
  `Spec => []P` for the four invariants;
* `RelayImplementsPipe`: `Spec => PipeSpec`, the refinement of `Pipe`.

`StreamIntegrity` alone is not inductive: after a failed write the direction reads
on, so bytes are skipped, and it is only because no write can ever succeed again
that the output stays a prefix.  The inductive invariant is `IInv`: typing, and for
each direction `StreamInv` (the output is the first `Len(out)` bytes of the
stream), `BufferInv` (while the transport written to works, output and buffer
together are exactly what has been taken, and the buffer is no longer than
`kRelayBufferSize`) and `OpInv` (which operations go with an empty buffer, and that
an error on a transport that works means the end of the stream).  "Works" is stable
in one direction: once a transport is closed or reset it stays so, which is why a
skipped byte can never be followed by a delivered one.

`SocksUpstreamProofs`, for every set of requests and every number of endpoints
(`UpstreamAssumption`):

* `UpstreamTyping`, `UpstreamSafePublication`, `UpstreamOwnership`,
  `UpstreamCalledOnce`, `UpstreamCachedIsConnected`: `Spec => []P`;
* `UpstreamInitOnce`: the action property `InitOnce`;
* `UpstreamImplementsContract`: `Spec => ContractSpec`, the refinement of
  `UpstreamContract`.

The invariant is typing, `LockInv` (the mutex is held by exactly the requests in the
critical section, and by one at most), `CacheInv` (the flag implies the endpoint;
between the two assignments the request about to set the flag is in `publish`) and
`RequestInv` (by location: what transport a request has and what it has reported).
`InitOnce` and `CachedIsConnected` need all of the first three (`NothingStored`): a
second `StoreEndpoint`, or a `TryConnect` after it, would have to find the flag unset
and the endpoint set, hence a second request in the critical section.  The contract
needs `RequestInv`: the step that reports a result finds none reported.  `CalledOnce`
puts together what `Ownership` and the contract say of the TCP factory, and has no run
of its own.

`SocksServerProofs`, for every finite set of connections, every limit on the
descriptors and every mix of factories (`ServerAssumption`): `ServerTyping`,
`ServerConversation`, `ServerNoOrphanUpstream`, `ServerOpenWhileServed`, and
`ServerImplementsSession`: `Spec => SessionSpec`, the refinement of `SocksSession`.

`Conversation` is not inductive: it does not say what the session is about to reply, nor
that a reply still has room.  The invariant says by phase what a session has
(`TransportInv`), what it and its client have said (`TalkInv`), and, when it is over,
at which point the conversation was left (`OverInv`); `SaidInv` has it that a client
offers and asks once.  Only two sorts of step need an argument, a handler of the
session (`HandlerInv`) and its client (`ClientStepInv`); handlers of other sessions are
shown to leave it alone (`HandlerFrame`), which is the claim that sessions share only
the descriptors, the accept loop and the process.  `NoOrphanUpstream` is a corollary of
`OpenWhileServed` and has no run of its own.

The refinement rests on the same invariant and has three sorts of step.  A client that
sends is `Say` (`ClientImplements`).  A handler of session c is a step of c or invisible
(`HandlerImplements`): it is a `Close` wherever an error path ends the session without
a reply (`CloseImplements`) and a `Refuse` where the reply is the last
(`RefusalImplements`), and `TalkInv` supplies what `SocksSession` asks for, that the
reply is due and true.  The accept loop and the end of the process move no connection
(`SessionStutter`).  That a reply is never withdrawn, that a closed connection stays
closed and that a handler touches one client's connection follow from it.

`SocksPacketsProofs`, for every set of packets of the three shapes with lengths that
fit their fields, and any bytes behind them (`PacketsAssumption`): `PacketsTyping`,
`PacketsInSync`, `PacketsWithin`, and `PacketsTrueResult`, the safety half of
`PacketTold`.

First, lemmas on what `Serialize` writes: where each field of a packet is in the bytes,
for every length of methods and host (`MethodsBytes`, `SelectBytes`, `AddressBytes`),
and that a port is its two bytes (`PortBytes`).  The invariant then says, by the read
that is outstanding, how many bytes have been taken, how many are asked for and which
fields have been decoded (`ReadInv`), and what each result means (`ResultInv`).  The
sum in eight bits in `StartReadDomain` (`LengthSum`) is where the argument needs the
code's own weakness: the sum never exceeds the true one, so that no read leaves the
packet, and where it wraps the port cannot be taken out, so that nothing wrong is
reported either.

`LoggingProofs`, for any threads, any number of sinks above 0 and of records, and any
levels (`LoggingAssumption`): `LoggingTyping`, `LoggingSameOrder`,
`LoggingStoredInOrder`, `LoggingFatalIsLogged`.

`SameOrder` needs to know by how much an earlier sink is ahead: by exactly the record
of the one thread that is between the two (`OrderInv`), and that there is one such
thread at most follows from the mutexes, which a destructor holds in a row from the
first sink on (`LockInv`).  `StoredInOrder` is about positions in two sinks whose levels
differ, so it does not follow from `SameOrder` by itself: a record that is pushed is
new to the sink (`NameInv`, records are named by thread and number) and, where it is
already stored, the last (`KeptInv`), so that it comes last in every sink that has it.

`MainAppProofs`, for any clients, number of servers, command lines and files
(`MainAppAssumption`), with upstreams that lead anywhere, in circles too: `AppTyping`,
`AppAllStarted`, `AppThreadKept`, `AppChained`, the action property `AppCommandLine`, and
`ChecksExact`.

`ChecksExact` is about the start-up checks alone: of all server sections, `Failures` is
empty for exactly those that are well formed.  `AllStarted` follows with `StartedInv`
(what has been checked by the time an acceptor is made, `run()` is called, or a session
is busy) and `SessionInv` (no session at a server that was not started, without which the
end of a handshake could reopen an acceptor that never was).  For `CommandLine` the
invariant of the automaton is `LineInv`: its state is the parity of the position, all
odd places so far hold flags, and the name it keeps is the argument just read.

`Chained` is not inductive: before a session has been connected it says nothing of
the one to be made for it, and a failure to connect would leave whatever is there.
`LinkInv` adds, for a session and the next, that there is no next one before the
connection is made and none where the upstream is elsewhere, and that a session which
keeps the thread with a TLS handshake has its peer in the backlog: that peer could
only be accepted by the thread, so the handshake never ends.  `SessionEffect` has it
that every action of a session either goes on alone (`Goes`) or joins its upstream
(`Joins`); `GoesInv` and `JoinsInv` show what either does to the session itself and to
the one before it, which is the only other one that sees it (`ThereMoves`).  That is all
a circle needs, since a session is named by its place in the chain and not by its
server.  `ThreadKept` is inductive with the guards alone: whoever takes the thread
finds it free and the endpoint not cached, and only the session that has the thread
caches one.

Only model-checked:

* liveness under fairness, which is out of the prover's reach: `Teardown`, `Release`,
  `Reclaim`, `Answered`, `Accepted`, `LockGranted`, `PacketTold`, `Served`, `Unwinds`,
  `NoZombie` and `LogReturns`;
* `StoredAsFormatted`, with `PatternsReplaced`: what `SetFormat` computes is a recursion
  over a string, and the library's induction theorems cannot be used with the installed
  provers.

## 5. Not modelled

* What OpenSSL does with the context that `SslTransportFactoryBuilder` fills; only
  the builder's calls that may fail are in `MainApp`.  `Build` returns nothing when
  it is called twice, which `MainApp` never does.
* The text of log records, addresses, enums and configuration files; attributes of
  loggers and records, which only the thread that owns them touches.
* The reserved byte of a header, which is written as 0 and ignored when read; its
  place in the packet is modelled.
* Adding a sink while others log: `MainApp` adds them all before.
* In `MainApp`: the second callback of a failed TLS connect (`upstream_ssl_connect`),
  and the callback of `DirectTcpUpstreamFactory` for an address of unknown type, which
  cannot be reached, since the packet is dropped before.
* Transport ids, which are only logged.
* Test doubles in `tests/`.
* The relay assumes of TLS that the engine delivers in order, and of asio that an
  operation on a closed socket completes with an error.

## 6. Where the code and what is said of it disagree

Each is a run whose property TLC finds violated; `PROJECT.json` quotes the lines.

* `server_reset`: a reset at the wrong moment makes `GetRemoteAddress` throw, which
  ends the process and with it every session.
* `upstream_cached_endpoint`: the TCP factory's `TryConnect` does not advance the
  iterator, so the first endpoint is cached and not the one that was connected.
* `upstream_ssl_connect`: the TLS factory's `StartConnect` calls back twice when the
  connect fails.
* `upstream_method_refused`: when the proxy refuses the method, the callback gets
  success and no transport.

* `packets_long_host`: the length of a host name plus the two bytes of the port is
  kept in eight bits, so names of 254 and 255 bytes leave no room for the port, and
  taking the port out of the string throws.
* `logging_time`: the time of a record is taken from a structure that all threads
  share.

`upstream_ssl_connect` and `upstream_method_refused` are why `CalledOnce` is about
the TCP factory and why the server's `Outcome` has a null transport.  Further ones
are exceptions in the statements of passing properties and have no run of their own:

* an address type the code does not know is to be "handled outside"
  (`src/socks.cc:103`), but the callback is dropped: the client is never answered
  (`Untold` in `PacketTold`), and neither is a request whose proxy answers that way
  (`ResponseDropped`);
* a TLS listener accepts the next connection only after the handshake of the
  previous one, and nothing bounds a handshake (`acc = "handshake"` in `Accepted`,
  `HeldUp` in `Served`);
* a listener that failed one accept stops for good (`acc = "stopped"`);
* a server whose SOCKS upstream is a TLS server of the same process stops the
  process for ever with its first request (`tryTls` in `HeldUp`);
* a server whose upstream is itself, directly or in a circle, is not noticed: each
  request takes descriptors until none are left (`MaxHops`);
* a relay with a write outstanding to a peer that does not read keeps both of its
  transports (`stuck` in `Reclaim` and `Unwinds`), and an unanswered TLS shutdown keeps
  the process (`shutdowns` in `NoZombie`);
* a TLS connect that finds no descriptor throws (`fate` in `LockGranted`).

## 7. Plan

Done, in this order: `Relay` with `Pipe` and its proofs, `SocksServer`,
`SocksUpstream` with its proofs, `Logging`; then `SocksPackets`, `MainApp` (with the
direct upstream, the start-up and the servers on one thread), `LogFormat`, and
`UpstreamContract` with the proof that `SocksUpstream` implements it; then the proofs
about `SocksServer`, `SocksPackets`, `Logging` and `MainApp`; then `SocksSession` with
the proof that `SocksServer` implements it, and the chains of servers in `MainApp`
(`ThreadKept`, `Chained`) with their proofs; then, in `MainApp`, circles of servers,
sessions that end one by one and the shutdown of TLS streams.  Left:

1. A composition of `SocksServer` with `UpstreamContract` in place of `Outcome`, so that
   a second callback over TLS reaches the server.
2. Adding a sink while others log, for users of the logging library other than `MainApp`.
3. What TLC alone checks (end of section 4), should the provers come to reach it.
