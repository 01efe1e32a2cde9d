------------------------------ MODULE MainApp ------------------------------
(***************************************************************************)
(* The process: main and MainApp::Run start the configured servers one     *)
(* after the other and then run the one io_service, on one thread, for all *)
(* of them.                                                                *)
(*                                                                         *)
(* A server reaches targets directly or through a SOCKS proxy, which may   *)
(* be a server of the same process, itself included.  The first request    *)
(* through a proxy resolves its name and connects to it synchronously, and *)
(* no other handler of the process runs meanwhile.  <<k, 1>> stands for    *)
(* the session of client k, and <<k, n + 1>> for the one that <<k, n>>     *)
(* makes at a server of the process.                                       *)
(***************************************************************************)
EXTENDS Naturals, Sequences, SequencesExt

CONSTANTS
    Clients,      \* the clients, each connecting at most once
    MaxServers,   \* bound: servers in a configuration
    MaxHops,      \* bound: sessions made for a client, as descriptors bound them
    ArgLists,     \* the command lines the program may be started with
    Files         \* Files[f]: the configuration in file f

Servers == 1..MaxServers

\* The entries of a configuration that MainApp looks at.  "files" are those
\* an ssl section names, "where" is what a SOCKS upstream's address and port
\* lead to: nothing, a proxy elsewhere, or server "to" of the same process.
Sink == [kind : {"stderr", "file", "other"}, level : {"known", "unknown"},
         path : BOOLEAN, mode : {"absent", "append", "truncate", "other"}]
Ssl == [used : BOOLEAN, files : {"ok", "bad"},
        verify : {"absent", "true", "false", "other"}]
Upstream == [type : {"direct", "socks", "other", "absent"}, ssl : Ssl,
             where : {"absent", "remote", "own"}, to : Servers]
Server == [type : {"socks", "other"}, address : {"absent", "a", "b", "c"},
           ssl : Ssl, upstream : Upstream]

ASSUME MainAppAssumption ==
    /\ MaxServers \in Nat
    /\ MaxHops \in Nat \ {0}
    /\ \A a \in ArgLists : a \in Seq(STRING)
    /\ \A f \in DOMAIN Files :
          /\ Files[f].log \in Seq(Sink)
          /\ Files[f].servers \in Seq(Server)
          /\ Len(Files[f].servers) <= MaxServers

VARIABLES
    app,          \* what main is doing, or how the process ended
    args,         \* the command line, until it is parsed
    i,            \* the argument that ParseCommandLineOrDie looks at
    state,        \* its state: 0 at the start, 1 when ready, 2 after a flag
    file,         \* the configuration file it found
    acceptor,     \* acceptor[s]: the accept loop of server s
    cached,       \* cached[s]: s has cached the endpoint of its SOCKS upstream
    at,           \* at[c]: the server that session c is at, or 0
    phase,        \* phase[c]: what session c is waiting for
    shutdowns     \* the sessions that are over but for the shutdown of a TLS stream

line == <<args, i, state>>
vars == <<app, line, file, acceptor, cached, phase, at, shutdowns>>
serving == <<acceptor, cached, phase, at, shutdowns>>

conf == Files[file]
up(s) == conf.servers[s].upstream
Own(s) == up(s).where = "own"

Hops == 1..MaxHops
Sessions == Clients \X Hops
Before(c) == <<c[1], c[2] - 1>>
After(c) == <<c[1], c[2] + 1>>

\* The sessions that keep the only thread of the process.
Sync == {"resolve", "try", "tryTls"}
\* Those that are over without having been granted what they asked for, and
\* those that have: they relay, have a write outstanding, or have ended.
Failed == {"closed", "refused", "reset"}
Told == {"granted", "stuck", "ended"}
Over == Failed \cup {"none", "ended"}
Phase == Sync \cup Over \cup Told
    \cup {"queued", "tls", "dialog", "resolving", "connecting", "waiting"}

\* Whether the client of c is a session of this process, which does not keep
\* silent as a client may; whether c makes such a session itself, and how that
\* one is.
FromOwn(c) == c[2] > 1
Linked(c) == at[c] # 0 /\ up(at[c]).type = "socks" /\ Own(at[c])
There(c) == IF c[2] < MaxHops THEN phase[After(c)] ELSE "none"

Init ==
    /\ app = "args"
    /\ args \in ArgLists
    /\ i = 1 /\ state = 0
    /\ file = "none"
    /\ acceptor = [s \in Servers |-> "none"]
    /\ cached = [s \in Servers |-> FALSE]
    /\ phase = [c \in Sessions |-> "none"]
    /\ at = [c \in Sessions |-> 0]
    /\ shutdowns = {}

-----------------------------------------------------------------------------
(* main: the command line and the configuration file *)

Flag == {"-c", "--config"}

\* ParseCommandLineOrDie is over, and so are its variables.
Parsed(outcome) ==
    /\ app' = outcome
    /\ args' = << >> /\ i' = 1 /\ state' = 0

\* One round of the loop in ParseCommandLineOrDie.
ParseArgument ==
    /\ app = "args"
    /\ i <= Len(args)
    /\ \/ /\ state \in {0, 1} /\ args[i] \in Flag
          /\ state' = 2 /\ i' = i + 1
          /\ UNCHANGED <<app, args, file>>
       \/ /\ state \in {0, 1} /\ args[i] \notin Flag
          /\ Parsed("exitFailure")
          /\ file' = file
       \/ /\ state = 2
          /\ file' = args[i]
          /\ state' = 1 /\ i' = i + 1
          /\ UNCHANGED <<app, args>>
    /\ UNCHANGED serving

\* A parser that takes a flag without a file name for the end of the line.
ParseCommandLineOrDie_NoArgument ==
    /\ app = "args"
    /\ i > Len(args)
    /\ Parsed(IF state \in {1, 2} THEN "config" ELSE "exitFailure")
    /\ UNCHANGED <<file, serving>>

\* The end of ParseCommandLineOrDie.
ParseCommandLineOrDie ==
    /\ app = "args"
    /\ i > Len(args)
    /\ Parsed(IF state = 1 THEN "config" ELSE "exitFailure")
    /\ UNCHANGED <<file, serving>>

\* A program that goes on without the configuration it could not read.
ReadConfig_AnyFile ==
    /\ app = "config"
    /\ app' = "logging"
    /\ UNCHANGED <<line, file, serving>>

\* read_info throws when there is no such file.
ReadConfig ==
    /\ app = "config"
    /\ app' = IF file \in DOMAIN Files THEN "logging" ELSE "abort"
    /\ UNCHANGED <<line, file, serving>>

-----------------------------------------------------------------------------
(* MainApp::Run: the start-up *)

\* ParseLevelOrDie knows the five levels.
BadLevel(level) == level = "unknown"

BadSink(sink) ==
    \/ sink.kind = "other"
    \/ sink.kind = "file" /\ (~sink.path \/ sink.mode = "other")
    \/ BadLevel(sink.level)

\* Every error in the log section is a DieOf.  The servers' section is
\* looked up after it.
SetUpLoggingOrDie ==
    /\ app = "logging"
    /\ app' = IF conf.servers = << >> \/ \E sink \in Range(conf.log) : BadSink(sink)
              THEN "exitFailure" ELSE "setup"
    /\ UNCHANGED <<line, file, serving>>

\* A check of the start-up: if it fails, the process ends that way.
Check(bad, how) == [bad |-> bad, how |-> how]

\* The methods of SslTransportFactoryBuilder throw on a file they cannot use.
LoadFiles(files) == Check(files = "bad", "abort")

\* Asking a client to verify its peer asks for the name of the peer as well.
MakeTcpTransportFactoryOrDie(ssl, noAddress) ==
    IF ssl.used
    THEN << LoadFiles(ssl.files),
            Check(ssl.verify = "other", "exitFailure"),
            Check(ssl.verify # "absent" /\ noAddress, "abort") >>
    ELSE << >>

\* An unknown type of upstream taken for a direct one.
MakeUpstreamFactoryOrDie_Default(u) ==
    MakeTcpTransportFactoryOrDie(u.ssl, u.where = "absent")
        \o << Check(u.type = "socks" /\ u.where = "absent", "abort") >>

MakeUpstreamFactoryOrDie(u) ==
    MakeTcpTransportFactoryOrDie(u.ssl, u.where = "absent")
        \o << Check(u.type = "other", "exitFailure"),
              Check(u.type = "socks" /\ u.where = "absent", "abort") >>

ServerChecks(c) ==
    << Check(c.type # "socks", "exitFailure"),
       Check(c.address = "absent", "abort") >>
        \o MakeTcpTransportFactoryOrDie(c.ssl, FALSE)
        \o << Check(c.upstream.type = "absent", "abort") >>
        \o MakeUpstreamFactoryOrDie(c.upstream)

\* The positions of the checks that fail: the first of them ends the process.
Failures(c) == {n \in DOMAIN ServerChecks(c) : ServerChecks(c)[n].bad}

\* One round of Run's loop: make the server's parts, then Start.  An address
\* that does not resolve leaves the server off; an address that cannot be
\* bound makes the acceptor's constructor throw.
StartServer(s) ==
    /\ app = "setup"
    /\ s <= Len(conf.servers)
    /\ acceptor[s] = "none" /\ \A r \in 1..(s - 1) : acceptor[r] # "none"
    /\ LET c == conf.servers[s]
           taken == \E r \in Servers :
                       /\ acceptor[r] = "accept"
                       /\ conf.servers[r].address = c.address
       IN  \/ \E n \in Failures(c) :
                 /\ \A m \in Failures(c) : n <= m
                 /\ app' = ServerChecks(c)[n].how
                 /\ acceptor' = acceptor
           \/ /\ Failures(c) = {}
              /\ \/ app' = app /\ acceptor' = [acceptor EXCEPT ![s] = "off"]
                 \/ app' = "abort" /\ acceptor' = acceptor
                 \/ ~taken /\ app' = app /\ acceptor' = [acceptor EXCEPT ![s] = "accept"]
    /\ UNCHANGED <<line, file, cached, phase, at, shutdowns>>

Run ==
    /\ app = "setup"
    /\ \A s \in 1..Len(conf.servers) : acceptor[s] # "none"
    /\ app' = "running"
    /\ UNCHANGED <<line, file, serving>>

StartUp ==
    \/ ParseArgument \/ ParseCommandLineOrDie
    \/ ReadConfig \/ SetUpLoggingOrDie
    \/ \E s \in Servers : StartServer(s)
    \/ Run

-----------------------------------------------------------------------------
(* Sessions *)

Listening(s) == acceptor[s] \in {"accept", "handshake"}

\* A connection is made by the kernel, whether or not the thread is free, and
\* before run() too.
Connect(k, s) ==
    /\ app \in {"setup", "running"}
    /\ at[<<k, 1>>] = 0
    /\ Listening(s)
    /\ at' = [at EXCEPT ![<<k, 1>>] = s]
    /\ phase' = [phase EXCEPT ![<<k, 1>>] = "queued"]
    /\ UNCHANGED <<app, line, file, acceptor, cached, shutdowns>>

\* The thread is in io_service::run(), not in a handler that waits.
Free ==
    /\ app = "running"
    /\ \A c \in Sessions : phase[c] \notin Sync

Goto(c, p) ==
    /\ phase' = [phase EXCEPT ![c] = p]
    /\ UNCHANGED <<app, line, file, cached, at>>

\* The handler of session c that waited in phase p.
Handle(c, p) == Free /\ phase[c] = p

\* StartClose of a session's transports, of which "tls" says that one may be
\* an established TLS stream: its shutdown stays outstanding until the peer
\* has answered it.
Shutdown(c, tls) ==
    \/ shutdowns' = shutdowns
    \/ tls /\ shutdowns' = shutdowns \cup {c}

ShutdownDone(c) ==
    /\ Free
    /\ c \in shutdowns
    /\ shutdowns' = shutdowns \ {c}
    /\ UNCHANGED <<app, line, file, acceptor, cached, phase, at>>

\* Whether the client's and the upstream's transport of a session are TLS.
DownTls(c) == conf.servers[at[c]].ssl.used
UpTls(c) == up(at[c]).ssl.used

Accept(c) ==
    /\ Handle(c, "queued")
    /\ acceptor[at[c]] = "accept"
    /\ \/ /\ ~DownTls(c)
          /\ Goto(c, "dialog")
          /\ acceptor' = acceptor
       \/ /\ DownTls(c)
          /\ Goto(c, "tls")
          /\ acceptor' = [acceptor EXCEPT ![at[c]] = "handshake"]
    /\ shutdowns' = shutdowns

\* A loop that is given up but keeps its acceptor, and with it the backlog.
AcceptFails_KeepsAcceptor(s) ==
    /\ Free
    /\ acceptor[s] = "accept"
    /\ \E c \in Sessions : at[c] = s /\ phase[c] = "queued"
    /\ acceptor' = [acceptor EXCEPT ![s] = "stopped"]
    /\ UNCHANGED <<app, line, file, cached, at, phase, shutdowns>>

\* A failed accept is not followed by another: the acceptor goes with its
\* last handler, and the kernel resets what waits in the backlog.
AcceptFails(s) ==
    /\ Free
    /\ acceptor[s] = "accept"
    /\ \E c \in Sessions : at[c] = s /\ phase[c] = "queued"
    /\ acceptor' = [acceptor EXCEPT ![s] = "stopped"]
    /\ phase' = [c \in Sessions |->
                    IF at[c] = s /\ phase[c] = "queued" THEN "reset" ELSE phase[c]]
    /\ UNCHANGED <<app, line, file, cached, at, shutdowns>>

\* A server of this process whose upstream has no ssl section talks plain
\* text to a TLS server.
Handshake(c) ==
    /\ Handle(c, "tls")
    /\ \/ (FromOwn(c) => UpTls(Before(c))) /\ Goto(c, "dialog")
       \/ Goto(c, "closed")
    /\ acceptor' = [acceptor EXCEPT ![at[c]] = "accept"]
    /\ shutdowns' = shutdowns

\* A StartRequest that does not look at the flag.
Request_NoCheck(c) ==
    /\ Handle(c, "dialog")
    /\ \/ up(at[c]).type = "direct" /\ Goto(c, "connecting")
       \/ up(at[c]).type = "socks" /\ Goto(c, "resolve")
    /\ UNCHANGED <<acceptor, shutdowns>>

\* The SOCKS dialog up to the request, and StartRequest of either factory.
Request(c) ==
    /\ Handle(c, "dialog")
    /\ \/ up(at[c]).type = "direct" /\ Goto(c, "resolving")
       \/ up(at[c]).type = "direct" /\ Goto(c, "connecting")
       \/ /\ up(at[c]).type = "socks"
          /\ Goto(c, IF cached[at[c]] THEN "connecting" ELSE "resolve")
    /\ UNCHANGED <<acceptor, shutdowns>>

\* A client leaves before its request is complete, or is told that the server
\* has none of its methods or not its command.
Leave(c) ==
    /\ Handle(c, "dialog")
    /\ ~FromOwn(c)
    /\ \/ Goto(c, "closed") /\ shutdowns' = shutdowns
       \/ Goto(c, "refused") /\ Shutdown(c, DownTls(c))
    /\ acceptor' = acceptor

\* The upstream factory reports an error and the client is told.
Refuse(c) == Goto(c, "refused") /\ Shutdown(c, DownTls(c))

\* DirectTcpUpstreamFactory: a domain name is resolved, and its first address
\* connected, asynchronously.
DirectResolve(c) ==
    /\ Handle(c, "resolving")
    /\ \/ Goto(c, "connecting") /\ shutdowns' = shutdowns
       \/ Refuse(c)
    /\ acceptor' = acceptor

DirectConnect(c) ==
    /\ Handle(c, "connecting")
    /\ up(at[c]).type = "direct"
    /\ \/ Goto(c, "granted") /\ shutdowns' = shutdowns
       \/ Refuse(c)
    /\ acceptor' = acceptor

-----------------------------------------------------------------------------
(* SocksTcpUpstreamFactory on the one thread *)

Resolve(c) ==
    /\ app = "running"
    /\ phase[c] = "resolve"
    /\ \/ Goto(c, "try") /\ shutdowns' = shutdowns
       \/ Refuse(c)
    /\ acceptor' = acceptor

\* The kernel connects c to its proxy and p is what it waits for next: a
\* connection to a server of this process, be it the server of c itself, is
\* in the backlog of that server.
Connected(c, p) ==
    IF Own(at[c])
    THEN /\ Listening(up(at[c]).to)
         /\ c[2] < MaxHops
         /\ phase' = [phase EXCEPT ![c] = p, ![After(c)] = "queued"]
         /\ at' = [at EXCEPT ![After(c)] = up(at[c]).to]
    ELSE /\ phase' = [phase EXCEPT ![c] = p]
         /\ at' = at

\* TryConnect up to the TLS handshake.
Try(c) ==
    /\ app = "running"
    /\ phase[c] = "try"
    /\ \/ /\ Connected(c, IF UpTls(c) THEN "tryTls" ELSE "waiting")
          /\ cached' = [cached EXCEPT ![at[c]] = ~UpTls(c)]
          /\ UNCHANGED <<app, line, file, shutdowns>>
       \/ Refuse(c)
    /\ acceptor' = acceptor

\* The synchronous TLS handshake: the proxy may answer, and a server of this
\* process only once it has accepted the connection.
TryHandshake(c) ==
    /\ app = "running"
    /\ phase[c] = "tryTls"
    /\ Own(at[c]) => There(c) \notin {"none", "queued"}
    /\ \/ /\ phase' = [phase EXCEPT ![c] = "waiting"]
          /\ cached' = [cached EXCEPT ![at[c]] = TRUE]
          /\ UNCHANGED <<app, line, file, at, shutdowns>>
       \/ Refuse(c)
    /\ acceptor' = acceptor

\* StartConnect to the cached endpoint; its TLS handshake and the dialog with
\* the proxy follow asynchronously.
StartConnect(c) ==
    /\ Handle(c, "connecting")
    /\ up(at[c]).type = "socks"
    /\ \/ /\ Connected(c, "waiting")
          /\ UNCHANGED <<app, line, file, cached, shutdowns>>
       \/ Refuse(c)
    /\ acceptor' = acceptor

\* A server that gives up a proxy that has not answered yet.
UpstreamAnswers_Impatient(c) ==
    /\ Handle(c, "waiting")
    /\ Refuse(c)
    /\ acceptor' = acceptor

\* The proxy's answer: the outcome of the session made at a server of this
\* process, whose response comes before the end of its stream, or whatever a
\* proxy elsewhere says; a response that is dropped for its address type
\* closes the session.  A refusal closes the transport to the proxy, too.
UpstreamAnswers(c) ==
    /\ Handle(c, "waiting")
    /\ \/ /\ Own(at[c]) => There(c) \in Told
          /\ Goto(c, "granted") /\ shutdowns' = shutdowns
       \/ /\ Own(at[c]) => There(c) \in Failed
          /\ Goto(c, "refused") /\ Shutdown(c, DownTls(c) \/ UpTls(c))
       \/ /\ ~Own(at[c])
          /\ Goto(c, "closed") /\ shutdowns' = shutdowns
    /\ acceptor' = acceptor

\* A session whose write to the next one, or to the one before, or to its
\* client or target, stays outstanding: nobody reads what it relays.
RelayStalls(c) ==
    /\ Handle(c, "granted")
    /\ Goto(c, "stuck")
    /\ UNCHANGED <<acceptor, shutdowns>>

\* Whether the session on either side of c has closed their connection.
PeerEnded(c) ==
    \/ FromOwn(c) /\ phase[Before(c)] \in Over
    \/ Linked(c) /\ There(c) \in Over

\* A relay between two servers that looks at the end of the first one only.
RelayEnds_OneSided(c) ==
    /\ Free
    /\ phase[c] \in {"granted", "stuck"}
    /\ FromOwn(c) /\ Linked(c) => phase[Before(c)] \in Over
    /\ Goto(c, "ended")
    /\ Shutdown(c, DownTls(c) \/ UpTls(c))
    /\ acceptor' = acceptor

\* Each session reads for itself that one of its peers has ended, a client or
\* a target at any time, and closes both of its transports; so does a session
\* that cannot write its response.
RelayEnds(c) ==
    /\ Free
    /\ phase[c] \in {"granted", "stuck"}
    /\ FromOwn(c) /\ Linked(c) => PeerEnded(c)
    /\ Goto(c, "ended")
    /\ Shutdown(c, DownTls(c) \/ UpTls(c))
    /\ acceptor' = acceptor

\* An exception leaves a handler (SocksServer says when).
Dies ==
    /\ Free
    /\ \E c \in Sessions : phase[c] \notin Over
    /\ app' = "abort"
    /\ UNCHANGED <<line, file, serving>>

\* io_service::run() returns when no operation is outstanding, the shutdown
\* of a TLS stream included, and so does main, with EXIT_SUCCESS.
RunReturns ==
    /\ Free
    /\ \A s \in Servers : ~Listening(s)
    /\ \A c \in Sessions : phase[c] \in Over
    /\ shutdowns = {}
    /\ app' = "exitSuccess"
    /\ UNCHANGED <<line, file, serving>>

-----------------------------------------------------------------------------

SessionStep(c) ==
    \/ Accept(c) \/ Handshake(c)
    \/ Request(c) \/ Leave(c)
    \/ DirectResolve(c) \/ DirectConnect(c)
    \/ Resolve(c) \/ Try(c) \/ TryHandshake(c)
    \/ StartConnect(c) \/ UpstreamAnswers(c)
    \/ RelayStalls(c) \/ RelayEnds(c)
    \/ ShutdownDone(c)

Next ==
    \/ StartUp
    \/ \E s \in Servers : AcceptFails(s)
    \/ \E k \in Clients, s \in Servers : Connect(k, s)
    \/ \E c \in Sessions : SessionStep(c)
    \/ Dies
    \/ RunReturns

Spec == Init /\ [][Next]_vars

\* The io_service runs the handlers of completed operations, the synchronous
\* resolve and TCP connect return, and the kernel gives up a connect that
\* nobody answers.  Clients, targets, proxies and TLS peers elsewhere promise
\* nothing, and where a write is stuck the end of a peer may never be read.
Fairness ==
    /\ WF_vars(StartUp)
    /\ WF_vars(RunReturns)
    /\ \A c \in Sessions :
          /\ WF_vars(Accept(c))
          /\ WF_vars(FromOwn(c) /\ Request(c))
          /\ WF_vars(DirectResolve(c))
          /\ WF_vars(DirectConnect(c) /\ ~UpTls(c))
          /\ WF_vars(Resolve(c))
          /\ WF_vars(Try(c))
          /\ WF_vars(StartConnect(c))
          /\ WF_vars(UpstreamAnswers(c) /\ Own(at[c]))
          /\ WF_vars(phase[c] = "granted" /\ PeerEnded(c) /\ RelayEnds(c))

FairSpec == Spec /\ Fairness

-----------------------------------------------------------------------------
(* Properties *)

\* Type correctness of the process.
TypeOK ==
    /\ app \in {"args", "config", "logging", "setup", "running",
               "exitSuccess", "exitFailure", "abort"}
    /\ args \in ArgLists \cup {<< >>}
    /\ i \in 1..(Len(args) + 1)
    /\ state \in 0..2
    /\ app \in {"logging", "setup", "running", "exitSuccess"} => file \in DOMAIN Files
    /\ acceptor \in [Servers -> {"none", "off", "accept", "handshake", "stopped"}]
    /\ cached \in [Servers -> BOOLEAN]
    /\ phase \in [Sessions -> Phase]
    /\ at \in [Sessions -> 0..MaxServers]
    /\ shutdowns \subseteq Sessions

\* ParseCommandLineOrDie accepts the command lines that are a sequence of
\* flags, each with a file name after it, at least one, and the last name
\* counts; whatever the names are, flags included.
WellFormedLine ==
    /\ args # << >>
    /\ Len(args) % 2 = 0
    /\ \A n \in DOMAIN args : n % 2 = 1 => args[n] \in Flag

CommandLine ==
    [][app = "args" /\ app' # "args" =>
          IF WellFormedLine THEN app' = "config" /\ file' = Last(args)
                            ELSE app' = "exitFailure"]_vars

SslOk(ssl) == ssl.used => ssl.files = "ok" /\ ssl.verify # "other"

ServerOk(c) ==
    /\ c.type = "socks" /\ c.address # "absent"
    /\ c.upstream.type \in {"direct", "socks"}
    /\ SslOk(c.ssl) /\ SslOk(c.upstream.ssl)
    /\ c.upstream.where = "absent" =>
          /\ c.upstream.type = "direct"
          /\ c.upstream.ssl.used => c.upstream.ssl.verify = "absent"

\* No client is served by half a configuration: a session leaves the backlog
\* only when every server of the file, and every log sink, is well formed and
\* every server has been started.  An address that did not resolve is the one
\* failure that leaves its server off and the others running.
AllStarted ==
    (\E c \in Sessions : phase[c] \notin {"none", "queued"}) =>
        /\ \A n \in DOMAIN conf.log : ~BadSink(conf.log[n])
        /\ \A s \in DOMAIN conf.servers :
              ServerOk(conf.servers[s]) /\ acceptor[s] # "none"

\* The thread of the process is kept by one session at most, and only for a
\* server that has not cached the endpoint of its proxy: no request of a server
\* stops the process again after one that succeeded.
ThreadKept ==
    \A c, d \in Sessions :
        phase[c] \in Sync => ~cached[at[c]] /\ (phase[d] \in Sync => c = d)

\* Whether a session is true to the one made for it: it waits for a session
\* that there is, has been granted what that one has been granted, whatever
\* of the two ends first, and when it fails that one has failed or was never
\* made.
TrueToUpstream(c) ==
    /\ phase[c] = "waiting" => There(c) # "none"
    /\ phase[c] \in Told => There(c) \in Told
    /\ phase[c] \in Failed => There(c) \in Failed \cup {"none"}

\* Chains of servers of one process: whatever is off, stops accepting, fails
\* or ends in a chain, and also where the chain comes back to a server, a
\* client is told of success only when every session of its chain has been,
\* and a session that fails leaves none behind that still relays.
Chained == \A c \in Sessions : Linked(c) => TrueToUpstream(c)

Requested == {"resolving", "connecting", "waiting"} \cup Sync

\* Whom the sessions of client k wait for: somebody outside who may keep
\* silent, a TLS handshake at a server of this process that its peer does not
\* go on with, or the thread of the process while it waits for one.
HeldUp(k) ==
    \/ \E c \in Sessions : phase[c] = "tryTls"
    \/ \E c \in {k} \X Hops :
          \/ phase[c] = "waiting" /\ ~Own(at[c])
          \/ phase[c] = "connecting" /\ up(at[c]).type = "direct" /\ UpTls(c)
          \/ phase[c] = "tls"
          \/ phase[c] = "queued" /\ acceptor[at[c]] = "handshake"

\* Servers of one process may be each other's upstream, in a circle too,
\* although one thread runs them all: every request is answered, or its
\* session closed, through any chain of them, also when a server of the chain
\* is off or has stopped accepting.
Served ==
    \A c \in Sessions :
        (phase[c] \in Requested) ~>
            (phase[c] \notin Requested \/ HeldUp(c[1]) \/ app # "running")

\* The end of one session of a chain, wherever it is, reaches the others: no
\* session relays for ever between peers that are gone.  It stops only where a
\* session has a write outstanding to somebody who does not read, or where
\* the thread of the process waits for a TLS handshake.
Unwinds ==
    \A c \in Sessions :
        (phase[c] \in Over \ {"none"}) ~>
            \/ app # "running"
            \/ \E d \in Sessions : phase[d] = "tryTls"
            \/ \E d \in {c[1]} \X Hops : phase[d] = "stuck"
            \/ \A d \in {c[1]} \X Hops : phase[d] \in Over

\* A process none of whose servers accepts any more does not stay behind: it
\* ends when the last session does and the last TLS stream has been shut down.
NoZombie ==
    (app = "running" /\ \A s \in Servers : ~Listening(s)) ~>
        \/ app # "running"
        \/ \E k \in Clients : HeldUp(k)
        \/ \E c \in Sessions : phase[c] \in {"dialog", "granted", "stuck"}
        \/ shutdowns # {}
=============================================================================
