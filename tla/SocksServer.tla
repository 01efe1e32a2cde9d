---------------------------- MODULE SocksServer ----------------------------
(***************************************************************************)
(* One SocksTcpServer: its accept loop (DoAccept of the transport factory  *)
(* it listens with) and, for every client, the session from the backlog    *)
(* to the end of the relay.                                                *)
(*                                                                         *)
(* A session has one outstanding operation at a time until it relays, so a *)
(* server step is the completion of that operation and the whole handler   *)
(* that the code runs for it; a peer's reset may come just before the      *)
(* handler, after the operation completed.  Sessions meet in three places: *)
(* the accept loop, the file descriptors of the process, and the process   *)
(* itself: handlers run inside io_service::run(), which nothing guards, so *)
(* an exception that leaves a handler ends every session.                  *)
(***************************************************************************)
EXTENDS Naturals, Sequences, FiniteSets

CONSTANTS
    Conns,        \* the clients, each connecting at most once
    MaxFds,       \* bound: sockets the process may have open for sessions
    Configs       \* the configurations a server may have: the factory it
                  \* listens with and the one it requests upstreams from

ASSUME ServerAssumption ==
    /\ IsFiniteSet(Conns)
    /\ MaxFds \in Nat
    /\ Configs \subseteq
          [listener : {"tcp", "ssl"}, upstream : {"direct", "socks"}]

VARIABLES
    conf,         \* the configuration, a member of Configs
    fate,         \* "running", or what ended the process
    acc,          \* the accept loop: "init", "off" (nothing to listen on),
                  \* "accept", "handshake" or "stopped"
    phase,        \* phase[c]: what session c is waiting for
    sock,         \* sock[c]: the transport to client c
    up,           \* up[c]: the upstream transport of session c
    replies,      \* replies[c]: the replies written to client c
    client,       \* client[c]: "open", "eof" or "reset"
    said,         \* said[c]: the messages client c has sent
    ended         \* the sessions whose target ended or reset its stream

clientVars == <<client, said, ended>>
vars == <<conf, fate, acc, phase, sock, up, replies, client, said, ended>>

Phase == {"idle", "queued", "tls", "auth", "ack", "nack", "request",
          "connecting", "commandError", "refusedError", "respond", "relay",
          "stuck", "done"}

\* A TLS client hello, good or garbage; the methods a client offers, with or
\* without kNoAuth; a request: a CONNECT or another command with a proper
\* address, an address of an unknown type, a host name of 254 or 255 bytes.
Hello == {"tlsHello", "tlsGarbage"}
Offer == {"offerNoAuth", "offerOther"}
Request == {"connect", "otherCommand", "unknownAddressType", "longHost"}

\* The (error code, transport) pairs the upstream factory's callback gets.
\* SocksTcpUpstreamFactory reports success with a null transport when the
\* upstream proxy chooses an authentication method other than kNoAuth, and
\* drops the callback when the proxy's response has an unknown address type.
Outcome ==
    {"transport", "error"}
        \cup (IF conf.upstream = "socks" THEN {"null", "dropped"} ELSE {})

\* The descriptor of an upstream counts from the moment it is connected.
Holds(t) == t \in {"open", "closing"}
Fds == Cardinality({c \in Conns : Holds(sock[c])})
       + Cardinality({c \in Conns : Holds(up[c])})

Init ==
    /\ conf \in Configs
    /\ fate = "running"
    /\ acc = "init"
    /\ phase = [c \in Conns |-> "idle"]
    /\ sock = [c \in Conns |-> "none"]
    /\ up = [c \in Conns |-> "none"]
    /\ replies = [c \in Conns |-> << >>]
    /\ client = [c \in Conns |-> "open"]
    /\ said = [c \in Conns |-> {}]
    /\ ended = {}

-----------------------------------------------------------------------------
(* Clients and targets *)

Connect(c) ==
    /\ phase[c] = "idle"
    /\ acc \notin {"init", "off", "stopped"}
    /\ phase' = [phase EXCEPT ![c] = "queued"]
    /\ UNCHANGED <<fate, acc, sock, up, replies, client, said, ended>>

\* A client sends its messages in order, without waiting for the replies.
Say(c, kind) ==
    /\ phase[c] \notin {"idle", "done"}
    /\ client[c] = "open"
    /\ said[c] \cap kind = {}
    /\ \E m \in kind : said' = [said EXCEPT ![c] = @ \cup {m}]
    /\ UNCHANGED <<fate, acc, phase, sock, up, replies, client, ended>>

SayHello(c) == conf.listener = "ssl" /\ Say(c, Hello)

SayOffer(c) ==
    /\ conf.listener = "ssl" => "tlsHello" \in said[c]
    /\ Say(c, Offer)

SayRequest(c) ==
    /\ said[c] \cap Offer # {}
    /\ Say(c, Request)

Leave(c, how) ==
    /\ phase[c] # "idle"
    /\ sock[c] # "closed"
    /\ client[c] \notin {how, "reset"}
    /\ client' = [client EXCEPT ![c] = how]
    /\ sock' = [sock EXCEPT ![c] = IF @ = "closing" THEN "closed" ELSE @]
    /\ UNCHANGED <<fate, acc, phase, up, replies, said, ended>>

TargetEnds(c) ==
    /\ up[c] = "open"
    /\ c \notin ended
    /\ ended' = ended \cup {c}
    /\ UNCHANGED <<fate, acc, phase, sock, up, replies, client, said>>

-----------------------------------------------------------------------------
(* What handlers have in common *)

\* TransportBase::StartClose.  A TCP socket is closed at once; a TLS stream
\* waits for the shutdown of the peer and keeps its socket until then.
Closed(c) ==
    IF conf.listener = "ssl" /\ client[c] = "open" THEN "closing" ELSE "closed"

StartClose(c) ==
    /\ phase' = [phase EXCEPT ![c] = "done"]
    /\ sock' = [sock EXCEPT ![c] = Closed(c)]

\* GetRemoteAddress throws when the peer has reset the connection.
NotConnected(c) == client[c] = "reset"

\* An exception leaves io_service::run().
Die(cause) ==
    /\ fate' = cause
    /\ UNCHANGED <<acc, phase, sock, up, replies>>

Goto(c, p) == phase' = [phase EXCEPT ![c] = p]

\* A handler's next step: the phase p, or the end of the process if it asks
\* for the address of a client that has gone.
GotoIfConnected(c, p) ==
    \/ NotConnected(c) /\ Die("notConnected")
    \/ /\ ~NotConnected(c)
       /\ Goto(c, p)
       /\ UNCHANGED <<fate, acc, sock, up, replies>>

ReadFails(c, kind) ==
    \/ client[c] = "reset"
    \/ client[c] = "eof" /\ said[c] \cap kind = {}

-----------------------------------------------------------------------------
(* The accept loop *)

\* SocksTcpServer::Start and StartAccept: the address cannot be resolved and
\* the server gives up silently, the acceptor's constructor throws, or the
\* loop starts.
Start ==
    /\ acc = "init"
    /\ \/ acc' = "accept" /\ fate' = fate
       \/ acc' = "off" /\ fate' = fate
       \/ acc' = acc /\ fate' = "bindFailed"
    /\ UNCHANGED <<phase, sock, up, replies>>

\* A loop that does not start the next accept.
Accept_Once(c) ==
    /\ acc = "accept"
    /\ phase[c] = "queued"
    /\ Fds < MaxFds
    /\ ~NotConnected(c)
    /\ Goto(c, "auth")
    /\ sock' = [sock EXCEPT ![c] = "open"]
    /\ acc' = "off"
    /\ UNCHANGED <<fate, up, replies>>

\* DoAccept's handler and, for TCP, HandleNewConnection up to its first read.
Accept(c) ==
    /\ acc = "accept"
    /\ phase[c] = "queued"
    /\ Fds < MaxFds
    /\ \/ /\ conf.listener = "tcp" /\ NotConnected(c)
          /\ Die("notConnected")
       \/ /\ conf.listener = "tcp" /\ ~NotConnected(c)
          /\ Goto(c, "auth")
          /\ sock' = [sock EXCEPT ![c] = "open"]
          /\ UNCHANGED <<fate, acc, up, replies>>
       \/ /\ conf.listener = "ssl"
          /\ Goto(c, "tls")
          /\ sock' = [sock EXCEPT ![c] = "open"]
          /\ acc' = "handshake"
          /\ UNCHANGED <<fate, up, replies>>

\* An accept that fails for want of a descriptor: the handler is told, asks
\* for more, and the factory stops all the same.  The acceptor goes with the
\* last handler that held it, and with it the connections of the backlog.
AcceptFails ==
    /\ acc = "accept"
    /\ \E c \in Conns : phase[c] = "queued"
    /\ Fds >= MaxFds
    /\ acc' = "stopped"
    /\ phase' = [c \in Conns |-> IF phase[c] = "queued" THEN "done" ELSE phase[c]]
    /\ UNCHANGED <<fate, sock, up, replies>>

\* The handler of async_handshake: only now the next DoAccept.
HandshakeOk(c) ==
    /\ phase[c] = "tls"
    /\ "tlsHello" \in said[c]
    /\ \/ NotConnected(c) /\ Die("notConnected")
       \/ /\ ~NotConnected(c)
          /\ Goto(c, "auth")
          /\ acc' = "accept"
          /\ UNCHANGED <<fate, sock, up, replies>>

\* Without a handshake there is nothing to shut down: the shutdown that
\* StartClose starts fails at once, and the socket goes with the transport.
HandshakeFails(c) ==
    /\ phase[c] = "tls"
    /\ ReadFails(c, Hello) \/ "tlsGarbage" \in said[c]
    /\ \/ NotConnected(c) /\ Die("notConnected")
       \/ /\ ~NotConnected(c)
          /\ Goto(c, "done")
          /\ sock' = [sock EXCEPT ![c] = "closed"]
          /\ acc' = "accept"
          /\ UNCHANGED <<fate, up, replies>>

-----------------------------------------------------------------------------
(* A session: SocksTcpServer's handlers in order *)

ReadMethods(c) ==
    /\ phase[c] = "auth"
    /\ \/ /\ ReadFails(c, Offer)
          /\ StartClose(c)
       \/ /\ "offerNoAuth" \in said[c]
          /\ Goto(c, "ack") /\ sock' = sock
       \/ /\ "offerOther" \in said[c]
          /\ Goto(c, "nack") /\ sock' = sock
    /\ UNCHANGED <<fate, acc, up, replies>>

\* A write of reply r either reaches the socket or fails on a reset.
Reply(c, r) == replies' = [replies EXCEPT ![c] = Append(@, r)]
ReplyFails(c) == client[c] = "reset" /\ replies' = replies

WriteAck(c) ==
    /\ phase[c] = "ack"
    /\ \/ Reply(c, "kNoAuth") /\ Goto(c, "request") /\ sock' = sock
       \/ ReplyFails(c) /\ StartClose(c)
    /\ UNCHANGED <<fate, acc, up>>

\* A nack that keeps the transport open, as if the client could try again.
WriteNack_NoClose(c) ==
    /\ phase[c] = "nack"
    /\ Reply(c, "kNotSupported") \/ ReplyFails(c)
    /\ Goto(c, "auth")
    /\ UNCHANGED <<fate, acc, sock, up>>

WriteNack(c) ==
    /\ phase[c] = "nack"
    /\ Reply(c, "kNotSupported") \/ ReplyFails(c)
    /\ StartClose(c)
    /\ UNCHANGED <<fate, acc, up>>

\* A check that closes where the code answers.
ReadRequest_NoAnswer(c) ==
    /\ phase[c] = "request"
    /\ \/ /\ ReadFails(c, Request) \/ "otherCommand" \in said[c]
          /\ StartClose(c)
          /\ UNCHANGED <<fate, acc, up, replies>>
       \/ /\ "connect" \in said[c]
          /\ GotoIfConnected(c, "connecting")

\* RequestPacket::StartCreateFrom, the checks of ReceiveRequestPacket and the
\* start of HandleRequest.  An address of unknown type calls no callback: the
\* last reference to the transport goes and its destructor closes the socket.
ReadRequest(c) ==
    /\ phase[c] = "request"
    /\ \/ /\ ReadFails(c, Request)
          /\ StartClose(c)
          /\ UNCHANGED <<fate, acc, up, replies>>
       \/ /\ "otherCommand" \in said[c]
          /\ Goto(c, "commandError")
          /\ UNCHANGED <<fate, acc, sock, up, replies>>
       \/ /\ "connect" \in said[c]
          /\ GotoIfConnected(c, "connecting")
       \/ /\ "unknownAddressType" \in said[c]
          /\ Goto(c, "done")
          /\ sock' = [sock EXCEPT ![c] = "closed"]
          /\ UNCHANGED <<fate, acc, up, replies>>
       \/ /\ "longHost" \in said[c]
          /\ Die("lengthError")

\* The callback of StartRequest, or the loss of it: the handlers that held
\* the client's transport are gone, and its destructor closes the socket.
UpstreamDone(c) ==
    /\ phase[c] = "connecting"
    /\ \E outcome \in Outcome :
          /\ outcome # "error" => Fds < MaxFds
          /\ \/ /\ outcome = "transport"
                /\ Goto(c, "respond")
                /\ up' = [up EXCEPT ![c] = "open"]
                /\ UNCHANGED <<fate, acc, sock, replies>>
             \/ /\ outcome = "error"
                /\ Goto(c, "refusedError")
                /\ UNCHANGED <<fate, acc, sock, up, replies>>
             \/ /\ outcome = "null"
                /\ Die("nullUpstream")
             \/ /\ outcome = "dropped"
                /\ Goto(c, "done")
                /\ sock' = [sock EXCEPT ![c] = "closed"]
                /\ UNCHANGED <<fate, acc, up, replies>>

\* ResponseError that leaves the session open when the reply is not written.
WriteError_KeepOnFailure(c) ==
    /\ \/ /\ phase[c] = "commandError"
          /\ Reply(c, "kCommandNotSupported") /\ StartClose(c)
       \/ /\ phase[c] = "refusedError"
          /\ Reply(c, "kConnectionRefused") /\ StartClose(c)
       \/ /\ phase[c] \in {"commandError", "refusedError"}
          /\ ReplyFails(c) /\ Goto(c, "done") /\ sock' = sock
    /\ UNCHANGED <<fate, acc, up>>

\* ResponseError that answers every error with the general failure code.
WriteError_General(c) ==
    /\ phase[c] \in {"commandError", "refusedError"}
    /\ Reply(c, "kSocksServerFailure") \/ ReplyFails(c)
    /\ StartClose(c)
    /\ UNCHANGED <<fate, acc, up>>

\* ResponseError: the reply, then StartClose whether or not it was written.
WriteError(c) ==
    /\ \/ phase[c] = "commandError" /\ Reply(c, "kCommandNotSupported")
       \/ phase[c] = "refusedError" /\ Reply(c, "kConnectionRefused")
       \/ phase[c] \in {"commandError", "refusedError"} /\ ReplyFails(c)
    /\ StartClose(c)
    /\ UNCHANGED <<fate, acc, up>>

\* The response handler that forgets the upstream when the client is gone.
WriteResponse_KeepUpstream(c) ==
    /\ phase[c] = "respond"
    /\ \/ /\ ReplyFails(c)
          /\ StartClose(c)
          /\ UNCHANGED <<fate, acc, up>>
       \/ /\ ~NotConnected(c)
          /\ Reply(c, "kSuccess")
          /\ Goto(c, "relay")
          /\ UNCHANGED <<fate, acc, sock, up>>

\* The success response and its handler: start relaying, or close both.
WriteResponse(c) ==
    /\ phase[c] = "respond"
    /\ \/ /\ ReplyFails(c)
          /\ StartClose(c)
          /\ up' = [up EXCEPT ![c] = "closed"]
          /\ UNCHANGED <<fate, acc>>
       \/ /\ NotConnected(c)
          /\ Die("notConnected")
       \/ /\ ~NotConnected(c)
          /\ Reply(c, "kSuccess")
          /\ Goto(c, "relay")
          /\ UNCHANGED <<fate, acc, sock, up>>

\* A write of the relay stays outstanding because the peer it goes to stops
\* reading.  Nothing is read from the other peer meanwhile.
RelayStalls(c) ==
    /\ phase[c] = "relay"
    /\ Goto(c, "stuck")
    /\ UNCHANGED <<fate, acc, sock, up, replies, client, said, ended>>

\* StartRelay, as Relay specifies it: when it reads that a peer has ended or
\* reset its stream both transports are closed.
RelayEnds(c) ==
    /\ phase[c] \in {"relay", "stuck"}
    /\ client[c] # "open" \/ c \in ended
    /\ StartClose(c)
    /\ up' = [up EXCEPT ![c] = "closed"]
    /\ UNCHANGED <<fate, acc, replies>>

-----------------------------------------------------------------------------

ClientStep(c) ==
    \/ Connect(c)
    \/ SayHello(c) \/ SayOffer(c) \/ SayRequest(c)
    \/ Leave(c, "eof") \/ Leave(c, "reset")
    \/ TargetEnds(c)
    \/ RelayStalls(c)

SessionStep(c) ==
    \/ HandshakeOk(c) \/ HandshakeFails(c)
    \/ ReadMethods(c)
    \/ WriteAck(c) \/ WriteNack(c)
    \/ ReadRequest(c)
    \/ WriteError(c)
    \/ WriteResponse(c)
    \/ RelayEnds(c)

ServerStep ==
    /\ \/ Start
       \/ AcceptFails
       \/ \E c \in Conns : Accept(c) \/ SessionStep(c) \/ UpstreamDone(c)
    /\ UNCHANGED clientVars

Next ==
    /\ fate = "running"
    /\ (\E c \in Conns : ClientStep(c)) \/ ServerStep
    /\ conf' = conf

Spec == Init /\ [][Next]_vars

\* The io_service runs every handler whose operation has completed; where a
\* write is stuck the end of a peer may or may not be read.  A connect that
\* nobody answers is given up by the kernel, so the direct factory calls back;
\* a SOCKS proxy may never answer, and no timer runs.
Serve(A) == fate = "running" /\ A /\ UNCHANGED <<conf, clientVars>>

Fairness ==
    /\ WF_vars(Serve(Start))
    /\ WF_vars(Serve(AcceptFails))
    /\ WF_vars(Serve(\E c \in Conns : Accept(c)))
    /\ \A c \in Conns : WF_vars(phase[c] # "stuck" /\ Serve(SessionStep(c)))
    /\ \A c \in Conns :
          WF_vars(conf.upstream = "direct" /\ Serve(UpstreamDone(c)))

FairSpec == Spec /\ Fairness

-----------------------------------------------------------------------------
(* Properties *)

\* Type correctness of the server's state.
TypeOK ==
    /\ conf \in Configs
    /\ fate \in {"running", "bindFailed", "notConnected", "lengthError",
                "nullUpstream"}
    /\ acc \in {"init", "off", "accept", "handshake", "stopped"}
    /\ phase \in [Conns -> Phase]
    /\ sock \in [Conns -> {"none", "open", "closing", "closed"}]
    /\ up \in [Conns -> {"none", "open", "closed"}]
    /\ replies \in [Conns -> Seq({"kNoAuth", "kNotSupported", "kSuccess",
                                  "kCommandNotSupported", "kConnectionRefused"})]
    /\ client \in [Conns -> {"open", "eof", "reset"}]
    /\ said \in [Conns -> SUBSET (Hello \cup Offer \cup Request)]
    /\ ended \subseteq Conns

\* Whether the replies written to client c are true to what it said, and an
\* upstream of its session is one it asked for.
TrueReplies(c) ==
    LET r == replies[c] IN
    /\ Len(r) <= 2
    /\ Len(r) >= 1 =>
          r[1] = IF "offerNoAuth" \in said[c] THEN "kNoAuth" ELSE "kNotSupported"
    /\ Len(r) = 2 =>
          /\ r[1] = "kNoAuth"
          /\ r[2] = "kCommandNotSupported" <=> "otherCommand" \in said[c]
          /\ r[2] = "kSuccess" => up[c] # "none"
          /\ r[2] \in {"kSuccess", "kConnectionRefused"} => "connect" \in said[c]
    /\ up[c] # "none" =>
          r # << >> /\ r[1] = "kNoAuth" /\ "connect" \in said[c]

\* The server's side of the SOCKS conversation, whatever the client sends and
\* however it leaves: one method selection, then at most one response, and
\* every reply answers what the client really said.  An upstream exists only
\* for a client that offered kNoAuth, was told kNoAuth and asked to CONNECT;
\* one that was told kNotSupported gets nothing more.
Conversation == \A c \in Conns : TrueReplies(c)

\* An upstream transport never outlives the transport of its client: a client
\* that goes away while the upstream is being connected, while it is told of
\* the success or while data is relayed leaves no upstream behind.
NoOrphanUpstream ==
    \A c \in Conns : up[c] = "open" => sock[c] = "open"

\* Exactly the sessions that are not over hold an open transport, and exactly
\* those that tell of the success or relay hold an upstream: no path through
\* the handlers forgets to close one, or goes on with a closed one.
OpenWhileServed ==
    \A c \in Conns :
        /\ sock[c] = "open" <=> phase[c] \notin {"idle", "queued", "done"}
        /\ up[c] = "open" <=> phase[c] \in {"respond", "relay", "stuck"}

\* The server implements the promise of SocksSession to each of its clients,
\* step by step: no handler replies out of turn, withdraws a reply, uses a
\* transport after closing it or touches another session, and a refusal and
\* the close that follows it cannot be told apart.  A TLS transport that waits
\* for the shutdown of its peer is closed for the session.
Session == INSTANCE SocksSession WITH
              Messages <- Hello \cup Offer \cup Request,
              conn <- [c \in Conns |-> IF sock[c] = "closing" THEN "closed"
                                                             ELSE sock[c]]

SessionSpec == Session!Spec

\* Every client that is gone is noticed and its sockets are given back, in
\* every phase of the session.  There are two exceptions, in which no read is
\* outstanding on the client and no timer runs: a SOCKS upstream that does not
\* answer, and a relay that is stuck with a peer that has stopped reading.
Reclaim ==
    \A c \in Conns :
        (sock[c] # "none" /\ client[c] # "open") ~>
            \/ sock[c] = "closed" /\ up[c] # "open"
            \/ conf.upstream = "socks" /\ phase[c] = "connecting"
            \/ phase[c] = "stuck"
            \/ fate # "running"

\* A complete and proper request of a client that stays is answered.
Answered ==
    \A c \in Conns :
        (phase[c] = "request" /\ said[c] \cap {"connect", "otherCommand"} # {}) ~>
            \/ Len(replies[c]) = 2
            \/ client[c] # "open"
            \/ conf.upstream = "socks" /\ phase[c] = "connecting"
            \/ fate # "running"

\* A connection in the backlog is accepted, unless the loop stopped on an
\* error: HandleNewConnection always asks for more, and no session can hold
\* up the loop of a TCP listener.  A TLS listener waits for a handshake.
Accepted ==
    \A c \in Conns :
        (phase[c] = "queued") ~>
            \/ sock[c] # "none"
            \/ acc = "stopped" \/ fate # "running"
            \/ acc = "handshake"

-----------------------------------------------------------------------------
(* What comments and tests say and the code does not do *)

\* The reset of one client is an error of its session.
ResetEndsOneSession == fate # "notConnected"
=============================================================================
