------------------------- MODULE SocksServerProofs -------------------------
(***************************************************************************)
(* Proofs about SocksServer, for any number of clients, any limit on the   *)
(* descriptors and every mix of factories.                                 *)
(***************************************************************************)
EXTENDS SocksServer, SequenceTheorems, TLAPS

Replies == {"kNoAuth", "kNotSupported", "kSuccess", "kCommandNotSupported",
            "kConnectionRefused"}

\* A client offers methods once, and asks once.
SaidInv(c) ==
    /\ ~("offerNoAuth" \in said[c] /\ "offerOther" \in said[c])
    /\ ~("connect" \in said[c] /\ "otherCommand" \in said[c])

\* The transports of a session, by what it is waiting for.
TransportInv(c) ==
    /\ phase[c] \in {"idle", "queued"} => sock[c] = "none"
    /\ phase[c] \notin {"idle", "queued", "done"} => sock[c] = "open"
    /\ phase[c] = "done" => sock[c] # "open" /\ up[c] # "open"
    /\ phase[c] \in {"respond", "relay", "stuck"} => up[c] = "open"
    /\ phase[c] \notin {"respond", "relay", "stuck", "done"} => up[c] = "none"

\* What has been said by both sides in a session that is not over.
TalkInv(c) ==
    /\ phase[c] \in {"idle", "queued", "tls", "auth", "ack", "nack"}
          => replies[c] = << >>
    /\ phase[c] \in {"request", "commandError", "connecting", "refusedError",
                     "respond"}
          => replies[c] = <<"kNoAuth">>
    /\ phase[c] \in {"ack", "request", "commandError", "connecting",
                     "refusedError", "respond", "relay", "stuck"}
          => "offerNoAuth" \in said[c]
    /\ phase[c] = "nack" => "offerOther" \in said[c]
    /\ phase[c] = "commandError" => "otherCommand" \in said[c]
    /\ phase[c] \in {"connecting", "refusedError", "respond", "relay", "stuck"}
          => "connect" \in said[c]
    /\ phase[c] \in {"relay", "stuck"} => replies[c] = <<"kNoAuth", "kSuccess">>

\* What had been said when a session ended.
OverInv(c) ==
    phase[c] = "done" =>
        \/ replies[c] = << >> /\ up[c] = "none"
        \/ /\ replies[c] = <<"kNotSupported">>
           /\ up[c] = "none"
           /\ "offerOther" \in said[c]
        \/ /\ replies[c] = <<"kNoAuth">>
           /\ "offerNoAuth" \in said[c]
           /\ up[c] = "none" \/ "connect" \in said[c]
        \/ /\ replies[c] = <<"kNoAuth", "kCommandNotSupported">>
           /\ up[c] = "none"
           /\ {"offerNoAuth", "otherCommand"} \subseteq said[c]
        \/ /\ replies[c] = <<"kNoAuth", "kConnectionRefused">>
           /\ up[c] = "none"
           /\ {"offerNoAuth", "connect"} \subseteq said[c]
        \/ /\ replies[c] = <<"kNoAuth", "kSuccess">>
           /\ up[c] = "closed"
           /\ {"offerNoAuth", "connect"} \subseteq said[c]

SessionInv(c) == SaidInv(c) /\ TransportInv(c) /\ TalkInv(c) /\ OverInv(c)

IInv == TypeOK /\ \A c \in Conns : SessionInv(c)

-----------------------------------------------------------------------------

\* What writing a reply does to the list of replies.
LEMMA Replied ==
    /\ \A x \in Replies : Append(<< >>, x) = <<x>>
    /\ \A x, y \in Replies : Append(<<x>>, y) = <<x, y>>
    /\ \A r \in Seq(Replies), x \in Replies : Append(r, x) \in Seq(Replies)
<1>1. \A x \in Replies : Append(<< >>, x) = <<x>>
  OBVIOUS
<1>2. ASSUME NEW x \in Replies, NEW y \in Replies
      PROVE  Append(<<x>>, y) = <<x, y>>
  <2>1. <<x>> \in Seq(Replies) /\ Len(<<x>>) = 1
    OBVIOUS
  <2>2. /\ Append(<<x>>, y) \in Seq(Replies)
        /\ Len(Append(<<x>>, y)) = 2
        /\ Append(<<x>>, y)[1] = x
        /\ Append(<<x>>, y)[2] = y
    BY <2>1
  <2>3. <<x, y>> \in Seq(Replies) /\ Len(<<x, y>>) = 2
    OBVIOUS
  <2>4. \A i \in 1..2 : Append(<<x>>, y)[i] = <<x, y>>[i]
    BY <2>2
  <2> QED  BY <2>2, <2>3, <2>4, SeqEqual
<1>3. \A r \in Seq(Replies), x \in Replies : Append(r, x) \in Seq(Replies)
  OBVIOUS
<1> QED  BY <1>1, <1>2, <1>3

\* A server that has just been created satisfies the invariant.
LEMMA InitIInv == Init => IInv
<1> SUFFICES ASSUME Init PROVE IInv
  OBVIOUS
<1>1. TypeOK
  <2>1. replies \in [Conns -> Seq(Replies)]
    BY DEF Init
  <2> QED
    BY <2>1, ServerAssumption DEF Init, TypeOK, Phase, Replies
<1>2. ASSUME NEW c \in Conns PROVE SessionInv(c)
  BY DEF Init, SessionInv, SaidInv, TransportInv, TalkInv, OverInv
<1> QED  BY <1>1, <1>2 DEF IInv

\* A handler that writes a reply, or fails to, keeps the replies typed.
LEMMA ReplyTyped ==
    ASSUME TypeOK, NEW c \in Conns, NEW r \in Replies,
           Reply(c, r) \/ ReplyFails(c)
    PROVE  replies' \in [Conns -> Seq(Replies)]
<1>1. replies \in [Conns -> Seq(Replies)]
  BY DEF TypeOK, Replies
<1>2. Append(replies[c], r) \in Seq(Replies)
  BY <1>1, Replied
<1> QED  BY <1>1, <1>2 DEF Reply, ReplyFails

\* Every step preserves typing.
LEMMA StepTypeOK == TypeOK /\ Next => TypeOK'
<1> SUFFICES ASSUME TypeOK, Next PROVE TypeOK'
  OBVIOUS
<1>r. /\ replies \in [Conns -> Seq(Replies)]
      /\ replies' \in [Conns -> Seq(Replies)] =>
            replies' \in [Conns -> Seq({"kNoAuth", "kNotSupported", "kSuccess",
                                  "kCommandNotSupported", "kConnectionRefused"})]
  BY DEF TypeOK, Replies
<1> USE DEF TypeOK, Phase, Goto, Die, StartClose, Closed, clientVars
<1>c. conf' = conf
  BY DEF Next
<1>1. ASSUME NEW c \in Conns, ClientStep(c) PROVE TypeOK'
  <2>1. CASE Connect(c) \/ TargetEnds(c) \/ RelayStalls(c)
    BY <1>c, <2>1 DEF Connect, TargetEnds, RelayStalls
  <2>2. CASE SayHello(c) \/ SayOffer(c) \/ SayRequest(c)
    <3>1. ASSUME NEW kind, kind \in {Hello, Offer, Request}, Say(c, kind)
          PROVE  TypeOK'
      <4>1. PICK m \in kind : said' = [said EXCEPT ![c] = @ \cup {m}]
        BY <3>1 DEF Say
      <4>2. kind \subseteq Hello \cup Offer \cup Request
        BY <3>1
      <4>3. said' \in [Conns -> SUBSET (Hello \cup Offer \cup Request)]
        BY <4>1, <4>2
      <4> QED  BY <1>c, <3>1, <4>3 DEF Say
    <3> QED  BY <2>2, <3>1 DEF SayHello, SayOffer, SayRequest
  <2>3. CASE Leave(c, "eof") \/ Leave(c, "reset")
    BY <1>c, <2>3 DEF Leave
  <2> QED  BY <1>1, <2>1, <2>2, <2>3 DEF ClientStep
<1>2. CASE Start /\ UNCHANGED clientVars
  BY <1>c, <1>2 DEF Start
<1>3. CASE AcceptFails /\ UNCHANGED clientVars
  BY <1>c, <1>3 DEF AcceptFails
<1>4. ASSUME NEW c \in Conns, Accept(c) \/ SessionStep(c) \/ UpstreamDone(c),
             UNCHANGED clientVars
      PROVE  TypeOK'
  <2>1. CASE Accept(c)
    BY <1>c, <1>4, <2>1 DEF Accept
  <2>2. CASE HandshakeOk(c) \/ HandshakeFails(c)
    BY <1>c, <1>4, <2>2 DEF HandshakeOk, HandshakeFails
  <2>3. CASE ReadMethods(c)
    BY <1>c, <1>4, <2>3 DEF ReadMethods
  <2>4. CASE WriteAck(c)
    <3>1. replies' \in [Conns -> Seq(Replies)]
      BY <2>4, ReplyTyped DEF WriteAck, Replies
    <3> QED  BY <1>c, <1>r, <1>4, <2>4, <3>1 DEF WriteAck
  <2>5. CASE WriteNack(c)
    <3>1. replies' \in [Conns -> Seq(Replies)]
      BY <2>5, ReplyTyped DEF WriteNack, Replies
    <3> QED  BY <1>c, <1>r, <1>4, <2>5, <3>1 DEF WriteNack
  <2>6. CASE ReadRequest(c)
    BY <1>c, <1>4, <2>6 DEF ReadRequest, GotoIfConnected
  <2>7. CASE WriteError(c)
    <3>1. replies' \in [Conns -> Seq(Replies)]
      BY <2>7, ReplyTyped DEF WriteError, Replies
    <3> QED  BY <1>c, <1>r, <1>4, <2>7, <3>1 DEF WriteError
  <2>8. CASE WriteResponse(c)
    <3>1. replies' \in [Conns -> Seq(Replies)]
      BY <1>r, <2>8, ReplyTyped DEF WriteResponse, Replies
    <3> QED  BY <1>c, <1>r, <1>4, <2>8, <3>1 DEF WriteResponse
  <2>9. CASE RelayEnds(c)
    BY <1>c, <1>4, <2>9 DEF RelayEnds
  <2>10. CASE UpstreamDone(c)
    BY <1>c, <1>4, <2>10 DEF UpstreamDone
  <2> QED
    BY <1>4, <2>1, <2>2, <2>3, <2>4, <2>5, <2>6, <2>7, <2>8, <2>9, <2>10
    DEF SessionStep
<1> QED  BY <1>1, <1>2, <1>3, <1>4 DEF Next, ServerStep

\* A session whose transports and conversation a step leaves alone keeps its
\* invariant.
LEMMA SessionFrame ==
    ASSUME NEW d, SessionInv(d),
           phase'[d] = phase[d], sock'[d] = sock[d], up'[d] = up[d],
           replies'[d] = replies[d], said'[d] = said[d]
    PROVE  SessionInv(d)'
  BY DEF SessionInv, SaidInv, TransportInv, TalkInv, OverInv

\* What clients and targets do keeps the invariant of every session.
LEMMA ClientStepInv ==
    ASSUME IInv, NEW c \in Conns, ClientStep(c), NEW d \in Conns
    PROVE  SessionInv(d)'
<1>a. TypeOK /\ SessionInv(c) /\ SessionInv(d)
  BY DEF IInv
<1>1. CASE Connect(c)
  <2>1. CASE d # c
    BY <1>a, <1>1, <2>1, SessionFrame DEF Connect, TypeOK
  <2>2. CASE d = c
    BY <1>a, <1>1, <2>2
    DEF Connect, TypeOK, SessionInv, SaidInv, TransportInv, TalkInv, OverInv
  <2> QED  BY <2>1, <2>2
<1>2. ASSUME NEW kind \in {Hello, Offer, Request}, Say(c, kind)
      PROVE  SessionInv(d)'
  <2>1. CASE d # c
    BY <1>a, <1>2, <2>1, SessionFrame DEF Say, TypeOK
  <2>2. CASE d = c
    <3>1. /\ phase' = phase /\ sock' = sock /\ up' = up /\ replies' = replies
          /\ said[c] \subseteq said'[c]
          /\ phase[c] # "done"
      BY <1>a, <1>2 DEF Say, TypeOK
    <3>2. SaidInv(c)'
      <4>1. PICK m \in kind : said' = [said EXCEPT ![c] = @ \cup {m}]
        BY <1>2 DEF Say
      <4>2. said'[c] = said[c] \cup {m}
        BY <1>a, <4>1 DEF TypeOK
      <4>3. said[c] \cap kind = {}
        BY <1>2 DEF Say
      <4>4. CASE kind = Hello
        BY <1>a, <4>2, <4>4 DEF SessionInv, SaidInv, Hello
      <4>5. CASE kind = Offer
        BY <1>a, <4>2, <4>3, <4>5 DEF SessionInv, SaidInv, Offer
      <4>6. CASE kind = Request
        BY <1>a, <4>2, <4>3, <4>6 DEF SessionInv, SaidInv, Request
      <4> QED  BY <1>2, <4>4, <4>5, <4>6
    <3> QED
      BY <1>a, <2>2, <3>1, <3>2 DEF SessionInv, TransportInv, TalkInv, OverInv
  <2> QED  BY <2>1, <2>2
<1>3. CASE Leave(c, "eof") \/ Leave(c, "reset")
  <2>1. CASE d # c
    BY <1>a, <1>3, <2>1, SessionFrame DEF Leave, TypeOK
  <2>2. CASE d = c
    BY <1>a, <1>3, <2>2
    DEF Leave, TypeOK, SessionInv, SaidInv, TransportInv, TalkInv, OverInv
  <2> QED  BY <2>1, <2>2
<1>4. CASE TargetEnds(c)
  BY <1>a, <1>4, SessionFrame DEF TargetEnds
<1>5. CASE RelayStalls(c)
  <2>1. CASE d # c
    BY <1>a, <1>5, <2>1, SessionFrame DEF RelayStalls, Goto, TypeOK
  <2>2. CASE d = c
    BY <1>a, <1>5, <2>2
    DEF RelayStalls, Goto, TypeOK, SessionInv, SaidInv, TransportInv, TalkInv, OverInv
  <2> QED  BY <2>1, <2>2
<1> QED
  BY <1>1, <1>2, <1>3, <1>4, <1>5 DEF ClientStep, SayHello, SayOffer, SayRequest

\* Every step of the accept loop and of a session's handlers keeps the
\* invariant of that session.
LEMMA HandlerInv ==
    ASSUME IInv, NEW c \in Conns, UNCHANGED clientVars,
           Accept(c) \/ SessionStep(c) \/ UpstreamDone(c)
    PROVE  SessionInv(c)'
<1>a. TypeOK /\ SessionInv(c)
  BY DEF IInv
<1>b. /\ Append(<< >>, "kNoAuth") = <<"kNoAuth">>
      /\ Append(<< >>, "kNotSupported") = <<"kNotSupported">>
      /\ Append(<<"kNoAuth">>, "kSuccess") = <<"kNoAuth", "kSuccess">>
      /\ Append(<<"kNoAuth">>, "kCommandNotSupported")
            = <<"kNoAuth", "kCommandNotSupported">>
      /\ Append(<<"kNoAuth">>, "kConnectionRefused")
            = <<"kNoAuth", "kConnectionRefused">>
  BY Replied DEF Replies
<1> USE DEF TypeOK, Goto, Die, StartClose, Closed, clientVars,
            SessionInv, SaidInv, TransportInv, TalkInv, OverInv
<1>1. CASE Accept(c)
  BY <1>a, <1>1 DEF Accept
<1>2. CASE HandshakeOk(c) \/ HandshakeFails(c)
  BY <1>a, <1>2 DEF HandshakeOk, HandshakeFails
<1>3. CASE ReadMethods(c)
  BY <1>a, <1>3 DEF ReadMethods
<1>4. CASE WriteAck(c)
  <2>1. CASE Reply(c, "kNoAuth") /\ Goto(c, "request") /\ sock' = sock
    <3>1. replies'[c] = Append(replies[c], "kNoAuth") /\ phase'[c] = "request"
      BY <1>a, <2>1 DEF Reply
    <3>2. replies[c] = << >>
      BY <1>a, <1>4 DEF WriteAck
    <3>3. replies'[c] = <<"kNoAuth">>
      BY <1>b, <3>1, <3>2
    <3> QED  BY <1>a, <1>4, <2>1, <3>1, <3>3 DEF WriteAck
  <2>2. CASE ReplyFails(c) /\ StartClose(c)
    BY <1>a, <1>4, <2>2 DEF WriteAck, ReplyFails
  <2> QED  BY <1>4, <2>1, <2>2 DEF WriteAck
<1>5. CASE WriteNack(c)
  BY <1>a, <1>b, <1>5 DEF WriteNack, Reply, ReplyFails
<1>6. CASE ReadRequest(c)
  BY <1>a, <1>6 DEF ReadRequest, GotoIfConnected
<1>7. CASE WriteError(c)
  <2>1. /\ phase[c] \in {"commandError", "refusedError"}
        /\ StartClose(c) /\ up' = up
        /\ \/ phase[c] = "commandError" /\ Reply(c, "kCommandNotSupported")
           \/ phase[c] = "refusedError" /\ Reply(c, "kConnectionRefused")
           \/ ReplyFails(c)
    BY <1>7 DEF WriteError
  <2>2. replies[c] = <<"kNoAuth">>
    BY <1>a, <2>1
  <2>3. CASE phase[c] = "commandError" /\ Reply(c, "kCommandNotSupported")
    <3>1. replies'[c] = <<"kNoAuth", "kCommandNotSupported">>
      BY <1>a, <1>b, <2>2, <2>3 DEF Reply
    <3> QED  BY <1>a, <2>1, <2>3, <3>1
  <2>4. CASE phase[c] = "refusedError" /\ Reply(c, "kConnectionRefused")
    <3>1. replies'[c] = <<"kNoAuth", "kConnectionRefused">>
      BY <1>a, <1>b, <2>2, <2>4 DEF Reply
    <3> QED  BY <1>a, <2>1, <2>4, <3>1
  <2>5. CASE ReplyFails(c)
    BY <1>a, <2>1, <2>5 DEF ReplyFails
  <2> QED  BY <2>1, <2>3, <2>4, <2>5
<1>8. CASE WriteResponse(c)
  <2>1. CASE ReplyFails(c) /\ StartClose(c) /\ up' = [up EXCEPT ![c] = "closed"]
    BY <1>a, <1>8, <2>1 DEF WriteResponse, ReplyFails
  <2>2. CASE Die("notConnected")
    BY <1>a, <1>8, <2>2 DEF WriteResponse
  <2>3. CASE Reply(c, "kSuccess") /\ Goto(c, "relay") /\ UNCHANGED <<sock, up>>
    BY <1>a, <1>b, <1>8, <2>3 DEF WriteResponse, Reply
  <2> QED  BY <1>8, <2>1, <2>2, <2>3 DEF WriteResponse
<1>9. CASE RelayEnds(c)
  BY <1>a, <1>9 DEF RelayEnds
<1>10. CASE UpstreamDone(c)
  BY <1>a, <1>10 DEF UpstreamDone
<1> QED
  BY <1>1, <1>2, <1>3, <1>4, <1>5, <1>6, <1>7, <1>8, <1>9, <1>10
  DEF SessionStep

\* A handler of one session leaves the transports and the conversation of
\* every other session alone.
LEMMA HandlerFrame ==
    ASSUME TypeOK, NEW c \in Conns, NEW d \in Conns, d # c, UNCHANGED clientVars,
           Accept(c) \/ SessionStep(c) \/ UpstreamDone(c)
    PROVE  /\ phase'[d] = phase[d] /\ sock'[d] = sock[d] /\ up'[d] = up[d]
           /\ replies'[d] = replies[d] /\ said'[d] = said[d]
<1> USE DEF TypeOK, Goto, Die, StartClose, clientVars, Reply, ReplyFails
<1>1. CASE Accept(c) \/ UpstreamDone(c)
  BY <1>1 DEF Accept, UpstreamDone
<1>2. CASE HandshakeOk(c) \/ HandshakeFails(c) \/ ReadMethods(c) \/ WriteAck(c)
           \/ WriteNack(c)
  BY <1>2 DEF HandshakeOk, HandshakeFails, ReadMethods, WriteAck, WriteNack
<1>3. CASE ReadRequest(c) \/ WriteError(c) \/ WriteResponse(c) \/ RelayEnds(c)
  BY <1>3 DEF ReadRequest, GotoIfConnected, WriteError, WriteResponse, RelayEnds
<1> QED  BY <1>1, <1>2, <1>3 DEF SessionStep

\* Every step preserves the invariant.
LEMMA StepIInv == IInv /\ [Next]_vars => IInv'
<1> SUFFICES ASSUME IInv, [Next]_vars PROVE IInv'
  OBVIOUS
<1>1. CASE Next
  <2>1. TypeOK'
    BY <1>1, StepTypeOK DEF IInv
  <2>2. ASSUME NEW d \in Conns PROVE SessionInv(d)'
    <3>a. TypeOK /\ SessionInv(d)
      BY DEF IInv
    <3>1. ASSUME NEW c \in Conns, ClientStep(c) PROVE SessionInv(d)'
      BY <3>1, ClientStepInv
    <3>2. CASE Start /\ UNCHANGED clientVars
      BY <3>a, <3>2, SessionFrame DEF Start, clientVars
    <3>3. CASE AcceptFails /\ UNCHANGED clientVars
      BY <3>a, <3>3
      DEF AcceptFails, clientVars, TypeOK, SessionInv, SaidInv, TransportInv,
          TalkInv, OverInv
    <3>4. ASSUME NEW c \in Conns, UNCHANGED clientVars,
                 Accept(c) \/ SessionStep(c) \/ UpstreamDone(c)
          PROVE  SessionInv(d)'
      <4>1. CASE d = c
        BY <3>4, <4>1, HandlerInv
      <4>2. CASE d # c
        BY <3>a, <3>4, <4>2, HandlerFrame, SessionFrame
      <4> QED  BY <4>1, <4>2
    <3> QED  BY <1>1, <3>1, <3>2, <3>3, <3>4 DEF Next, ServerStep
  <2> QED  BY <2>1, <2>2 DEF IInv
<1>2. CASE UNCHANGED vars
  BY <1>2
  DEF vars, IInv, TypeOK, SessionInv, SaidInv, TransportInv, TalkInv, OverInv
<1> QED  BY <1>1, <1>2

\* The invariant holds throughout every execution.
LEMMA ServerInvariant == Spec => []IInv
  BY InitIInv, StepIInv, PTL DEF Spec

-----------------------------------------------------------------------------

\* The server's state is well typed.
THEOREM ServerTyping == Spec => []TypeOK
<1>1. IInv => TypeOK
  BY DEF IInv
<1> QED  BY <1>1, ServerInvariant, PTL

\* No path through SocksTcpServer's handlers, whatever the clients do and
\* whatever fails, forgets to close a client's transport or goes on with a
\* closed one.
THEOREM ServerOpenWhileServed == Spec => []OpenWhileServed
<1>1. IInv => OpenWhileServed
  BY DEF IInv, SessionInv, TransportInv, OpenWhileServed
<1> QED  BY <1>1, ServerInvariant, PTL

\* The upstream transport that StartRequest hands to a session is closed with
\* the client's, on every path.
THEOREM ServerNoOrphanUpstream == Spec => []NoOrphanUpstream
<1>1. OpenWhileServed => NoOrphanUpstream
  BY DEF OpenWhileServed, NoOrphanUpstream
<1> QED  BY <1>1, ServerOpenWhileServed, PTL

\* What a session's replies can be, and what they say of its client.
LEMMA ReplyShapes ==
    ASSUME IInv, NEW c \in Conns
    PROVE  \/ replies[c] = << >> /\ up[c] = "none"
           \/ /\ replies[c] = <<"kNotSupported">>
              /\ up[c] = "none"
              /\ "offerNoAuth" \notin said[c]
           \/ /\ replies[c] = <<"kNoAuth">>
              /\ "offerNoAuth" \in said[c]
              /\ up[c] = "none" \/ "connect" \in said[c]
           \/ /\ replies[c] = <<"kNoAuth", "kCommandNotSupported">>
              /\ up[c] = "none"
              /\ "offerNoAuth" \in said[c] /\ "otherCommand" \in said[c]
           \/ /\ \/ replies[c] = <<"kNoAuth", "kConnectionRefused">>
                       /\ up[c] = "none"
                 \/ replies[c] = <<"kNoAuth", "kSuccess">> /\ up[c] # "none"
              /\ "offerNoAuth" \in said[c] /\ "connect" \in said[c]
              /\ "otherCommand" \notin said[c]
<1>1. SessionInv(c) /\ phase[c] \in Phase
  BY DEF IInv, TypeOK
<1>2. CASE phase[c] = "done"
  BY <1>1, <1>2 DEF SessionInv, SaidInv, OverInv
<1>3. CASE phase[c] # "done"
  BY <1>1, <1>3 DEF SessionInv, SaidInv, TransportInv, TalkInv, Phase
<1> QED  BY <1>2, <1>3

\* The replies that SocksTcpServer writes to a client are one method selection
\* and at most one response, each true to what the client said, and an
\* upstream is requested only for a client that was let in and asked for it.
THEOREM ServerConversation == Spec => []Conversation
<1>1. IInv => Conversation
  <2> SUFFICES ASSUME IInv PROVE Conversation
    OBVIOUS
  <2>1. ASSUME NEW c \in Conns PROVE TrueReplies(c)
    <3>1. CASE replies[c] = << >> /\ up[c] = "none"
      BY <3>1 DEF TrueReplies
    <3>2. CASE replies[c] = <<"kNotSupported">> /\ up[c] = "none"
               /\ "offerNoAuth" \notin said[c]
      BY <3>2 DEF TrueReplies
    <3>3. CASE replies[c] = <<"kNoAuth">> /\ "offerNoAuth" \in said[c]
               /\ (up[c] = "none" \/ "connect" \in said[c])
      BY <3>3 DEF TrueReplies
    <3>4. CASE replies[c] = <<"kNoAuth", "kCommandNotSupported">>
               /\ up[c] = "none" /\ "offerNoAuth" \in said[c]
               /\ "otherCommand" \in said[c]
      BY <3>4 DEF TrueReplies
    <3>5. CASE replies[c] = <<"kNoAuth", "kConnectionRefused">> /\ up[c] = "none"
               /\ "offerNoAuth" \in said[c] /\ "connect" \in said[c]
               /\ "otherCommand" \notin said[c]
      BY <3>5 DEF TrueReplies
    <3>6. CASE replies[c] = <<"kNoAuth", "kSuccess">> /\ up[c] # "none"
               /\ "offerNoAuth" \in said[c] /\ "connect" \in said[c]
               /\ "otherCommand" \notin said[c]
      BY <3>6 DEF TrueReplies
    <3> QED  BY <3>1, <3>2, <3>3, <3>4, <3>5, <3>6, ReplyShapes
  <2> QED  BY <2>1 DEF Conversation
<1> QED  BY <1>1, ServerInvariant, PTL

-----------------------------------------------------------------------------
(* The server implements SocksSession *)

\* The connection of a client as SocksSession has it.
Conn == [c \in Conns |-> IF sock[c] = "closing" THEN "closed" ELSE sock[c]]

\* Closing a client's transport closes its connection, for either listener.
LEMMA ClosedConn ==
    ASSUME TypeOK, NEW c \in Conns,
           sock' \in {[sock EXCEPT ![c] = "closed"], [sock EXCEPT ![c] = "closing"]}
    PROVE  Conn' = [Conn EXCEPT ![c] = "closed"]
  BY DEF TypeOK, Conn

\* What StartClose does to the session and its connection.
LEMMA StartCloseConn ==
    ASSUME TypeOK, NEW c \in Conns, StartClose(c)
    PROVE  Conn' = [Conn EXCEPT ![c] = "closed"]
<1>1. sock' \in {[sock EXCEPT ![c] = "closed"], [sock EXCEPT ![c] = "closing"]}
  BY DEF StartClose, Closed
<1> QED  BY <1>1, ClosedConn

\* A session that is served has an open connection.
LEMMA ServedConn ==
    ASSUME IInv, NEW c \in Conns, phase[c] \notin {"idle", "queued", "done"}
    PROVE  Conn[c] = "open"
  BY DEF IInv, SessionInv, TransportInv, Conn

\* A step that leaves what clients see alone.
LEMMA SessionStutter ==
    ASSUME UNCHANGED <<sock, up, replies, said>>
    PROVE  UNCHANGED Session!vars
  BY DEF Session!vars

\* What clients do is a message or nothing to the conversation.
LEMMA ClientImplements ==
    ASSUME IInv, NEW c \in Conns, ClientStep(c)
    PROVE  [Session!Next]_(Session!vars)
<1>a. TypeOK /\ SessionInv(c)
  BY DEF IInv
<1>1. CASE Connect(c) \/ TargetEnds(c) \/ RelayStalls(c)
  BY <1>1, SessionStutter DEF Connect, TargetEnds, RelayStalls
<1>2. ASSUME NEW kind \in {Hello, Offer, Request}, Say(c, kind)
      PROVE  Session!Next
  <2>1. PICK m \in kind : said' = [said EXCEPT ![c] = @ \cup {m}]
    BY <1>2 DEF Say
  <2>2. m \in Hello \cup Offer \cup Request
    BY <1>2, <2>1
  <2>3. sock[c] \in {"none", "open"}
    BY <1>a, <1>2 DEF Say, SessionInv, TransportInv
  <2>4. UNCHANGED <<sock, up, replies>>
    BY <1>2 DEF Say
  <2>5. Session!Say(c)
    BY <2>1, <2>2, <2>3, <2>4 DEF Session!Say
  <2> QED  BY <2>5 DEF Session!Next
<1>3. CASE Leave(c, "eof") \/ Leave(c, "reset")
  <2>1. Conn' = Conn
    BY <1>a, <1>3 DEF Leave, TypeOK, Conn
  <2>2. UNCHANGED <<up, replies, said>>
    BY <1>3 DEF Leave
  <2> QED  BY <2>1, <2>2 DEF Conn, Session!vars
<1> QED
  BY <1>1, <1>2, <1>3 DEF ClientStep, SayHello, SayOffer, SayRequest

\* The end of a session without a reply.
LEMMA CloseImplements ==
    ASSUME IInv, NEW c \in Conns, UNCHANGED <<replies, said>>,
           phase[c] \notin {"idle", "queued", "done"},
           Conn' = [Conn EXCEPT ![c] = "closed"],
           \/ phase[c] \notin {"respond", "relay", "stuck"} /\ up' = up
           \/ phase[c] \in {"respond", "relay", "stuck"} /\ up' = [up EXCEPT ![c] = "closed"]
    PROVE  Session!Next
<1>1. up' = [up EXCEPT ![c] = IF @ = "open" THEN "closed" ELSE @]
  BY DEF IInv, TypeOK, SessionInv, TransportInv
<1>2. Conn[c] = "open"
  BY ServedConn
<1>3. Session!Close(c)
  BY <1>1, <1>2 DEF Session!Close, Conn
<1> QED  BY <1>3 DEF Session!Next

\* The last reply of a session, written and followed by StartClose.
LEMMA RefusalImplements ==
    ASSUME IInv, NEW c \in Conns, UNCHANGED <<up, said>>, StartClose(c),
           \/ phase[c] = "nack" /\ Reply(c, "kNotSupported")
           \/ phase[c] = "commandError" /\ Reply(c, "kCommandNotSupported")
           \/ phase[c] = "refusedError" /\ Reply(c, "kConnectionRefused")
    PROVE  Session!Next
<1>a. TypeOK /\ SessionInv(c)
  BY DEF IInv
<1>b. /\ Append(<< >>, "kNotSupported") = <<"kNotSupported">>
      /\ Append(<<"kNoAuth">>, "kCommandNotSupported")
            = <<"kNoAuth", "kCommandNotSupported">>
      /\ Append(<<"kNoAuth">>, "kConnectionRefused")
            = <<"kNoAuth", "kConnectionRefused">>
  BY Replied DEF Replies
<1>1. Conn' = [Conn EXCEPT ![c] = "closed"] /\ Conn[c] = "open"
  BY <1>a, StartCloseConn, ServedConn
<1>2. replies \in [Conns -> Seq(Replies)]
  BY <1>a DEF TypeOK, Replies
<1>3. CASE phase[c] = "nack" /\ Reply(c, "kNotSupported")
  <2>1. replies[c] = << >> /\ "offerOther" \in said[c] /\ up[c] = "none"
    BY <1>a, <1>3 DEF SessionInv, TalkInv, TransportInv
  <2>2. replies' = [replies EXCEPT ![c] = <<"kNotSupported">>]
    BY <1>b, <1>3, <2>1 DEF Reply
  <2>3. Session!Refuse(c)
    BY <1>1, <2>1, <2>2 DEF Session!Refuse, Session!Tell, Conn
  <2> QED  BY <2>3 DEF Session!Next
<1>4. CASE phase[c] = "commandError" /\ Reply(c, "kCommandNotSupported")
  <2>1. replies[c] = <<"kNoAuth">> /\ "otherCommand" \in said[c] /\ up[c] = "none"
    BY <1>a, <1>4 DEF SessionInv, TalkInv, TransportInv
  <2>2. replies' = [replies EXCEPT ![c] = <<"kNoAuth", "kCommandNotSupported">>]
    BY <1>b, <1>4, <2>1 DEF Reply
  <2>3. Session!Refuse(c)
    BY <1>1, <2>1, <2>2 DEF Session!Refuse, Session!Tell, Conn
  <2> QED  BY <2>3 DEF Session!Next
<1>5. CASE phase[c] = "refusedError" /\ Reply(c, "kConnectionRefused")
  <2>1. replies[c] = <<"kNoAuth">> /\ "connect" \in said[c] /\ up[c] = "none"
    BY <1>a, <1>5 DEF SessionInv, TalkInv, TransportInv
  <2>2. replies' = [replies EXCEPT ![c] = <<"kNoAuth", "kConnectionRefused">>]
    BY <1>b, <1>5, <2>1 DEF Reply
  <2>3. Session!Refuse(c)
    BY <1>1, <2>1, <2>2 DEF Session!Refuse, Session!Tell, Conn
  <2> QED  BY <2>3 DEF Session!Next
<1> QED  BY <1>3, <1>4, <1>5

\* Every step of the accept loop and of a session's handlers is one step of
\* the conversation with that client, or none.
LEMMA HandlerImplements ==
    ASSUME IInv, NEW c \in Conns, UNCHANGED clientVars,
           Accept(c) \/ SessionStep(c) \/ UpstreamDone(c)
    PROVE  [Session!Next]_(Session!vars)
<1>a. TypeOK /\ SessionInv(c) /\ said' = said
  BY DEF IInv, clientVars
<1>d. ASSUME NEW cause, Die(cause) PROVE UNCHANGED Session!vars
  BY <1>a, <1>d, SessionStutter DEF Die
<1>1. CASE Accept(c)
  <2>1. CASE Die("notConnected")
    BY <1>d, <2>1
  <2>2. CASE sock' = [sock EXCEPT ![c] = "open"] /\ UNCHANGED <<up, replies>>
    <3>1. sock[c] = "none"
      BY <1>a, <1>1 DEF Accept, SessionInv, TransportInv
    <3>2. Conn[c] = "none" /\ Conn' = [Conn EXCEPT ![c] = "open"]
      BY <1>a, <2>2, <3>1 DEF TypeOK, Conn
    <3>3. Session!Open(c)
      BY <1>a, <2>2, <3>2 DEF Session!Open, Conn
    <3> QED  BY <3>3 DEF Session!Next
  <2> QED  BY <1>1, <2>1, <2>2 DEF Accept
<1>2. CASE HandshakeOk(c)
  BY <1>a, <1>d, <1>2, SessionStutter DEF HandshakeOk
<1>3. CASE HandshakeFails(c)
  <2>1. CASE Die("notConnected")
    BY <1>d, <2>1
  <2>2. CASE sock' = [sock EXCEPT ![c] = "closed"] /\ UNCHANGED <<up, replies>>
    <3>1. phase[c] = "tls"
      BY <1>3 DEF HandshakeFails
    <3>2. Conn' = [Conn EXCEPT ![c] = "closed"]
      BY <1>a, <2>2, ClosedConn
    <3> QED  BY <1>a, <2>2, <3>1, <3>2, CloseImplements
  <2> QED  BY <1>3, <2>1, <2>2 DEF HandshakeFails
<1>4. CASE ReadMethods(c)
  <2>1. phase[c] = "auth" /\ UNCHANGED <<up, replies>>
    BY <1>4 DEF ReadMethods
  <2>2. CASE StartClose(c)
    BY <1>a, <2>1, <2>2, StartCloseConn, CloseImplements
  <2>3. CASE sock' = sock
    BY <1>a, <2>1, <2>3, SessionStutter
  <2> QED  BY <1>4, <2>2, <2>3 DEF ReadMethods
<1>5. CASE WriteAck(c)
  <2>1. phase[c] = "ack" /\ up' = up
    BY <1>5 DEF WriteAck
  <2>2. CASE Reply(c, "kNoAuth") /\ sock' = sock
    <3>1. replies[c] = << >> /\ "offerNoAuth" \in said[c]
      BY <1>a, <2>1 DEF SessionInv, TalkInv
    <3>2. Append(<< >>, "kNoAuth") = <<"kNoAuth">>
      BY Replied DEF Replies
    <3>3. replies' = [replies EXCEPT ![c] = <<"kNoAuth">>]
      BY <2>2, <3>1, <3>2 DEF Reply
    <3>4. Conn[c] = "open"
      BY <2>1, ServedConn
    <3>5. Session!Grant(c)
      BY <1>a, <2>1, <2>2, <3>1, <3>3, <3>4 DEF Session!Grant, Session!Tell, Conn
    <3> QED  BY <3>5 DEF Session!Next
  <2>3. CASE ReplyFails(c) /\ StartClose(c)
    BY <1>a, <2>1, <2>3, StartCloseConn, CloseImplements DEF ReplyFails
  <2> QED  BY <1>5, <2>2, <2>3 DEF WriteAck
<1>6. CASE WriteNack(c) \/ WriteError(c)
  <2>1. /\ phase[c] \in {"nack", "commandError", "refusedError"}
        /\ StartClose(c) /\ up' = up
    BY <1>6 DEF WriteNack, WriteError
  <2>2. CASE ReplyFails(c)
    BY <1>a, <2>1, <2>2, StartCloseConn, CloseImplements DEF ReplyFails
  <2>3. CASE ~ReplyFails(c)
    <3>1. \/ phase[c] = "nack" /\ Reply(c, "kNotSupported")
          \/ phase[c] = "commandError" /\ Reply(c, "kCommandNotSupported")
          \/ phase[c] = "refusedError" /\ Reply(c, "kConnectionRefused")
      BY <1>6, <2>3 DEF WriteNack, WriteError
    <3> QED  BY <1>a, <2>1, <3>1, RefusalImplements
  <2> QED  BY <2>2, <2>3
<1>7. CASE ReadRequest(c)
  <2>1. phase[c] = "request"
    BY <1>7 DEF ReadRequest
  <2>2. CASE StartClose(c) /\ UNCHANGED <<up, replies>>
    BY <1>a, <2>1, <2>2, StartCloseConn, CloseImplements
  <2>3. CASE UNCHANGED <<sock, up, replies>>
    BY <1>a, <2>3, SessionStutter
  <2>4. CASE sock' = [sock EXCEPT ![c] = "closed"] /\ UNCHANGED <<up, replies>>
    BY <1>a, <2>1, <2>4, ClosedConn, CloseImplements
  <2> QED  BY <1>7, <2>2, <2>3, <2>4 DEF ReadRequest, GotoIfConnected, Die
<1>8. CASE WriteResponse(c)
  <2>1. phase[c] = "respond"
    BY <1>8 DEF WriteResponse
  <2>2. CASE ReplyFails(c) /\ StartClose(c) /\ up' = [up EXCEPT ![c] = "closed"]
    BY <1>a, <2>1, <2>2, StartCloseConn, CloseImplements DEF ReplyFails
  <2>3. CASE Die("notConnected")
    BY <1>d, <2>3
  <2>4. CASE Reply(c, "kSuccess") /\ UNCHANGED <<sock, up>>
    <3>1. replies[c] = <<"kNoAuth">> /\ up[c] = "open"
      BY <1>a, <2>1 DEF SessionInv, TalkInv, TransportInv
    <3>2. Append(<<"kNoAuth">>, "kSuccess") = <<"kNoAuth", "kSuccess">>
      BY Replied DEF Replies
    <3>3. replies' = [replies EXCEPT ![c] = <<"kNoAuth", "kSuccess">>]
      BY <2>4, <3>1, <3>2 DEF Reply
    <3>4. Conn[c] = "open"
      BY <2>1, ServedConn
    <3>5. Session!Grant(c)
      BY <1>a, <2>4, <3>1, <3>3, <3>4 DEF Session!Grant, Session!Tell, Conn
    <3> QED  BY <3>5 DEF Session!Next
  <2> QED  BY <1>8, <2>2, <2>3, <2>4 DEF WriteResponse
<1>9. CASE RelayEnds(c)
  <2>1. phase[c] \in {"relay", "stuck"} /\ StartClose(c) /\ up' = [up EXCEPT ![c] = "closed"]
        /\ replies' = replies
    BY <1>9 DEF RelayEnds
  <2> QED  BY <1>a, <2>1, StartCloseConn, CloseImplements
<1>10. CASE UpstreamDone(c)
  <2>1. phase[c] = "connecting"
    BY <1>10 DEF UpstreamDone
  <2>2. CASE up' = [up EXCEPT ![c] = "open"] /\ UNCHANGED <<sock, replies>>
    <3>1. replies[c] = <<"kNoAuth">> /\ "connect" \in said[c] /\ up[c] = "none"
      BY <1>a, <2>1 DEF SessionInv, TalkInv, TransportInv
    <3>2. Conn[c] = "open"
      BY <2>1, ServedConn
    <3>3. Session!Reach(c)
      BY <1>a, <2>2, <3>1, <3>2 DEF Session!Reach, Conn
    <3> QED  BY <3>3 DEF Session!Next
  <2>3. CASE UNCHANGED <<sock, up, replies>>
    BY <1>a, <2>3, SessionStutter
  <2>4. CASE sock' = [sock EXCEPT ![c] = "closed"] /\ UNCHANGED <<up, replies>>
    BY <1>a, <2>1, <2>4, ClosedConn, CloseImplements
  <2> QED  BY <1>10, <2>2, <2>3, <2>4 DEF UpstreamDone, Die
<1> QED
  BY <1>1, <1>2, <1>3, <1>4, <1>5, <1>6, <1>7, <1>8, <1>9, <1>10
  DEF SessionStep

\* SocksTcpServer keeps the promise of SocksSession, for any number of clients
\* and every mix of factories: each step of its accept loop, of a handler, of a
\* client or of a target is one step of one client's conversation, or none.
THEOREM ServerImplementsSession == Spec => SessionSpec
<1>1. Init => Session!Init
  BY DEF Init, Session!Init
<1>2. IInv /\ [Next]_vars => [Session!Next]_(Session!vars)
  <2> SUFFICES ASSUME IInv, [Next]_vars PROVE [Session!Next]_(Session!vars)
    OBVIOUS
  <2>1. CASE UNCHANGED vars
    BY <2>1, SessionStutter DEF vars
  <2>2. ASSUME NEW c \in Conns, ClientStep(c)
        PROVE  [Session!Next]_(Session!vars)
    BY <2>2, ClientImplements
  <2>3. CASE (Start \/ AcceptFails) /\ UNCHANGED clientVars
    BY <2>3, SessionStutter DEF Start, AcceptFails, clientVars
  <2>4. ASSUME NEW c \in Conns, UNCHANGED clientVars,
               Accept(c) \/ SessionStep(c) \/ UpstreamDone(c)
        PROVE  [Session!Next]_(Session!vars)
    BY <2>4, HandlerImplements
  <2> QED  BY <2>1, <2>2, <2>3, <2>4 DEF Next, ServerStep
<1> QED
  BY <1>1, <1>2, ServerInvariant, PTL DEF Spec, SessionSpec, Session!Spec

=============================================================================
