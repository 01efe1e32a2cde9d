------------------------------- MODULE Relay -------------------------------
(***************************************************************************)
(* The relaying phase of one SOCKS session: SocksTcpServer::StartRelay in  *)
(* both directions, over the two transports of the session.                *)
(*                                                                         *)
(* A direction is named by the side it reads from.  Every asynchronous     *)
(* operation has two steps: the completion of the operation, done by asio  *)
(* and the peer, and later the handler that the code registered for it.    *)
(* All handlers run in the one thread that runs the io_service, so a       *)
(* handler is one step, and a completion may wait in the queue while the   *)
(* handler of the other direction closes the transport under it.           *)
(*                                                                         *)
(* TcpTransportImpl::StartClose closes the socket.  SslTransportImpl's     *)
(* only starts the TLS shutdown: the engine takes no more bytes to write,  *)
(* but a read on that transport completes only when the peer acts.         *)
(***************************************************************************)
EXTENDS Streams, FiniteSets

CONSTANTS
    MaxBytes,          \* bound: bytes each end sends
    kRelayBufferSize,  \* size of the buffer of one direction
    Kinds              \* the kinds of transports a session may have

ASSUME RelayAssumption ==
    /\ MaxBytes \in Nat
    /\ kRelayBufferSize \in Nat \ {0}
    /\ Kinds \subseteq [Side -> {"tcp", "ssl"}]

VARIABLES
    \* The peers.
    sent,              \* sent[s]: how many bytes the peer at side s has sent
    peer,              \* peer[s]: "open", "eof" (sends no more) or "reset"
    stalled,           \* the sides whose peer reads no more, for good
    out,               \* out[s]: the bytes written to the transport of side s
    \* The proxy.
    kind,              \* kind[s]: "tcp" or "ssl", the transport of side s
    sock,              \* sock[s]: "open", or "closed" once StartClose ran
    taken,             \* taken[s]: how many of sent[s] have been read
    op,                \* op[s]: the outstanding operation of direction s
    buf                \* buf[s]: the bytes direction s has read, not written

vars == <<sent, peer, stalled, out, kind, sock, taken, op, buf>>

Op == {"none", "read", "readOk", "readErr", "write", "writeOk", "writeErr"}

Init ==
    /\ sent = [s \in Side |-> 0]
    /\ peer = [s \in Side |-> "open"]
    /\ stalled = {}
    /\ out = [s \in Side |-> << >>]
    /\ kind \in Kinds
    /\ sock = [s \in Side |-> "open"]
    /\ taken = [s \in Side |-> 0]
    /\ op = [s \in Side |-> "read"]
    /\ buf = [s \in Side |-> << >>]

-----------------------------------------------------------------------------
(* The peers *)

\* What still works on the transport of side s: a closed TCP socket reads
\* nothing more, a TLS stream that is shutting down does.
Readable(s) == sock[s] = "open" \/ kind[s] = "ssl"

Send(s) ==
    /\ Readable(s)
    /\ peer[s] = "open"
    /\ sent[s] < MaxBytes
    /\ sent' = [sent EXCEPT ![s] = @ + 1]
    /\ UNCHANGED <<kind, peer, stalled, out, sock, taken, op, buf>>

Eof(s) ==
    /\ Readable(s)
    /\ peer[s] = "open"
    /\ peer' = [peer EXCEPT ![s] = "eof"]
    /\ UNCHANGED <<kind, sent, stalled, out, sock, taken, op, buf>>

Reset(s) ==
    /\ Readable(s)
    /\ peer[s] # "reset"
    /\ peer' = [peer EXCEPT ![s] = "reset"]
    /\ UNCHANGED <<kind, sent, stalled, out, sock, taken, op, buf>>

Stall(s) ==
    /\ peer[s] # "reset"
    /\ s \notin stalled
    /\ stalled' = stalled \cup {s}
    /\ UNCHANGED <<kind, sent, peer, out, sock, taken, op, buf>>

-----------------------------------------------------------------------------
(* TransportBase::StartRead with a short read allowed *)

\* A read that takes from the stream more than the relay's buffer holds.
ReadSome_NoLimit(s) ==
    /\ op[s] = "read"
    /\ Readable(s)
    /\ peer[s] # "reset"
    /\ \E n \in 1..(sent[s] - taken[s]) :
          /\ taken' = [taken EXCEPT ![s] = @ + n]
          /\ buf' = [buf EXCEPT ![s] = Bytes(taken[s], n)]
    /\ op' = [op EXCEPT ![s] = "readOk"]
    /\ UNCHANGED <<kind, sent, peer, stalled, out, sock>>

\* A handler that takes the whole buffer for what was read into it.
ReadSome_WholeBuffer(s) ==
    /\ op[s] = "read"
    /\ Readable(s)
    /\ peer[s] # "reset"
    /\ taken[s] < sent[s]
    /\ taken' = [taken EXCEPT ![s] = @ + kRelayBufferSize]
    /\ buf' = [buf EXCEPT ![s] = Bytes(taken[s], kRelayBufferSize)]
    /\ op' = [op EXCEPT ![s] = "readOk"]
    /\ UNCHANGED <<kind, sent, peer, stalled, out, sock>>

ReadSome(s) ==
    /\ op[s] = "read"
    /\ Readable(s)
    /\ peer[s] # "reset"
    /\ \E n \in 1..kRelayBufferSize :
          /\ taken[s] + n <= sent[s]
          /\ taken' = [taken EXCEPT ![s] = @ + n]
          /\ buf' = [buf EXCEPT ![s] = Bytes(taken[s], n)]
    /\ op' = [op EXCEPT ![s] = "readOk"]
    /\ UNCHANGED <<kind, sent, peer, stalled, out, sock>>

\* The end of the stream is reported as an error, after its last byte; a
\* reset may overtake bytes that have not been read.
ReadFails(s) ==
    /\ op[s] = "read"
    /\ \/ ~Readable(s)
       \/ peer[s] = "reset"
       \/ peer[s] = "eof" /\ taken[s] = sent[s]
    /\ op' = [op EXCEPT ![s] = "readErr"]
    /\ UNCHANGED <<kind, sent, peer, stalled, out, sock, taken, buf>>

-----------------------------------------------------------------------------
(* SocksTcpServer::StartRelay: the handler of the read *)

\* The handler that closes the transport it read from and forgets the other.
RelayClose_FromOnly(s) ==
    /\ op[s] = "readErr"
    /\ op' = [op EXCEPT ![s] = "none"]
    /\ sock' = [sock EXCEPT ![s] = "closed"]
    /\ UNCHANGED <<kind, sent, peer, stalled, out, taken, buf>>

RelayClose(s) ==
    /\ op[s] = "readErr"
    /\ op' = [op EXCEPT ![s] = "none"]
    /\ sock' = [sock EXCEPT ![s] = "closed", ![Other(s)] = "closed"]
    /\ UNCHANGED <<kind, sent, peer, stalled, out, taken, buf>>

\* The handler that starts the next read as soon as it started the write.
RelayForward_Pipelined(s) ==
    /\ op[s] = "readOk"
    /\ op' = [op EXCEPT ![s] = "read"]
    /\ out' = [out EXCEPT ![Other(s)] = @ \o buf[s]]
    /\ UNCHANGED <<kind, sent, peer, stalled, sock, taken, buf>>

RelayForward(s) ==
    /\ op[s] = "readOk"
    /\ op' = [op EXCEPT ![s] = "write"]
    /\ UNCHANGED <<kind, sent, peer, stalled, out, sock, taken, buf>>

-----------------------------------------------------------------------------
(* TransportBase::StartWrite and the handler of the write *)

\* A write_some where the code has async_write: it completes at the first
\* bytes the transport takes.
WriteSome_Short(s) ==
    /\ op[s] = "write"
    /\ sock[Other(s)] = "open"
    /\ peer[Other(s)] # "reset"
    /\ Other(s) \notin stalled
    /\ \E k \in 1..Len(buf[s]) :
          out' = [out EXCEPT ![Other(s)] = @ \o SubSeq(buf[s], 1, k)]
    /\ op' = [op EXCEPT ![s] = "writeOk"]
    /\ UNCHANGED <<kind, sent, peer, stalled, sock, taken, buf>>

\* async_write hands the buffer to the transport piece by piece, and
\* completes with the last one.
WriteSome(s) ==
    /\ op[s] = "write"
    /\ sock[Other(s)] = "open"
    /\ peer[Other(s)] # "reset"
    /\ Other(s) \notin stalled
    /\ \E k \in 1..Len(buf[s]) :
          /\ out' = [out EXCEPT ![Other(s)] = @ \o SubSeq(buf[s], 1, k)]
          /\ buf' = [buf EXCEPT ![s] = SubSeq(@, k + 1, Len(@))]
          /\ op' = IF k = Len(buf[s]) THEN [op EXCEPT ![s] = "writeOk"] ELSE op
    /\ UNCHANGED <<kind, sent, peer, stalled, sock, taken>>

\* A write on a closed socket is aborted.  On a TLS stream that is shutting
\* down the piece under way must first get out.
WriteFails(s) ==
    /\ op[s] = "write"
    /\ \/ peer[Other(s)] = "reset"
       \/ /\ sock[Other(s)] = "closed"
          /\ kind[Other(s)] = "tcp" \/ Other(s) \notin stalled
    /\ op' = [op EXCEPT ![s] = "writeErr"]
    /\ UNCHANGED <<kind, sent, peer, stalled, out, sock, taken, buf>>

\* The handler is StartRelay itself, bound without the write's result: after
\* a failed write too, the direction goes on reading, into a new buffer.
HandleWrite(s) ==
    /\ op[s] \in {"writeOk", "writeErr"}
    /\ op' = [op EXCEPT ![s] = "read"]
    /\ buf' = [buf EXCEPT ![s] = << >>]
    /\ UNCHANGED <<kind, sent, peer, stalled, out, sock, taken>>

-----------------------------------------------------------------------------

ReadDone(s) == ReadSome(s) \/ ReadFails(s)
HandleRead(s) == RelayClose(s) \/ RelayForward(s)
WriteDone(s) == WriteSome(s) \/ WriteFails(s)

Next ==
    \E s \in Side :
        \/ Send(s) \/ Eof(s) \/ Reset(s) \/ Stall(s)
        \/ ReadSome(s) \/ ReadFails(s)
        \/ RelayClose(s) \/ RelayForward(s)
        \/ WriteSome(s) \/ WriteFails(s)
        \/ HandleWrite(s)

\* asio completes what can complete and runs every queued handler; the peers
\* promise nothing.
Fairness ==
    \A s \in Side :
        /\ WF_vars(ReadDone(s))
        /\ WF_vars(HandleRead(s))
        /\ WF_vars(WriteDone(s))
        /\ WF_vars(HandleWrite(s))

Spec == Init /\ [][Next]_vars

FairSpec == Spec /\ Fairness

-----------------------------------------------------------------------------
(* Properties *)

\* Type correctness of the relay's state.
TypeOK ==
    /\ sent \in [Side -> 0..MaxBytes]
    /\ peer \in [Side -> {"open", "eof", "reset"}]
    /\ stalled \subseteq Side
    /\ out \in [Side -> Seq(Nat)]
    /\ kind \in Kinds
    /\ sock \in [Side -> {"open", "closed"}]
    /\ taken \in [Side -> 0..MaxBytes]
    /\ op \in [Side -> Op]
    /\ buf \in [Side -> Seq(Nat)]

\* What StartRelay writes to one transport is, at every moment, a prefix of
\* what the peer at the other one sent: nothing is lost, repeated or
\* reordered, although the result of every write is ignored, a failed write
\* is followed by another read, and either transport may be closed by the
\* other direction at any step.
StreamIntegrity ==
    \A s \in Side :
        \E n \in 0..sent[s] : out[Other(s)] = Bytes(0, n)

\* When a peer ends its stream and the read handler is about to close both
\* transports, every byte that peer sent has been written to the other
\* transport, unless that one was reset or closed before.
Drained ==
    \A s \in Side :
        /\ op[s] = "readErr"
        /\ peer[s] = "eof"
        /\ sock[s] = "open"
        /\ peer[Other(s)] # "reset"
        => out[Other(s)] = Bytes(0, sent[s])

\* While both transports work, a direction holds at most one buffer of bytes
\* that it has read and not written: a slow reader pushes back on the sender.
Backpressure ==
    \A s \in Side :
        /\ sock[Other(s)] = "open"
        /\ peer[Other(s)] # "reset"
        => taken[s] - Len(out[Other(s)]) <= kRelayBufferSize

\* The relay implements a duplex pipe that is closed once, at both ends.
P == INSTANCE Pipe WITH
        state <- IF \E s \in Side : sock[s] = "closed" THEN "closed" ELSE "open"

PipeSpec == P!Spec

\* When a peer ends or resets its stream, both transports get closed, unless
\* the other peer stopped reading: then the write of this direction never
\* completes, there is no timeout, and the end of the stream is never read.
Teardown ==
    \A s \in Side :
        (peer[s] # "open") ~> \/ \A t \in Side : sock[t] = "closed"
                              \/ Other(s) \in stalled

\* Once a transport is closed both directions end, and with them the last
\* references to the transports; only a TLS peer can prevent it, one that
\* neither ends its stream nor resets it, or that stopped reading.
Release ==
    (\E s \in Side : sock[s] = "closed") ~>
        \/ \A s \in Side : op[s] = "none"
        \/ \E s \in Side :
              kind[s] = "ssl" /\ (peer[s] = "open" \/ s \in stalled)
=============================================================================
