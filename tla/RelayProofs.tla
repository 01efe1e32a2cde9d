---------------------------- MODULE RelayProofs ----------------------------
(***************************************************************************)
(* Proofs about Relay, for every bound MaxBytes, every buffer size and     *)
(* every kind of transport on either side.                                 *)
(***************************************************************************)
EXTENDS Relay, TLAPS

-----------------------------------------------------------------------------
(* Facts about byte streams *)

\* Bytes(lo, n) is a sequence of n bytes, the numbers lo+1 to lo+n.
LEMMA BytesFacts ==
    ASSUME NEW lo \in Nat, NEW n \in Nat
    PROVE  /\ Bytes(lo, n) \in Seq(Nat)
           /\ Len(Bytes(lo, n)) = n
           /\ \A i \in 1..n : Bytes(lo, n)[i] = lo + i
  BY DEF Bytes

\* No bytes are the empty sequence.
LEMMA BytesEmpty ==
    ASSUME NEW lo \in Nat
    PROVE  Bytes(lo, 0) = << >>
  BY DEF Bytes

\* Writing the first k bytes of a buffer that continues a stream extends the
\* stream by k bytes.
LEMMA BytesAppend ==
    ASSUME NEW a \in Nat, NEW n \in Nat, NEW k \in 1..n
    PROVE  Bytes(0, a) \o SubSeq(Bytes(a, n), 1, k) = Bytes(0, a + k)
  BY DEF Bytes

\* What remains of the buffer continues the extended stream.
LEMMA BytesRest ==
    ASSUME NEW a \in Nat, NEW n \in Nat, NEW k \in 1..n
    PROVE  SubSeq(Bytes(a, n), k + 1, n) = Bytes(a + k, n - k)
  BY DEF Bytes

\* Every side has another one, and there is no third.
LEMMA OtherSide ==
    ASSUME NEW s \in Side
    PROVE  \E t \in Side : t = Other(s) /\ s = Other(t) /\ s # t /\ Side = {s, t}
  BY DEF Side, Other

-----------------------------------------------------------------------------
(* The inductive invariant *)

\* A write towards side t may still succeed.  Both ways of losing this are
\* final, which is why ignoring a failed write is sound.
Works(t) == sock[t] = "open" /\ peer[t] # "reset"

\* The two transports of a session are closed together, and what direction s
\* has written is a prefix of what it has read.
StreamInv(s) ==
    /\ sock[Other(s)] = sock[s]
    /\ taken[s] <= sent[s]
    /\ Len(out[Other(s)]) <= taken[s]
    /\ out[Other(s)] = Bytes(0, Len(out[Other(s)]))
    /\ Len(buf[s]) <= kRelayBufferSize

\* As long as writes work, the buffer of direction s is exactly what it has
\* read and not written.
BufferInv(s) ==
    Works(Other(s)) =>
        /\ taken[s] = Len(out[Other(s)]) + Len(buf[s])
        /\ buf[s] = Bytes(Len(out[Other(s)]), Len(buf[s]))

\* What the outstanding operation of direction s tells of its past.
OpInv(s) ==
    /\ op[s] \in {"read", "readErr", "writeOk"} => buf[s] = << >>
    /\ op[s] = "writeErr" => ~Works(Other(s))
    /\ op[s] = "readErr" => \/ sock[s] = "closed"
                            \/ peer[s] = "reset"
                            \/ peer[s] = "eof" /\ taken[s] = sent[s]

DirInv(s) == StreamInv(s) /\ BufferInv(s) /\ OpInv(s)

IInv == TypeOK /\ \A s \in Side : DirInv(s)

\* The initial state satisfies the invariant.
LEMMA InitIInv == Init => IInv
<1> SUFFICES ASSUME Init PROVE IInv
  OBVIOUS
<1>1. Bytes(0, 0) = << >>
  BY BytesEmpty
<1>2. TypeOK
  BY RelayAssumption DEF Init, TypeOK, Op
<1>3. ASSUME NEW s \in Side PROVE DirInv(s)
  <2>1. PICK t \in Side : t = Other(s)
    BY OtherSide
  <2>2. Len(<< >>) = 0
    OBVIOUS
  <2> QED
    BY <1>1, <2>1, <2>2, RelayAssumption
    DEF Init, DirInv, StreamInv, BufferInv, OpInv
<1> QED  BY <1>2, <1>3 DEF IInv

\* What the peers do preserves it: they send more, or break for good.
LEMMA PeerStep ==
    ASSUME IInv, NEW s \in Side,
           Send(s) \/ Eof(s) \/ Reset(s) \/ Stall(s)
    PROVE  IInv'
<1> USE RelayAssumption
<1>1. PICK t \in Side : t = Other(s) /\ s = Other(t) /\ s # t /\ Side = {s, t}
  BY OtherSide
<1>2. TypeOK /\ DirInv(s) /\ DirInv(t)
  BY DEF IInv
<1>3. CASE Send(s)
  <2>1. TypeOK'
    BY <1>2, <1>3, SMTT(30) DEF TypeOK, Send, Op
  <2>2. DirInv(s)'
    BY <1>3, <1>1, <1>2 DEF TypeOK, DirInv, StreamInv, BufferInv, OpInv, Works, Send
  <2>3. DirInv(t)'
    BY <1>3, <1>1, <1>2 DEF TypeOK, DirInv, StreamInv, BufferInv, OpInv, Works, Send
  <2> QED  BY <2>1, <2>2, <2>3, <1>1 DEF IInv
<1>4. CASE Eof(s)
  <2>1. TypeOK'
    BY <1>2, <1>4 DEF TypeOK, Eof, Op
  <2>2. DirInv(s)'
    BY <1>4, <1>1, <1>2 DEF TypeOK, DirInv, StreamInv, BufferInv, OpInv, Works, Eof
  <2>3. DirInv(t)'
    BY <1>4, <1>1, <1>2 DEF TypeOK, DirInv, StreamInv, BufferInv, OpInv, Works, Eof
  <2> QED  BY <2>1, <2>2, <2>3, <1>1 DEF IInv
<1>5. CASE Reset(s)
  <2>1. TypeOK'
    BY <1>2, <1>5 DEF TypeOK, Reset, Op
  <2>2. DirInv(s)'
    BY <1>5, <1>1, <1>2 DEF TypeOK, DirInv, StreamInv, BufferInv, OpInv, Works, Reset
  <2>3. DirInv(t)'
    BY <1>5, <1>1, <1>2 DEF TypeOK, DirInv, StreamInv, BufferInv, OpInv, Works, Reset
  <2> QED  BY <2>1, <2>2, <2>3, <1>1 DEF IInv
<1>6. CASE Stall(s)
  <2>1. TypeOK'
    BY <1>2, <1>6 DEF TypeOK, Stall, Op
  <2>2. DirInv(s)'
    BY <1>6, <1>1, <1>2 DEF TypeOK, DirInv, StreamInv, BufferInv, OpInv, Works, Stall
  <2>3. DirInv(t)'
    BY <1>6, <1>1, <1>2 DEF TypeOK, DirInv, StreamInv, BufferInv, OpInv, Works, Stall
  <2> QED  BY <2>1, <2>2, <2>3, <1>1 DEF IInv
<1> QED  BY <1>3, <1>4, <1>5, <1>6

\* A completed read preserves it: the buffer continues the bytes written.
LEMMA ReadStep ==
    ASSUME IInv, NEW s \in Side, ReadSome(s) \/ ReadFails(s)
    PROVE  IInv'
<1> USE RelayAssumption
<1>1. PICK t \in Side : t = Other(s) /\ s = Other(t) /\ s # t /\ Side = {s, t}
  BY OtherSide
<1>2. TypeOK /\ DirInv(s) /\ DirInv(t)
  BY DEF IInv
<1>3. CASE ReadSome(s)
  <2>1. PICK n \in 1..kRelayBufferSize :
            /\ taken[s] + n <= sent[s]
            /\ taken' = [taken EXCEPT ![s] = @ + n]
            /\ buf' = [buf EXCEPT ![s] = Bytes(taken[s], n)]
    BY <1>3 DEF ReadSome
  <2>2. /\ Len(Bytes(taken[s], n)) = n
        /\ Bytes(taken[s], n) \in Seq(Nat)
    <3>1. taken[s] \in Nat /\ n \in Nat
      BY <1>2 DEF TypeOK
    <3> QED  BY <3>1, BytesFacts
  <2>3. TypeOK'
    <3>1. taken[s] + n \in 0..MaxBytes
      BY <1>2, <2>1 DEF TypeOK
    <3>2. /\ taken' \in [Side -> 0..MaxBytes]
          /\ buf' \in [Side -> Seq(Nat)]
      BY <1>2, <2>1, <2>2, <3>1 DEF TypeOK
    <3>3. /\ op' = [op EXCEPT ![s] = "readOk"]
          /\ UNCHANGED <<kind, sent, peer, stalled, out, sock>>
      BY <1>3 DEF ReadSome
    <3> QED  BY <1>2, <3>2, <3>3 DEF TypeOK, Op
  <2>4. buf[s] = << >> /\ Len(buf[s]) = 0
    BY <1>2, <1>3 DEF ReadSome, DirInv, OpInv
  <2>5. StreamInv(s)' /\ OpInv(s)'
    BY <1>1, <1>2, <1>3, <2>1, <2>2, SMTT(30)
    DEF TypeOK, DirInv, StreamInv, OpInv, ReadSome
  <2>6. BufferInv(s)'
    <3>1. buf'[s] = Bytes(taken[s], n) /\ taken'[s] = taken[s] + n
      BY <1>2, <2>1 DEF TypeOK
    <3>2. Works(t) => taken[s] = Len(out[t])
      BY <1>1, <1>2, <2>4 DEF TypeOK, DirInv, BufferInv
    <3> QED
      BY <1>1, <1>3, <2>2, <3>1, <3>2 DEF BufferInv, Works, ReadSome
  <2>7. DirInv(t)'
    BY <1>1, <1>2, <1>3, <2>1
    DEF TypeOK, DirInv, StreamInv, BufferInv, OpInv, Works, ReadSome
  <2> QED  BY <1>1, <2>3, <2>5, <2>6, <2>7 DEF IInv, DirInv
<1>4. CASE ReadFails(s)
  <2>1. TypeOK'
    BY <1>2, <1>4 DEF TypeOK, ReadFails, Op
  <2>2. DirInv(s)'
    BY <1>4, <1>1, <1>2 DEF TypeOK, DirInv, StreamInv, BufferInv, OpInv, Works, ReadFails, Readable
  <2>3. DirInv(t)'
    BY <1>4, <1>1, <1>2 DEF TypeOK, DirInv, StreamInv, BufferInv, OpInv, Works, ReadFails, Readable
  <2> QED  BY <2>1, <2>2, <2>3, <1>1 DEF IInv
<1> QED  BY <1>3, <1>4

\* The handler of a read preserves it: it closes both transports or none.
LEMMA HandleReadStep ==
    ASSUME IInv, NEW s \in Side, RelayClose(s) \/ RelayForward(s)
    PROVE  IInv'
<1> USE RelayAssumption
<1>1. PICK t \in Side : t = Other(s) /\ s = Other(t) /\ s # t /\ Side = {s, t}
  BY OtherSide
<1>2. TypeOK /\ DirInv(s) /\ DirInv(t)
  BY DEF IInv
<1>3. CASE RelayClose(s)
  <2>1. TypeOK'
    BY <1>2, <1>3 DEF TypeOK, RelayClose, Op
  <2>2. DirInv(s)'
    BY <1>3, <1>1, <1>2 DEF TypeOK, DirInv, StreamInv, BufferInv, OpInv, Works, RelayClose
  <2>3. DirInv(t)'
    BY <1>3, <1>1, <1>2 DEF TypeOK, DirInv, StreamInv, BufferInv, OpInv, Works, RelayClose
  <2> QED  BY <2>1, <2>2, <2>3, <1>1 DEF IInv
<1>4. CASE RelayForward(s)
  <2>1. TypeOK'
    BY <1>2, <1>4 DEF TypeOK, RelayForward, Op
  <2>2. DirInv(s)'
    BY <1>4, <1>1, <1>2 DEF TypeOK, DirInv, StreamInv, BufferInv, OpInv, Works, RelayForward
  <2>3. DirInv(t)'
    BY <1>4, <1>1, <1>2 DEF TypeOK, DirInv, StreamInv, BufferInv, OpInv, Works, RelayForward
  <2> QED  BY <2>1, <2>2, <2>3, <1>1 DEF IInv
<1> QED  BY <1>3, <1>4

\* A piece of a write preserves it: the stream grows by what the buffer loses.
LEMMA WriteSomeStep ==
    ASSUME IInv, NEW s \in Side, WriteSome(s)
    PROVE  IInv'
<1> USE RelayAssumption
<1>1. PICK t \in Side : t = Other(s) /\ s = Other(t) /\ s # t /\ Side = {s, t}
  BY OtherSide
<1>2. TypeOK /\ DirInv(s) /\ DirInv(t)
  BY DEF IInv
<1>3. Works(t) /\ buf[s] \in Seq(Nat) /\ out[t] \in Seq(Nat)
  BY <1>1, <1>2 DEF TypeOK, Works, WriteSome
<1>4. PICK a \in Nat, n \in Nat : a = Len(out[t]) /\ n = Len(buf[s])
  BY <1>3
<1>5. taken[s] = a + n /\ out[t] = Bytes(0, a) /\ buf[s] = Bytes(a, n)
  BY <1>1, <1>2, <1>3, <1>4 DEF DirInv, StreamInv, BufferInv
<1>6. /\ UNCHANGED <<kind, sent, peer, stalled, sock, taken>>
      /\ op[s] = "write"
      /\ \E k \in 1..n :
            /\ out' = [out EXCEPT ![t] = out[t] \o SubSeq(buf[s], 1, k)]
            /\ buf' = [buf EXCEPT ![s] = SubSeq(buf[s], k + 1, n)]
            /\ op' = IF k = n THEN [op EXCEPT ![s] = "writeOk"] ELSE op
  BY <1>1, <1>4 DEF WriteSome
<1>7. PICK k \in 1..n :
            /\ out' = [out EXCEPT ![t] = out[t] \o SubSeq(buf[s], 1, k)]
            /\ buf' = [buf EXCEPT ![s] = SubSeq(buf[s], k + 1, n)]
            /\ op' = IF k = n THEN [op EXCEPT ![s] = "writeOk"] ELSE op
  BY <1>6
<1>8. PICK b \in Nat, m \in Nat : b = a + k /\ m = n - k
  OBVIOUS
<1>9. /\ Bytes(0, a) \o SubSeq(Bytes(a, n), 1, k) = Bytes(0, b)
      /\ SubSeq(Bytes(a, n), k + 1, n) = Bytes(b, m)
  BY <1>8, BytesAppend, BytesRest, ZenonT(40)
<1>10. /\ out' = [out EXCEPT ![t] = Bytes(0, b)]
       /\ buf' = [buf EXCEPT ![s] = Bytes(b, m)]
  BY <1>5, <1>7, <1>9
<1>11. /\ Bytes(0, b) \in Seq(Nat) /\ Len(Bytes(0, b)) = b
       /\ Bytes(b, m) \in Seq(Nat) /\ Len(Bytes(b, m)) = m
       /\ m = 0 => Bytes(b, m) = << >>
  BY BytesFacts, BytesEmpty
<1>12. op' \in [Side -> Op] /\ op'[t] = op[t]
       /\ op'[s] \in {"write", "writeOk"} /\ (op'[s] = "writeOk" => m = 0)
  BY <1>1, <1>2, <1>6, <1>7, <1>8 DEF TypeOK, Op
<1>13. TypeOK'
  BY <1>2, <1>6, <1>10, <1>11, <1>12 DEF TypeOK
<1>14. /\ out'[t] = Bytes(0, b) /\ out'[s] = out[s]
       /\ buf'[s] = Bytes(b, m) /\ buf'[t] = buf[t]
  BY <1>1, <1>2, <1>10 DEF TypeOK
<1>15. StreamInv(s)' /\ BufferInv(s)'
  <2>1. a <= taken[s] /\ b <= taken[s] /\ taken[s] = b + m
    BY <1>5, <1>8
  <2>2. m <= kRelayBufferSize
    BY <1>2, <1>4, <1>8 DEF DirInv, StreamInv
  <2> QED
    BY <1>1, <1>2, <1>6, <1>11, <1>14, <2>1, <2>2
    DEF DirInv, StreamInv, BufferInv
<1>16. OpInv(s)'
  BY <1>11, <1>12, <1>14 DEF OpInv
<1>17. DirInv(t)'
  <2>1. /\ sent' = sent /\ peer' = peer /\ sock' = sock /\ taken' = taken
        /\ op'[t] = op[t] /\ out'[s] = out[s] /\ buf'[t] = buf[t]
    BY <1>6, <1>12, <1>14
  <2>2. StreamInv(t)' /\ BufferInv(t)'
    BY <1>1, <1>2, <2>1 DEF DirInv, StreamInv, BufferInv, Works
  <2>3. OpInv(t)'
    BY <1>1, <1>2, <2>1 DEF DirInv, OpInv, Works
  <2> QED  BY <2>2, <2>3 DEF DirInv
<1> QED  BY <1>1, <1>13, <1>15, <1>16, <1>17 DEF IInv, DirInv

\* A failed write and the handler of a write preserve it.
LEMMA WriteEndStep ==
    ASSUME IInv, NEW s \in Side, WriteFails(s) \/ HandleWrite(s)
    PROVE  IInv'
<1> USE RelayAssumption
<1>1. PICK t \in Side : t = Other(s) /\ s = Other(t) /\ s # t /\ Side = {s, t}
  BY OtherSide
<1>2. TypeOK /\ DirInv(s) /\ DirInv(t)
  BY DEF IInv
<1>3. CASE WriteFails(s)
  <2>1. TypeOK'
    BY <1>2, <1>3 DEF TypeOK, WriteFails, Op
  <2>2. DirInv(s)'
    BY <1>3, <1>1, <1>2 DEF TypeOK, DirInv, StreamInv, BufferInv, OpInv, Works, WriteFails
  <2>3. DirInv(t)'
    BY <1>3, <1>1, <1>2 DEF TypeOK, DirInv, StreamInv, BufferInv, OpInv, Works, WriteFails
  <2> QED  BY <2>1, <2>2, <2>3, <1>1 DEF IInv
<1>4. CASE HandleWrite(s)
  <2>1. TypeOK'
    BY <1>2, <1>4 DEF TypeOK, HandleWrite, Op
  <2>2. Len(<< >>) = 0 /\ (Works(t) => buf[s] = << >>)
    BY <1>1, <1>2, <1>4 DEF HandleWrite, DirInv, OpInv
  <2>3. DirInv(s)'
    BY <1>1, <1>2, <1>4, <2>2
    DEF TypeOK, DirInv, StreamInv, BufferInv, OpInv, Works, HandleWrite
  <2>4. DirInv(t)'
    BY <1>1, <1>2, <1>4
    DEF TypeOK, DirInv, StreamInv, BufferInv, OpInv, Works, HandleWrite
  <2> QED  BY <1>1, <2>1, <2>3, <2>4 DEF IInv
<1> QED  BY <1>3, <1>4

\* The invariant is inductive.
LEMMA StepIInv == IInv /\ [Next]_vars => IInv'
<1> SUFFICES ASSUME IInv, [Next]_vars PROVE IInv'
  OBVIOUS
<1>1. CASE UNCHANGED vars
  <2>1. TypeOK'
    BY <1>1 DEF IInv, TypeOK, vars
  <2>2. ASSUME NEW s \in Side PROVE DirInv(s)'
    <3>1. DirInv(s)
      BY DEF IInv
    <3> QED
      BY <1>1, <3>1 DEF vars, DirInv, StreamInv, BufferInv, OpInv, Works
  <2> QED  BY <2>1, <2>2 DEF IInv
<1>2. CASE Next
  <2>1. PICK s \in Side :
            \/ Send(s) \/ Eof(s) \/ Reset(s) \/ Stall(s)
            \/ ReadSome(s) \/ ReadFails(s)
            \/ RelayClose(s) \/ RelayForward(s)
            \/ WriteSome(s) \/ WriteFails(s)
            \/ HandleWrite(s)
    BY <1>2 DEF Next
  <2> QED
    BY <2>1, PeerStep, ReadStep, HandleReadStep, WriteSomeStep, WriteEndStep
<1> QED  BY <1>1, <1>2

\* The invariant holds in every reachable state.
LEMMA RelayInvariant == Spec => []IInv
  BY InitIInv, StepIInv, PTL DEF Spec

-----------------------------------------------------------------------------
(* The properties *)

\* Type correctness of the relay (TypeOK), for all constants.
THEOREM RelayTyping == Spec => []TypeOK
<1>1. IInv => TypeOK
  BY DEF IInv
<1> QED  BY <1>1, RelayInvariant, PTL

\* StartRelay forwards each stream without loss, repetition or reordering
\* (StreamIntegrity), for every amount of data and every buffer size.
THEOREM RelayIntegrity == Spec => []StreamIntegrity
<1>1. IInv => StreamIntegrity
  <2> SUFFICES ASSUME IInv, NEW s \in Side
               PROVE  \E n \in 0..sent[s] : out[Other(s)] = Bytes(0, n)
    BY DEF StreamIntegrity
  <2>1. PICK t \in Side : t = Other(s)
    BY OtherSide
  <2>2. /\ out[t] = Bytes(0, Len(out[t]))
        /\ Len(out[t]) <= taken[s] /\ taken[s] <= sent[s]
        /\ out[t] \in Seq(Nat) /\ taken[s] \in Nat /\ sent[s] \in Nat
    BY <2>1 DEF IInv, DirInv, StreamInv, TypeOK
  <2>3. Len(out[t]) \in 0..sent[s]
    BY <2>2
  <2> QED  BY <2>1, <2>2, <2>3
<1> QED  BY <1>1, RelayInvariant, PTL

\* The end of a stream is acted on only after its last byte was written to
\* the other transport (Drained).
THEOREM RelayDrained == Spec => []Drained
<1>1. IInv => Drained
  <2> SUFFICES ASSUME IInv, NEW s \in Side,
                      op[s] = "readErr", peer[s] = "eof",
                      sock[s] = "open", peer[Other(s)] # "reset"
               PROVE  out[Other(s)] = Bytes(0, sent[s])
    BY DEF Drained
  <2>1. PICK t \in Side : t = Other(s)
    BY OtherSide
  <2>2. DirInv(s) /\ out[t] \in Seq(Nat)
    BY <2>1 DEF IInv, TypeOK
  <2>3. Works(t)
    BY <2>1, <2>2 DEF DirInv, StreamInv, Works
  <2>4. buf[s] = << >> /\ taken[s] = sent[s]
    BY <2>2 DEF DirInv, OpInv
  <2>5. taken[s] = Len(out[t])
    BY <2>1, <2>2, <2>3, <2>4 DEF DirInv, BufferInv
  <2> QED  BY <2>1, <2>2, <2>4, <2>5 DEF DirInv, StreamInv
<1> QED  BY <1>1, RelayInvariant, PTL

\* A direction buffers at most kRelayBufferSize bytes (Backpressure).
THEOREM RelayBackpressure == Spec => []Backpressure
<1>1. IInv => Backpressure
  <2> SUFFICES ASSUME IInv, NEW s \in Side,
                      sock[Other(s)] = "open", peer[Other(s)] # "reset"
               PROVE  taken[s] - Len(out[Other(s)]) <= kRelayBufferSize
    BY DEF Backpressure
  <2>1. PICK t \in Side : t = Other(s)
    BY OtherSide
  <2>2. DirInv(s) /\ out[t] \in Seq(Nat) /\ buf[s] \in Seq(Nat)
    BY <2>1 DEF IInv, TypeOK
  <2>3. /\ taken[s] = Len(out[t]) + Len(buf[s])
        /\ Len(buf[s]) <= kRelayBufferSize
    BY <2>1, <2>2 DEF DirInv, BufferInv, StreamInv, Works
  <2>4. Len(out[t]) \in Nat /\ Len(buf[s]) \in Nat
    BY <2>2
  <2> QED  BY <2>1, <2>3, <2>4, RelayAssumption
<1> QED  BY <1>1, RelayInvariant, PTL

-----------------------------------------------------------------------------
(* Relay implements Pipe *)

\* An action that leaves the streams and the transports alone is a stutter.
LEMMA PipeStutter ==
    ASSUME UNCHANGED <<sent, out, sock>>
    PROVE  UNCHANGED P!vars
  BY DEF P!vars

\* A piece of a write delivers a longer prefix of the stream.
LEMMA PipeDeliver ==
    ASSUME IInv, IInv', NEW s \in Side, WriteSome(s)
    PROVE  P!Next
<1>1. PICK t \in Side : t = Other(s) /\ s = Other(t) /\ s # t /\ Side = {s, t}
  BY OtherSide
<1>2. /\ sock[t] = "open" /\ UNCHANGED <<sent, sock>>
      /\ \E k \in 1..Len(buf[s]) :
            out' = [out EXCEPT ![t] = out[t] \o SubSeq(buf[s], 1, k)]
  BY <1>1 DEF WriteSome
<1>3. PICK k \in 1..Len(buf[s]) :
          out' = [out EXCEPT ![t] = out[t] \o SubSeq(buf[s], 1, k)]
  BY <1>2
<1>4. /\ out[t] \in Seq(Nat) /\ buf[s] \in Seq(Nat) /\ sent[s] \in Nat
      /\ out'[t] \in Seq(Nat)
      /\ sock[s] = "open"
  BY <1>1, <1>2, SMTT(30) DEF IInv, TypeOK, DirInv, StreamInv
<1>5. out'[t] = out[t] \o SubSeq(buf[s], 1, k)
  BY <1>3 DEF IInv, TypeOK
<1>6. Len(out'[t]) = Len(out[t]) + k
  BY <1>4, <1>5
<1>7. /\ out'[t] = Bytes(0, Len(out'[t]))
      /\ Len(out'[t]) <= sent[s]
  <2>1. DirInv(s)' /\ taken'[s] \in Nat /\ sent'[s] = sent[s]
    BY <1>2 DEF IInv, TypeOK
  <2> QED  BY <1>1, <1>4, <2>1 DEF DirInv, StreamInv
<1>8. PICK n \in (Len(out[t]) + 1)..sent[s] : out' = [out EXCEPT ![t] = Bytes(0, n)]
  <2>1. Len(out'[t]) \in (Len(out[t]) + 1)..sent[s]
    BY <1>4, <1>6, <1>7
  <2> QED  BY <1>3, <1>5, <1>7, <2>1
<1>9. P!Deliver(t)
  BY <1>1, <1>2, <1>4, <1>8 DEF P!Deliver, P!Bytes, P!Other, Bytes, Other
<1> QED  BY <1>9, <1>1 DEF P!Next, P!Side, Side

\* Every step of the relay is a step of the pipe or a stutter.
LEMMA PipeStep == IInv /\ IInv' /\ [Next]_vars => [P!Next]_(P!vars)
<1> SUFFICES ASSUME IInv, IInv', [Next]_vars PROVE [P!Next]_(P!vars)
  OBVIOUS
<1>1. CASE UNCHANGED vars
  BY <1>1, PipeStutter DEF vars
<1>2. CASE Next
  <2>1. PICK s \in Side :
            \/ Send(s) \/ Eof(s) \/ Reset(s) \/ Stall(s)
            \/ ReadSome(s) \/ ReadFails(s)
            \/ RelayClose(s) \/ RelayForward(s)
            \/ WriteSome(s) \/ WriteFails(s)
            \/ HandleWrite(s)
    BY <1>2 DEF Next
  <2>2. CASE Send(s)
    <3>1. P!Send(s)
      BY <2>2 DEF Send, P!Send
    <3> QED  BY <3>1 DEF P!Next, P!Side, Side
  <2>3. CASE WriteSome(s)
    BY <2>3, PipeDeliver
  <2>4. CASE RelayClose(s)
    <3>1. sock' = [sock EXCEPT ![s] = "closed", ![Other(s)] = "closed"]
          /\ UNCHANGED <<sent, out>>
      BY <2>4 DEF RelayClose
    <3>2. sock'[s] = "closed"
      BY <3>1, OtherSide DEF IInv, TypeOK
    <3>3. CASE \E r \in Side : sock[r] = "closed"
      BY <3>1, <3>2, <3>3 DEF P!vars
    <3>4. CASE ~ \E r \in Side : sock[r] = "closed"
      <4>1. P!Close
        BY <3>1, <3>2, <3>4 DEF P!Close
      <4> QED  BY <4>1 DEF P!Next
    <3> QED  BY <3>3, <3>4
  <2>5. CASE \/ Eof(s) \/ Reset(s) \/ Stall(s)
             \/ ReadSome(s) \/ ReadFails(s)
             \/ RelayForward(s) \/ WriteFails(s) \/ HandleWrite(s)
    <3>1. UNCHANGED <<sent, out, sock>>
      BY <2>5 DEF Eof, Reset, Stall, ReadSome, ReadFails, RelayForward,
                  WriteFails, HandleWrite
    <3> QED  BY <3>1, PipeStutter
  <2> QED  BY <2>1, <2>2, <2>3, <2>4, <2>5
<1> QED  BY <1>1, <1>2

\* The relay is a duplex pipe that closes once, at both ends (PipeSpec).
THEOREM RelayImplementsPipe == Spec => PipeSpec
<1>1. Init => P!Init
  BY DEF Init, P!Init, P!Side, Side
<1>2. IInv /\ IInv' /\ [Next]_vars => [P!Next]_(P!vars)
  BY PipeStep
<1> QED  BY <1>1, <1>2, RelayInvariant, PTL DEF Spec, PipeSpec, P!Spec
=============================================================================
