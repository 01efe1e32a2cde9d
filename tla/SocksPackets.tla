---------------------------- MODULE SocksPackets ----------------------------
(***************************************************************************)
(* The SOCKS packets: how a peer's packet, written as Serialize writes it, *)
(* is read back from the byte stream by the chain of reads that            *)
(* StartCreateFrom starts.  Each read asks for a number of bytes that the  *)
(* reads before it determined.  Bytes arrive one by one, more of them      *)
(* follow the packet, and the stream may end anywhere.                     *)
(***************************************************************************)
EXTENDS Naturals, Sequences

CONSTANTS
    Packets,      \* the packets a peer may write
    Following     \* the bytes that follow a packet in the stream

kIPv4 == 1
kDomainName == 3
kIPv6 == 4
AddressType == {kIPv4, kDomainName, kIPv6}

Byte == 0..255
UInt16 == {n \in Nat : n < 65536}

MethodsPacket == [kind : {"methods"}, version : Byte, methods : Seq(Byte)]
SelectPacket == [kind : {"select"}, version : Byte, method : Byte]
AddressPacket ==
    [kind : {"request", "response"}, version : Byte, code : Byte,
     type : Byte, host : Seq(Byte), port : UInt16]

\* The address of an endpoint of ours, as a response carries it.
FromAsioEndpoint(bytes, port) ==
    [type |-> IF Len(bytes) = 4 THEN kIPv4 ELSE kIPv6, host |-> bytes, port |-> port]

ASSUME PacketsAssumption ==
    /\ \A p \in Packets :
          \/ p \in MethodsPacket /\ Len(p.methods) < 256
          \/ p \in SelectPacket
          \/ /\ p \in AddressPacket
             /\ Len(p.host) < 256
             /\ p.type = kIPv4 => Len(p.host) = 4
             /\ p.type = kIPv6 => Len(p.host) = 16
    /\ Following \in Seq(Byte)

VARIABLES
    packet,       \* the packet that the peer writes
    arrived,      \* how many bytes of the stream have arrived
    ended,        \* whether the peer has ended its stream
    stage,        \* which read is outstanding
    want,         \* the size of its buffer
    taken,        \* how many bytes the reads before it took
    got,          \* the fields read so far
    result        \* "none", "ok", "error", "lost" or "thrown"

vars == <<packet, arrived, ended, stage, want, taken, got, result>>

-----------------------------------------------------------------------------
(* Writing *)

SerializeAddress(p) ==
    <<p.type>>
        \o (IF p.type = kDomainName THEN <<Len(p.host) % 256>> ELSE << >>)
        \o p.host
        \o <<p.port \div 256, p.port % 256>>

Serialize(p) ==
    CASE p.kind = "methods" -> <<p.version, Len(p.methods) % 256>> \o p.methods
      [] p.kind = "select" -> <<p.version, p.method>>
      [] OTHER -> <<p.version, p.code, 0>> \o SerializeAddress(p)

Stream == Serialize(packet) \o Following

Arrive ==
    /\ ~ended
    /\ arrived < Len(Stream)
    /\ arrived' = arrived + 1
    /\ UNCHANGED <<packet, ended, stage, want, taken, got, result>>

End ==
    /\ ~ended
    /\ ended' = TRUE
    /\ UNCHANGED <<packet, arrived, stage, want, taken, got, result>>

-----------------------------------------------------------------------------
(* Reading *)

FirstRead(kind) ==
    CASE kind = "methods" -> [stage |-> "count", want |-> 2]
      [] kind = "select" -> [stage |-> "select", want |-> 2]
      [] OTHER -> [stage |-> "header", want |-> 3]

Init ==
    /\ packet \in Packets
    /\ arrived = 0
    /\ ended = FALSE
    /\ stage = FirstRead(packet.kind).stage
    /\ want = FirstRead(packet.kind).want
    /\ taken = 0
    /\ got = [kind |-> packet.kind]
    /\ result = "none"

Buffer == SubSeq(Stream, taken + 1, taken + want)

\* The read that is outstanding has filled its buffer.
Filled(s) ==
    /\ stage = s
    /\ result = "none"
    /\ arrived >= taken + want
    /\ taken' = taken + want
    /\ UNCHANGED <<packet, arrived, ended>>

\* The fields f are stored in the packet that is being read.
Store(f) ==
    got' = [x \in DOMAIN f \cup DOMAIN got |->
               IF x \in DOMAIN f THEN f[x] ELSE got[x]]

\* A handler that stores the fields f and starts the next read.
ThenRead(f, s, n) ==
    /\ Store(f)
    /\ stage' = s
    /\ want' = n
    /\ result' = result

\* A handler that stores the fields f and calls back.
ThenCallback(f) ==
    /\ Store(f)
    /\ result' = "ok"
    /\ UNCHANGED <<stage, want>>

ThenNothing(r) == result' = r /\ UNCHANGED <<stage, want, got>>

ReadCount ==
    /\ Filled("count")
    /\ ThenRead([version |-> Buffer[1]], "methods", Buffer[2])

ReadMethods ==
    /\ Filled("methods")
    /\ ThenCallback([methods |-> Buffer])

ReadSelect ==
    /\ Filled("select")
    /\ ThenCallback([version |-> Buffer[1], method |-> Buffer[2]])

ReadHeader ==
    /\ Filled("header")
    /\ ThenRead([version |-> Buffer[1], code |-> Buffer[2]], "type", 1)

\* A switch that does not know kIPv6.
ReadType_NoIPv6 ==
    /\ Filled("type")
    /\ LET type == Buffer[1]
           f == [type |-> type]
       IN  \/ type = kIPv4 /\ ThenRead(f, "host", 4 + 2)
           \/ type = kDomainName /\ ThenRead(f, "length", 1)
           \/ type \notin {kIPv4, kDomainName} /\ ThenNothing("lost")

\* The switch over the address type: a type that is not among its cases
\* leaves the handler without a read and without the callback.
ReadType ==
    /\ Filled("type")
    /\ LET type == Buffer[1]
           f == [type |-> type]
       IN  \/ type = kIPv4 /\ ThenRead(f, "host", 4 + 2)
           \/ type = kIPv6 /\ ThenRead(f, "host", 16 + 2)
           \/ type = kDomainName /\ ThenRead(f, "length", 1)
           \/ type \notin AddressType /\ ThenNothing("lost")

\* A length in a signed character.
ReadLength_Signed ==
    /\ Filled("length")
    /\ LET len == (Buffer[1] + 2) % 256 IN
       ThenRead(<< >>, "host", IF len > 127 THEN len - 256 ELSE len)

\* A length that counts the length byte again.
ReadLength_Over ==
    /\ Filled("length")
    /\ ThenRead(<< >>, "host", (Buffer[1] + 3) % 256)

\* StartReadDomain's length: the sum is stored in eight bits.
ReadLength ==
    /\ Filled("length")
    /\ ThenRead(<< >>, "host", (Buffer[1] + 2) % 256)

\* A port in the byte order of the host.
ReadHost_LittleEndian ==
    /\ Filled("host")
    /\ \/ want < 2 /\ ThenNothing("thrown")
       \/ /\ want >= 2
          /\ ThenCallback([host |-> SubSeq(Buffer, 1, want - 2),
                           port |-> Buffer[want] * 256 + Buffer[want - 1]])

\* ExtractPortFromHost: the size of a string of fewer than two characters
\* less two is no size a string can have, and resize throws.
ReadHost ==
    /\ Filled("host")
    /\ \/ want < 2 /\ ThenNothing("thrown")
       \/ /\ want >= 2
          /\ ThenCallback([host |-> SubSeq(Buffer, 1, want - 2),
                           port |-> Buffer[want - 1] * 256 + Buffer[want]])

\* The stream ends before the buffer is full: every handler passes the error
\* on to the callback.
ReadFails ==
    /\ result = "none"
    /\ ended /\ arrived < taken + want
    /\ result' = "error"
    /\ UNCHANGED <<packet, arrived, ended, stage, want, taken, got>>

Read ==
    \/ ReadCount \/ ReadMethods
    \/ ReadSelect
    \/ ReadHeader \/ ReadType \/ ReadLength \/ ReadHost
    \/ ReadFails

Next == Arrive \/ End \/ Read

Spec == Init /\ [][Next]_vars

\* The io_service runs the handler of a read that has completed.
FairSpec == Spec /\ WF_vars(Read)

-----------------------------------------------------------------------------
(* Properties *)

\* Type correctness of the reader's state.
TypeOK ==
    /\ packet \in Packets
    /\ arrived \in 0..Len(Stream)
    /\ ended \in BOOLEAN
    /\ stage \in {"count", "methods", "select", "header", "type", "length", "host"}
    /\ want \in 0..(255 + 2)
    /\ taken \in 0..arrived
    /\ result \in {"none", "ok", "error", "lost", "thrown"}
    /\ result = "ok" => got \in MethodsPacket \cup SelectPacket \cup AddressPacket

PacketLength == Len(Serialize(packet))

HasAddress == packet.kind \in {"request", "response"}

\* A packet that is reported as read is the packet that was written, field by
\* field, and exactly its bytes have been taken from the stream: reader and
\* writer agree on where the next packet, or the relayed data, begins.  A
\* packet cut short is never reported as read.
InSync == result = "ok" => got = packet /\ taken = PacketLength

\* No read asks for a byte that is not of the packet: bytes a peer sends
\* after it are left in the stream, and a peer that waits for the answer
\* before it sends more is not waited for.
WithinPacket == result = "none" => taken + want <= PacketLength

\* StartCreateFrom drops the callback of an address of unknown type, and
\* throws when a domain name has 254 or 255 characters.
Untold ==
    /\ HasAddress
    /\ \/ result = "lost" /\ packet.type \notin AddressType
       \/ /\ result = "thrown"
          /\ packet.type = kDomainName /\ Len(packet.host) >= 254

\* Whoever reads a packet is told, but for these two: of success when all of
\* it has arrived, though the stream may end right behind it, and of an
\* error when the stream ended before.
PacketTold ==
    /\ (arrived >= PacketLength) ~> (result = "ok" \/ Untold)
    /\ (ended /\ arrived < PacketLength) ~> (result = "error" \/ Untold)

-----------------------------------------------------------------------------
(* What a comment says and the code does not do *)

\* The buffer for a host holds the host and "the extra 2 bytes" of the port.
RoomForPort ==
    (HasAddress /\ stage = "host") => want = Len(packet.host) + 2
=============================================================================
