------------------------ MODULE SocksPacketsProofs ------------------------
(***************************************************************************)
(* Proofs about SocksPackets, for every packet that a peer may write and   *)
(* whatever follows it in the stream.                                      *)
(***************************************************************************)
EXTENDS SocksPackets, SequenceTheorems, TLAPS

\* Where the host begins in a packet with an address.
Offset == IF packet.type = kDomainName THEN 5 ELSE 4

\* What the chain of reads has taken and knows, by the read outstanding.
ReadInv ==
    /\ stage = "count" =>
          /\ packet.kind = "methods"
          /\ taken = 0 /\ want = 2
          /\ got = [kind |-> packet.kind]
    /\ stage = "methods" =>
          /\ packet.kind = "methods"
          /\ taken = 2 /\ want = Len(packet.methods)
          /\ got = [kind |-> packet.kind, version |-> packet.version]
    /\ stage = "select" =>
          /\ packet.kind = "select"
          /\ taken = 0 /\ want = 2
          /\ got = [kind |-> packet.kind]
    /\ stage = "header" =>
          /\ HasAddress
          /\ taken = 0 /\ want = 3
          /\ got = [kind |-> packet.kind]
    /\ stage = "type" =>
          /\ HasAddress
          /\ taken = 3 /\ want = 1
          /\ got = [kind |-> packet.kind, version |-> packet.version,
                    code |-> packet.code]
    /\ stage \in {"length", "host"} =>
          /\ HasAddress
          /\ got = [kind |-> packet.kind, version |-> packet.version,
                    code |-> packet.code, type |-> packet.type]
    /\ stage = "length" =>
          packet.type = kDomainName /\ taken = 4 /\ want = 1
    /\ stage = "host" =>
          /\ packet.type \in AddressType
          /\ taken = Offset
          /\ want = IF packet.type = kDomainName
                    THEN (Len(packet.host) + 2) % 256
                    ELSE Len(packet.host) + 2

\* What a result says of the packet and of the stream.
ResultInv ==
    /\ result = "none" => ReadInv
    /\ result = "ok" => got = packet /\ taken = PacketLength
    /\ result = "error" => ended /\ arrived < PacketLength
    /\ result \in {"lost", "thrown"} => Untold

StreamInv ==
    /\ packet \in Packets
    /\ arrived \in 0..Len(Stream)
    /\ ended \in BOOLEAN
    /\ stage \in {"count", "methods", "select", "header", "type", "length", "host"}
    /\ want \in 0..(255 + 2)
    /\ taken \in 0..arrived
    /\ result \in {"none", "ok", "error", "lost", "thrown"}

IInv == StreamInv /\ ResultInv

-----------------------------------------------------------------------------

\* A length fits in the byte that is written for it.
LEMMA LengthByte ==
    ASSUME NEW n \in Nat, n < 256
    PROVE  n % 256 = n /\ n \in Byte
<1>1. n % 256 = n
  OBVIOUS
<1> QED  BY <1>1 DEF Byte

\* StartReadDomain's sum in eight bits: no more than the sum, and too small for
\* a port where it does not fit.
LEMMA LengthSum ==
    ASSUME NEW n \in Nat, n < 256
    PROVE  /\ (n + 2) % 256 \in Byte
           /\ (n + 2) % 256 <= n + 2
           /\ n < 254 => (n + 2) % 256 = n + 2
           /\ n >= 254 => (n + 2) % 256 < 2
<1>1. (n + 2) % 256 \in 0..255
  OBVIOUS
<1>2. (n + 2) % 256 <= n + 2
  OBVIOUS
<1>3. n < 254 => (n + 2) % 256 = n + 2
  OBVIOUS
<1>4. n >= 254 => (n + 2) % 256 < 2
  BY SMTT(30)
<1> QED  BY <1>1, <1>2, <1>3, <1>4 DEF Byte

\* A port is its two bytes.
LEMMA PortBytes ==
    ASSUME NEW n \in UInt16
    PROVE  /\ n \div 256 \in Byte /\ n % 256 \in Byte
           /\ (n \div 256) * 256 + (n % 256) = n
<1>1. n \in Nat /\ n < 65536
  BY DEF UInt16
<1>2. n % 256 \in 0..255
  BY <1>1
<1>3. (n \div 256) * 256 + (n % 256) = n
  BY <1>1
<1>4. n \div 256 \in Int
  BY <1>1
<1>5. n \div 256 \in 0..255
  <2>1. PICK q : q = n \div 256
    OBVIOUS
  <2>2. PICK x : x = q * 256
    OBVIOUS
  <2>3. PICK r : r = n % 256
    OBVIOUS
  <2>4. q \in Int /\ x \in Int /\ r \in 0..255 /\ x + r = n
    BY <1>2, <1>3, <1>4, <2>1, <2>2, <2>3
  <2>5. (q >= 256 => x >= 65536) /\ (q < 0 => x <= 0 - 256)
    BY <2>2, <2>4
  <2>6. r \in Nat /\ r <= 255
    BY <1>1, <2>4
  <2>7. x < 65536 /\ x > 0 - 256
    BY <1>1, <2>4, <2>6
  <2> QED  BY <2>1, <2>4, <2>5, <2>7
<1> QED  BY <1>2, <1>3, <1>5 DEF Byte

\* The bytes u are the bytes s and then the bytes t.
IsJoin(u, s, t) ==
    /\ u \in Seq(Byte)
    /\ Len(u) = Len(s) + Len(t)
    /\ \A i \in 1..Len(s) : u[i] = s[i]
    /\ \A i \in 1..Len(t) : u[Len(s) + i] = t[i]

\* Bytes written one after the other.
LEMMA Joined ==
    ASSUME NEW s \in Seq(Byte), NEW t \in Seq(Byte)
    PROVE  IsJoin(s \o t, s, t)
  BY ConcatProperties DEF IsJoin

\* The packets that Serialize is given, by kind.
LEMMA PacketKinds ==
    ASSUME NEW p \in Packets
    PROVE  /\ p.kind \in {"methods", "select", "request", "response"}
           /\ p.kind = "methods" => p \in MethodsPacket /\ Len(p.methods) < 256
           /\ p.kind = "select" => p \in SelectPacket
           /\ p.kind \in {"request", "response"} =>
                 /\ p \in AddressPacket
                 /\ Len(p.host) < 256
                 /\ p.type = kIPv4 => Len(p.host) = 4
                 /\ p.type = kIPv6 => Len(p.host) = 16
  BY PacketsAssumption DEF MethodsPacket, SelectPacket, AddressPacket

\* The bytes of a MethodsPacket.
LEMMA MethodsBytes ==
    ASSUME NEW p \in MethodsPacket, Len(p.methods) < 256
    PROVE  LET s == Serialize(p) IN
           /\ s \in Seq(Byte)
           /\ Len(s) = 2 + Len(p.methods)
           /\ s[1] = p.version /\ s[2] = Len(p.methods)
           /\ \A i \in 1..Len(p.methods) : s[2 + i] = p.methods[i]
<1>1. /\ p.kind = "methods" /\ p.version \in Byte /\ p.methods \in Seq(Byte)
      /\ Len(p.methods) \in Nat
  BY DEF MethodsPacket
<1> DEFINE n == Len(p.methods)
           h == <<p.version, n % 256>>
<1>2. n % 256 = n /\ n \in Byte
  BY <1>1, LengthByte
<1>3. h \in Seq(Byte) /\ Len(h) = 2 /\ h[1] = p.version /\ h[2] = n
  <2> HIDE DEF n
  <2>1. h = <<p.version, n>>
    BY <1>2
  <2> HIDE DEF h
  <2> QED  BY <1>1, <1>2, <2>1
<1>4. Serialize(p) = h \o p.methods
  BY <1>1 DEF Serialize
<1> HIDE DEF h
<1>5. IsJoin(Serialize(p), h, p.methods)
  BY <1>1, <1>3, <1>4, Joined
<1>6. PICK s : s = Serialize(p)
  OBVIOUS
<1>7. PICK m : m = p.methods
  OBVIOUS
<1>8. IsJoin(s, h, m) /\ Len(m) \in Nat
  BY <1>1, <1>5, <1>6, <1>7
<1>9. /\ s \in Seq(Byte) /\ Len(s) = 2 + Len(m)
      /\ s[1] = p.version /\ s[2] = n
      /\ \A i \in 1..Len(m) : s[2 + i] = m[i]
  BY <1>3, <1>8 DEF IsJoin
<1> QED  BY <1>6, <1>7, <1>9

\* The bytes of an AuthMethodSelectPacket.
LEMMA SelectBytes ==
    ASSUME NEW p \in SelectPacket
    PROVE  LET s == Serialize(p) IN
           /\ s \in Seq(Byte)
           /\ Len(s) = 2
           /\ s[1] = p.version /\ s[2] = p.method
  BY DEF SelectPacket, Serialize

\* The layout of bytes s: a three byte header a, then w, h and the two bytes d.
AddressParts(s, a, w, h, d) ==
    LET k == Len(w)
        n == Len(h)
    IN
    /\ s \in Seq(Byte)
    /\ Len(s) = 3 + k + n + 2
    /\ s[1] = a[1] /\ s[2] = a[2]
    /\ \A i \in 1..k : s[3 + i] = w[i]
    /\ \A i \in 1..n : s[3 + k + i] = h[i]
    /\ s[3 + k + n + 1] = d[1] /\ s[3 + k + n + 2] = d[2]

\* Serialize of a header and of an address, one after the other.
LEMMA AddressLayout ==
    ASSUME NEW a \in Seq(Byte), NEW w \in Seq(Byte), NEW h \in Seq(Byte),
           NEW d \in Seq(Byte), Len(a) = 3, Len(d) = 2
    PROVE  AddressParts(a \o ((w \o h) \o d), a, w, h, d)
<1>k. PICK k \in Nat : k = Len(w)
  OBVIOUS
<1>n. PICK n \in Nat : n = Len(h)
  OBVIOUS
<1>1. PICK e : e = w \o h
  OBVIOUS
<1>2. PICK f : f = e \o d
  OBVIOUS
<1>3. PICK s : s = a \o f
  OBVIOUS
<1>4. IsJoin(e, w, h)
  BY <1>1, Joined
<1>5. /\ e \in Seq(Byte) /\ Len(e) = k + n
      /\ \A i \in 1..k : e[i] = w[i]
      /\ \A i \in 1..n : e[k + i] = h[i]
  BY <1>4, <1>k, <1>n DEF IsJoin
<1>6. IsJoin(f, e, d)
  BY <1>2, <1>5, Joined
<1>7. /\ f \in Seq(Byte) /\ Len(f) = k + n + 2
      /\ \A i \in 1..(k + n) : f[i] = e[i]
      /\ \A i \in 1..2 : f[k + n + i] = d[i]
  BY <1>5, <1>6 DEF IsJoin
<1>8. IsJoin(s, a, f)
  BY <1>3, <1>7, Joined
<1>9. /\ s \in Seq(Byte) /\ Len(s) = 3 + (k + n + 2)
      /\ \A i \in 1..3 : s[i] = a[i]
      /\ \A i \in 1..(k + n + 2) : s[3 + i] = f[i]
  BY <1>7, <1>8 DEF IsJoin
<1>10. ASSUME NEW i \in 1..k PROVE s[3 + i] = w[i]
  <2>1. i \in 1..(k + n) /\ i \in 1..(k + n + 2)
    OBVIOUS
  <2> QED  BY <1>5, <1>7, <1>9, <2>1
<1>11. ASSUME NEW i \in 1..n PROVE s[3 + k + i] = h[i]
  <2>1. PICK l : l = k + i
    OBVIOUS
  <2>2. l \in 1..(k + n) /\ l \in 1..(k + n + 2) /\ 3 + k + i = 3 + l
    BY <2>1
  <2>3. s[3 + l] = e[l]
    BY <1>7, <1>9, <2>2
  <2> QED  BY <1>5, <2>1, <2>2, <2>3
<1>12. s[3 + k + n + 1] = d[1] /\ s[3 + k + n + 2] = d[2]
  <2>1. /\ k + n + 1 \in 1..(k + n + 2) /\ 3 + k + n + 1 = 3 + (k + n + 1)
        /\ k + n + 2 \in 1..(k + n + 2) /\ 3 + k + n + 2 = 3 + (k + n + 2)
    OBVIOUS
  <2> QED  BY <1>7, <1>9, <2>1
<1>13. AddressParts(s, a, w, h, d)
  BY <1>k, <1>n, <1>9, <1>10, <1>11, <1>12 DEF AddressParts
<1> QED  BY <1>1, <1>2, <1>3, <1>13

\* The bytes of a RequestPacket or ResponsePacket.
LEMMA AddressBytes ==
    ASSUME NEW p \in AddressPacket, Len(p.host) < 256
    PROVE  LET s == Serialize(p)
               o == IF p.type = kDomainName THEN 5 ELSE 4
               n == Len(p.host)
           IN  /\ s \in Seq(Byte)
               /\ Len(s) = o + n + 2
               /\ s[1] = p.version /\ s[2] = p.code /\ s[4] = p.type
               /\ p.type = kDomainName => s[5] = n
               /\ \A i \in 1..n : s[o + i] = p.host[i]
               /\ s[o + n + 1] = p.port \div 256
               /\ s[o + n + 2] = p.port % 256
<1>1. /\ p.kind \in {"request", "response"}
      /\ p.version \in Byte /\ p.code \in Byte /\ p.type \in Byte
      /\ p.host \in Seq(Byte) /\ Len(p.host) \in Nat /\ p.port \in UInt16
  BY DEF AddressPacket
<1> DEFINE n == Len(p.host)
           a == <<p.version, p.code, 0>>
           w == <<p.type>>
                   \o (IF p.type = kDomainName THEN <<n % 256>> ELSE << >>)
           d == <<p.port \div 256, p.port % 256>>
<1>2. n % 256 = n /\ n \in Byte
  BY <1>1, LengthByte
<1>3. p.port \div 256 \in Byte /\ p.port % 256 \in Byte
  BY <1>1, PortBytes
<1>4. a \in Seq(Byte) /\ Len(a) = 3 /\ a[1] = p.version /\ a[2] = p.code
  BY <1>1 DEF Byte
<1>5. /\ d \in Seq(Byte) /\ Len(d) = 2
      /\ d[1] = p.port \div 256 /\ d[2] = p.port % 256
  BY <1>3
<1>6. Serialize(p) = a \o ((w \o p.host) \o d)
  BY <1>1 DEF Serialize, SerializeAddress
<1>7. CASE p.type = kDomainName
  <2>1. w = <<p.type>> \o <<n>>
    BY <1>2, <1>7
  <2>2. /\ <<p.type>> \in Seq(Byte) /\ Len(<<p.type>>) = 1 /\ <<p.type>>[1] = p.type
        /\ <<n>> \in Seq(Byte) /\ Len(<<n>>) = 1 /\ <<n>>[1] = n
    <3> HIDE DEF n
    <3> QED  BY <1>1, <1>2
  <2> HIDE DEF a, w, d
  <2>3. IsJoin(w, <<p.type>>, <<n>>)
    BY <2>1, <2>2, Joined
  <2>4. PICK x, y : x = <<p.type>> /\ y = <<n>>
    OBVIOUS
  <2>5. w \in Seq(Byte) /\ Len(w) = 2 /\ w[1] = p.type /\ w[2] = n
    <3>1. IsJoin(w, x, y) /\ Len(x) = 1 /\ Len(y) = 1 /\ x[1] = p.type /\ y[1] = n
      BY <2>2, <2>3, <2>4
    <3>2. /\ w \in Seq(Byte) /\ Len(w) = 1 + 1
          /\ \A i \in 1..1 : w[i] = x[i]
          /\ \A i \in 1..1 : w[1 + i] = y[i]
      BY <3>1 DEF IsJoin
    <3> QED  BY <3>1, <3>2
  <2>6. AddressParts(Serialize(p), a, w, p.host, d)
    BY <1>1, <1>4, <1>5, <1>6, <2>5, AddressLayout
  <2> HIDE DEF n
  <2>7. n \in Nat /\ n = Len(p.host)
    BY <1>1 DEF n
  <2>8. Serialize(p)[3 + 1] = w[1] /\ Serialize(p)[3 + 2] = w[2]
    BY <2>5, <2>6 DEF AddressParts
  <2> QED  BY <1>4, <1>5, <1>7, <2>5, <2>6, <2>7, <2>8 DEF AddressParts
<1>8. CASE p.type # kDomainName
  <2>1. w = <<p.type>>
    BY <1>1, <1>8
  <2> HIDE DEF a, w, d
  <2>2. w \in Seq(Byte) /\ Len(w) = 1 /\ w[1] = p.type
    BY <1>1, <2>1
  <2>3. AddressParts(Serialize(p), a, w, p.host, d)
    BY <1>1, <1>4, <1>5, <1>6, <2>2, AddressLayout
  <2> HIDE DEF n
  <2>4. n \in Nat /\ n = Len(p.host)
    BY <1>1 DEF n
  <2>5. Serialize(p)[3 + 1] = w[1]
    BY <2>2, <2>3 DEF AddressParts
  <2> QED  BY <1>4, <1>5, <1>8, <2>2, <2>3, <2>4, <2>5 DEF AddressParts
<1> QED  BY <1>7, <1>8

\* Its first bytes.
LEMMA AddressHead ==
    ASSUME NEW p \in AddressPacket, Len(p.host) < 256
    PROVE  /\ Serialize(p)[1] = p.version /\ Serialize(p)[2] = p.code
           /\ Serialize(p)[4] = p.type
           /\ p.type = kDomainName => Serialize(p)[5] = Len(p.host)
  BY AddressBytes

\* The bytes s end with the host h and the port q, from the offset o on.
EndsWith(s, o, h, q) ==
    LET n == Len(h) IN
    /\ Len(s) = o + n + 2
    /\ \A i \in 1..n : s[o + i] = h[i]
    /\ s[o + n + 1] = q \div 256
    /\ s[o + n + 2] = q % 256

\* Its host and port.
LEMMA AddressTail ==
    ASSUME NEW p \in AddressPacket, Len(p.host) < 256
    PROVE  EndsWith(Serialize(p), IF p.type = kDomainName THEN 5 ELSE 4,
                    p.host, p.port)
<1>1. PICK s, o, h, q :
         /\ s = Serialize(p) /\ o = (IF p.type = kDomainName THEN 5 ELSE 4)
         /\ h = p.host /\ q = p.port
  OBVIOUS
<1>2. Len(s) = o + Len(h) + 2
  BY <1>1, AddressBytes
<1>3. ASSUME NEW i \in 1..Len(h) PROVE s[o + i] = h[i]
  BY <1>1, AddressBytes, ZenonT(30)
<1>4. s[o + Len(h) + 1] = q \div 256
  BY <1>1, AddressBytes, ZenonT(30)
<1>5. s[o + Len(h) + 2] = q % 256
  BY <1>1, AddressBytes, ZenonT(30)
<1>6. EndsWith(s, o, h, q)
  BY <1>2, <1>3, <1>4, <1>5 DEF EndsWith
<1> QED  BY <1>1, <1>6

-----------------------------------------------------------------------------

\* What the stream holds: the packet, and then what follows it.
LEMMA StreamBytes ==
    ASSUME packet \in Packets
    PROVE  /\ Serialize(packet) \in Seq(Byte)
           /\ PacketLength \in Nat
           /\ Stream \in Seq(Byte)
           /\ Len(Stream) \in Nat /\ PacketLength <= Len(Stream)
           /\ \A i \in 1..PacketLength : Stream[i] = Serialize(packet)[i]
<1>1. Serialize(packet) \in Seq(Byte)
  BY PacketKinds, MethodsBytes, SelectBytes, AddressBytes, ZenonT(30)
<1>2. PICK s, t : s = Serialize(packet) /\ t = Stream
  OBVIOUS
<1>3. s \in Seq(Byte) /\ Following \in Seq(Byte) /\ t = s \o Following
  BY <1>1, <1>2, PacketsAssumption DEF Stream
<1>4. IsJoin(t, s, Following)
  BY <1>3, Joined
<1>5. /\ t \in Seq(Byte) /\ Len(s) \in Nat /\ Len(t) \in Nat /\ Len(s) <= Len(t)
      /\ \A i \in 1..Len(s) : t[i] = s[i]
  BY <1>3, <1>4 DEF IsJoin
<1> QED  BY <1>2, <1>3, <1>5 DEF PacketLength

\* The bytes that a read within the packet delivers.
LEMMA BufferBytes ==
    ASSUME packet \in Packets, taken \in Nat, want \in Nat,
           taken + want <= PacketLength
    PROVE  /\ Buffer \in Seq(Byte)
           /\ Len(Buffer) = want
           /\ \A i \in 1..want : Buffer[i] = Serialize(packet)[taken + i]
<1>1. PICK s, t, n : s = Serialize(packet) /\ t = Stream /\ n = PacketLength
  OBVIOUS
<1>2. /\ t \in Seq(Byte) /\ n \in Nat /\ Len(t) \in Nat /\ n <= Len(t)
      /\ \A i \in 1..n : t[i] = s[i]
      /\ taken + want <= n
  BY <1>1, StreamBytes
<1>3. \A i \in (taken + 1)..(taken + want) : t[i] \in Byte
  <2>1. \A i \in (taken + 1)..(taken + want) : i \in 1..Len(t)
    BY <1>2
  <2> QED  BY <1>2, <2>1
<1>4. PICK b : b = SubSeq(t, taken + 1, taken + want)
  OBVIOUS
<1>5. /\ b \in Seq(Byte)
      /\ Len(b) = IF taken + 1 <= taken + want
                  THEN (taken + want) - (taken + 1) + 1 ELSE 0
      /\ \A i \in 1..((taken + want) - (taken + 1) + 1) : b[i] = t[(taken + 1) + i - 1]
  BY <1>3, <1>4, SubSeqProperties, SMTT(30)
<1>6. Len(b) = want
  BY <1>5
<1>7. ASSUME NEW i \in 1..want PROVE b[i] = s[taken + i]
  <2>1. /\ i \in 1..((taken + want) - (taken + 1) + 1)
        /\ (taken + 1) + i - 1 = taken + i
        /\ taken + i \in 1..n
    BY <1>2
  <2> QED  BY <1>2, <1>5, <2>1
<1> QED  BY <1>1, <1>4, <1>5, <1>6, <1>7 DEF Buffer

\* Every read asks for bytes of the packet.
LEMMA ReadsWithin ==
    ASSUME StreamInv, ReadInv
    PROVE  taken + want <= PacketLength
<1>1. packet \in Packets
  BY DEF StreamInv
<1>2. CASE stage \in {"count", "methods"}
  <2>1. packet \in MethodsPacket /\ Len(packet.methods) < 256
    BY <1>1, <1>2, PacketKinds DEF ReadInv
  <2>2. PacketLength = 2 + Len(packet.methods) /\ Len(packet.methods) \in Nat
    BY <2>1, MethodsBytes DEF PacketLength, MethodsPacket
  <2> QED  BY <1>2, <2>2 DEF ReadInv
<1>3. CASE stage = "select"
  <2>1. packet \in SelectPacket
    BY <1>1, <1>3, PacketKinds DEF ReadInv
  <2>2. PacketLength = 2
    BY <2>1, SelectBytes DEF PacketLength
  <2> QED  BY <1>3, <2>2 DEF ReadInv
<1>4. CASE stage \in {"header", "type", "length", "host"}
  <2>1. packet \in AddressPacket /\ Len(packet.host) < 256
    BY <1>1, <1>4, PacketKinds DEF ReadInv, HasAddress
  <2>2. PICK n : n = Len(packet.host)
    OBVIOUS
  <2>3. n \in Nat /\ n < 256
    BY <2>1, <2>2 DEF AddressPacket
  <2>4. PacketLength = Offset + n + 2
    BY <2>1, <2>2, AddressBytes DEF PacketLength, Offset
  <2>5. (n + 2) % 256 \in Nat /\ (n + 2) % 256 <= n + 2
    BY <2>3, LengthSum DEF Byte
  <2>6. CASE stage = "host"
    <3>1. taken = Offset /\ (want = n + 2 \/ want = (n + 2) % 256)
      BY <2>2, <2>6 DEF ReadInv
    <3> QED  BY <2>3, <2>4, <2>5, <3>1 DEF Offset
  <2>7. CASE stage # "host"
    BY <1>4, <2>3, <2>4, <2>7 DEF ReadInv, Offset
  <2> QED  BY <2>6, <2>7
<1> QED  BY <1>2, <1>3, <1>4 DEF StreamInv

\* StartCreateFrom's first read satisfies the invariant.
LEMMA InitIInv == Init => IInv
<1> SUFFICES ASSUME Init PROVE IInv
  OBVIOUS
<1>1. packet \in Packets
  BY DEF Init
<1>2. packet.kind \in {"methods", "select", "request", "response"}
  BY <1>1, PacketKinds
<1>3. Len(Stream) \in Nat
  BY <1>1, StreamBytes
<1>4. /\ stage = IF packet.kind = "methods" THEN "count"
                 ELSE IF packet.kind = "select" THEN "select" ELSE "header"
      /\ want = IF packet.kind \in {"methods", "select"} THEN 2 ELSE 3
  BY <1>2 DEF Init, FirstRead
<1>5. arrived = 0 /\ taken = 0 /\ result = "none" /\ got = [kind |-> packet.kind]
  BY DEF Init
<1>6. ended \in BOOLEAN
  BY Zenon DEF Init
<1>7. StreamInv
  BY <1>1, <1>2, <1>3, <1>4, <1>5, <1>6 DEF StreamInv
<1>8. ReadInv
  BY <1>2, <1>4, <1>5 DEF ReadInv, HasAddress
<1> QED  BY <1>5, <1>7, <1>8 DEF IInv, ResultInv

\* What a handler finds when its read has completed.
LEMMA FilledFacts ==
    ASSUME IInv, NEW s, Filled(s)
    PROVE  /\ packet \in Packets /\ packet' = packet
           /\ ReadInv /\ stage = s
           /\ taken \in Nat /\ want \in Nat /\ taken' = taken + want
           /\ taken + want <= PacketLength
           /\ Buffer \in Seq(Byte)
           /\ Len(Buffer) = want
           /\ \A i \in 1..want : Buffer[i] = Serialize(packet)[taken + i]
           /\ PacketLength' = PacketLength
<1>1. StreamInv /\ ReadInv
  BY DEF IInv, ResultInv, Filled
<1>2. taken \in Nat /\ want \in Nat /\ packet \in Packets
  BY <1>1, StreamBytes DEF StreamInv
<1>3. taken + want <= PacketLength
  BY <1>1, ReadsWithin
<1>4. packet' = packet /\ taken' = taken + want /\ stage = s
  BY DEF Filled
<1> QED  BY <1>1, <1>2, <1>3, <1>4, BufferBytes DEF PacketLength

\* A handler keeps the invariant when it keeps what results say.
LEMMA AfterRead ==
    ASSUME IInv, NEW s, Filled(s),
           stage' \in {"count", "methods", "select", "header", "type", "length",
                       "host"},
           want' \in 0..(255 + 2),
           result' \in {"none", "ok", "error", "lost", "thrown"},
           ResultInv'
    PROVE  IInv'
<1>1. StreamInv
  BY DEF IInv
<1>2. /\ packet' = packet /\ arrived' = arrived /\ ended' = ended
      /\ taken' = taken + want /\ arrived >= taken + want
  BY DEF Filled
<1>3. Len(Stream) \in Nat /\ Len(Stream)' = Len(Stream)
  BY <1>1, <1>2, StreamBytes DEF StreamInv, Stream
<1>4. arrived' \in 0..Len(Stream)' /\ taken' \in 0..arrived'
  <2>1. arrived \in 0..Len(Stream) /\ taken \in 0..arrived /\ want \in 0..(255 + 2)
    BY <1>1 DEF StreamInv
  <2> QED  BY <1>2, <1>3, <2>1
<1>5. ended' \in BOOLEAN
  BY <1>1, <1>2, ZenonT(30) DEF StreamInv
<1>6. packet' \in Packets
  BY <1>1, <1>2 DEF StreamInv
<1> QED  BY <1>4, <1>5, <1>6 DEF IInv, StreamInv

\* The handlers of an AuthMethodRequestPacket: the count, then the methods.
LEMMA MethodsReadInv ==
    ASSUME IInv, ReadCount \/ ReadMethods PROVE IInv'
<1>1. CASE ReadCount
  <2>1. Filled("count") /\ ThenRead([version |-> Buffer[1]], "methods", Buffer[2])
    BY <1>1 DEF ReadCount
  <2>2. /\ packet.kind = "methods" /\ taken = 0 /\ want = 2
        /\ got = [kind |-> packet.kind]
    BY <2>1, FilledFacts DEF ReadInv
  <2>3. packet \in MethodsPacket /\ Len(packet.methods) < 256
    BY <2>1, <2>2, FilledFacts, PacketKinds
  <2>4. Buffer[1] = Serialize(packet)[0 + 1] /\ Buffer[2] = Serialize(packet)[0 + 2]
    BY <2>1, <2>2, FilledFacts
  <2>5. Buffer[1] = packet.version /\ Buffer[2] = Len(packet.methods)
    BY <2>3, <2>4, MethodsBytes
  <2>6. /\ stage' = "methods" /\ want' = Len(packet.methods) /\ result' = "none"
        /\ taken' = 2 /\ packet' = packet
    BY <2>1, <2>2, <2>5 DEF ThenRead, Filled
  <2>7. got' = [kind |-> packet.kind, version |-> packet.version]
    BY <2>1, <2>2, <2>5 DEF ThenRead, Store
  <2>8. ResultInv'
    BY <2>2, <2>6, <2>7, SMTT(30) DEF ResultInv, ReadInv
  <2>9. want' \in 0..(255 + 2)
    <3>1. Len(packet.methods) \in Nat
      BY <2>3 DEF MethodsPacket
    <3>2. PICK n : n = Len(packet.methods)
      OBVIOUS
    <3>3. n \in Nat /\ n < 256
      BY <2>3, <3>1, <3>2
    <3>4. n \in 0..(255 + 2)
      BY <3>3
    <3> QED  BY <2>6, <3>2, <3>4
  <2> QED  BY <2>1, <2>6, <2>8, <2>9, AfterRead
<1>2. CASE ReadMethods
  <2>1. Filled("methods") /\ ThenCallback([methods |-> Buffer])
    BY <1>2 DEF ReadMethods
  <2>2. /\ packet.kind = "methods" /\ taken = 2 /\ want = Len(packet.methods)
        /\ got = [kind |-> packet.kind, version |-> packet.version]
    BY <2>1, FilledFacts DEF ReadInv
  <2>3. packet \in MethodsPacket /\ Len(packet.methods) < 256
    BY <2>1, <2>2, FilledFacts, PacketKinds
  <2>4. /\ \A i \in 1..want : Buffer[i] = Serialize(packet)[2 + i]
        /\ Buffer \in Seq(Byte) /\ Len(Buffer) = want
    BY <2>1, <2>2, FilledFacts
  <2>5. /\ \A i \in 1..want : Serialize(packet)[2 + i] = packet.methods[i]
        /\ PacketLength = 2 + want
    BY <2>2, <2>3, MethodsBytes DEF PacketLength
  <2>6. packet.methods \in Seq(Byte)
    BY <2>3 DEF MethodsPacket
  <2>7. Buffer = packet.methods
    <3>1. PICK m : m = packet.methods
      OBVIOUS
    <3>2. PICK b : b = Buffer
      OBVIOUS
    <3>3. /\ m \in Seq(Byte) /\ b \in Seq(Byte) /\ Len(m) = Len(b)
          /\ \A i \in 1..Len(m) : b[i] = m[i]
      BY <2>2, <2>4, <2>5, <2>6, <3>1, <3>2
    <3> QED  BY <3>1, <3>2, <3>3, SeqEqual
  <2>8. got' = [kind |-> packet.kind, version |-> packet.version,
                methods |-> packet.methods]
    BY <2>1, <2>2, <2>7 DEF ThenCallback, Store
  <2>9. got' = packet
    BY <2>3, <2>8 DEF MethodsPacket
  <2>10. /\ stage' = stage /\ want' = want /\ result' = "ok"
         /\ taken' = 2 + want /\ packet' = packet
    BY <2>1, <2>2 DEF ThenCallback, Filled
  <2>11. ResultInv'
    BY <2>5, <2>9, <2>10 DEF ResultInv, PacketLength
  <2>12. /\ want' \in 0..(255 + 2)
         /\ stage' \in {"count", "methods", "select", "header", "type", "length",
                        "host"}
    BY <2>10 DEF IInv, StreamInv
  <2> QED  BY <2>1, <2>10, <2>11, <2>12, AfterRead
<1> QED  BY <1>1, <1>2

\* The handler of an AuthMethodSelectPacket.
LEMMA SelectReadInv ==
    ASSUME IInv, ReadSelect PROVE IInv'
<1>1. /\ Filled("select")
      /\ ThenCallback([version |-> Buffer[1], method |-> Buffer[2]])
  BY DEF ReadSelect
<1>2. /\ packet.kind = "select" /\ taken = 0 /\ want = 2
      /\ got = [kind |-> packet.kind]
  BY <1>1, FilledFacts DEF ReadInv
<1>3. packet \in SelectPacket
  BY <1>1, <1>2, FilledFacts, PacketKinds
<1>4. Buffer[1] = Serialize(packet)[0 + 1] /\ Buffer[2] = Serialize(packet)[0 + 2]
  BY <1>1, <1>2, FilledFacts
<1>5. /\ Buffer[1] = packet.version /\ Buffer[2] = packet.method
      /\ PacketLength = 2
  BY <1>3, <1>4, SelectBytes DEF PacketLength
<1>6. got' = [kind |-> packet.kind, version |-> packet.version,
              method |-> packet.method]
  BY <1>1, <1>2, <1>5 DEF ThenCallback, Store
<1>7. got' = packet
  BY <1>3, <1>6 DEF SelectPacket
<1>8. /\ stage' = stage /\ want' = want /\ result' = "ok"
      /\ taken' = 2 /\ packet' = packet
  BY <1>1, <1>2 DEF ThenCallback, Filled
<1>9. ResultInv'
  BY <1>5, <1>7, <1>8 DEF ResultInv, PacketLength
<1>10. /\ want' \in 0..(255 + 2)
       /\ stage' \in {"count", "methods", "select", "header", "type", "length",
                      "host"}
  BY <1>8 DEF IInv, StreamInv
<1> QED  BY <1>1, <1>8, <1>9, <1>10, AfterRead

\* What the handlers of a packet with an address find.
LEMMA AddressFacts ==
    ASSUME IInv, NEW s \in {"header", "type", "length", "host"}, Filled(s)
    PROVE  /\ packet \in AddressPacket
           /\ Len(packet.host) \in Nat /\ Len(packet.host) < 256
           /\ packet.type = kIPv4 => Len(packet.host) = 4
           /\ packet.type = kIPv6 => Len(packet.host) = 16
<1>1. packet \in Packets /\ packet.kind \in {"request", "response"}
  BY FilledFacts DEF ReadInv, HasAddress
<1> QED  BY <1>1, PacketKinds DEF AddressPacket

\* The handlers of the header of a RequestPacket or ResponsePacket and of its
\* address type, a type that the switch does not know included.
LEMMA TypeReadInv ==
    ASSUME IInv, ReadHeader \/ ReadType PROVE IInv'
<1>1. CASE ReadHeader
  <2>1. /\ Filled("header")
        /\ ThenRead([version |-> Buffer[1], code |-> Buffer[2]], "type", 1)
    BY <1>1 DEF ReadHeader
  <2>2. HasAddress /\ taken = 0 /\ want = 3 /\ got = [kind |-> packet.kind]
    BY <2>1, FilledFacts DEF ReadInv
  <2>3. packet \in AddressPacket /\ Len(packet.host) < 256
    BY <2>1, AddressFacts
  <2>4. Buffer[1] = Serialize(packet)[0 + 1] /\ Buffer[2] = Serialize(packet)[0 + 2]
    BY <2>1, <2>2, FilledFacts
  <2>5. Buffer[1] = packet.version /\ Buffer[2] = packet.code
    BY <2>3, <2>4, AddressHead
  <2>6. /\ stage' = "type" /\ want' = 1 /\ result' = "none"
        /\ taken' = 3 /\ packet' = packet
    BY <2>1, <2>2 DEF ThenRead, Filled
  <2>7. got' = [kind |-> packet.kind, version |-> packet.version,
                code |-> packet.code]
    BY <2>1, <2>2, <2>5 DEF ThenRead, Store
  <2>8. ResultInv'
    BY <2>2, <2>6, <2>7 DEF ResultInv, ReadInv, HasAddress
  <2> QED  BY <2>1, <2>6, <2>8, AfterRead
<1>2. CASE ReadType
  <2>1. Filled("type")
    BY <1>2 DEF ReadType
  <2>2. /\ HasAddress /\ taken = 3 /\ want = 1
        /\ got = [kind |-> packet.kind, version |-> packet.version,
                  code |-> packet.code]
    BY <2>1, FilledFacts DEF ReadInv
  <2>3. /\ packet \in AddressPacket /\ Len(packet.host) < 256
        /\ packet.type = kIPv4 => Len(packet.host) = 4
        /\ packet.type = kIPv6 => Len(packet.host) = 16
    BY <2>1, AddressFacts
  <2>4. Buffer[1] = Serialize(packet)[3 + 1]
    BY <2>1, <2>2, FilledFacts
  <2>5. Buffer[1] = packet.type
    BY <2>3, <2>4, AddressHead
  <2>6. taken' = 4 /\ packet' = packet
    BY <2>1, <2>2 DEF Filled
  <2>7. CASE packet.type \notin AddressType
    <3>1. result' = "lost" /\ stage' = stage /\ want' = want
      BY <1>2, <2>5, <2>7 DEF ReadType, ThenNothing, AddressType
    <3>2. ResultInv'
      BY <2>2, <2>6, <2>7, <3>1 DEF ResultInv, Untold, HasAddress
    <3> QED  BY <2>1, <2>2, <3>1, <3>2, AfterRead DEF Filled
  <2>8. CASE packet.type \in AddressType
    <3>1. \/ packet.type = kIPv4 /\ ThenRead([type |-> packet.type], "host", 4 + 2)
          \/ packet.type = kIPv6 /\ ThenRead([type |-> packet.type], "host", 16 + 2)
          \/ /\ packet.type = kDomainName
             /\ ThenRead([type |-> packet.type], "length", 1)
      BY <1>2, <2>5, <2>8 DEF ReadType
    <3>2. got' = [kind |-> packet.kind, version |-> packet.version,
                  code |-> packet.code, type |-> packet.type]
      BY <2>2, <3>1 DEF ThenRead, Store
    <3>3. /\ result' = "none"
          /\ \/ stage' = "length" /\ packet.type = kDomainName /\ want' = 1
             \/ /\ stage' = "host" /\ packet.type \in {kIPv4, kIPv6}
                /\ want' = Len(packet.host) + 2 /\ want' \in {6, 18}
      <4>1. result = "none"
        BY <2>1 DEF Filled
      <4>2. CASE packet.type = kIPv4
        <5>1. result' = "none" /\ stage' = "host" /\ want' = 4 + 2
          BY <3>1, <4>1, <4>2 DEF ThenRead, kIPv4, kIPv6, kDomainName
        <5>2. Len(packet.host) = 4
          BY <2>3, <4>2
        <5>3. PICK n : n = Len(packet.host)
          OBVIOUS
        <5>4. want' = n + 2 /\ want' = 6
          BY <5>1, <5>2, <5>3
        <5> QED  BY <4>2, <5>1, <5>3, <5>4
      <4>3. CASE packet.type = kIPv6
        <5>1. result' = "none" /\ stage' = "host" /\ want' = 16 + 2
          BY <3>1, <4>1, <4>3 DEF ThenRead, kIPv4, kIPv6, kDomainName
        <5>2. Len(packet.host) = 16
          BY <2>3, <4>3
        <5>3. PICK n : n = Len(packet.host)
          OBVIOUS
        <5>4. want' = n + 2 /\ want' = 18
          BY <5>1, <5>2, <5>3
        <5> QED  BY <4>3, <5>1, <5>3, <5>4
      <4>4. CASE packet.type = kDomainName
        BY <3>1, <4>1, <4>4 DEF ThenRead, kIPv4, kIPv6, kDomainName
      <4> QED  BY <3>1, <4>2, <4>3, <4>4
    <3>4. ReadInv'
      <4>1. CASE stage' = "length"
        BY <2>2, <2>6, <3>2, <3>3, <4>1 DEF ReadInv, HasAddress
      <4>2. CASE stage' = "host"
        <5>1. /\ packet.type \in {kIPv4, kIPv6} /\ packet.type # kDomainName
              /\ want' = Len(packet.host) + 2
          BY <3>3, <4>2 DEF kIPv4, kIPv6, kDomainName
        <5>2. taken' = Offset'
          BY <2>6, <5>1 DEF Offset
        <5> QED  BY <2>2, <2>6, <2>8, <3>2, <4>2, <5>1, <5>2 DEF ReadInv, HasAddress
      <4> QED  BY <3>3, <4>1, <4>2
    <3>5. ResultInv'
      BY <3>3, <3>4 DEF ResultInv
    <3>6. want' \in 0..(255 + 2)
      BY <3>3, SMTT(30)
    <3> QED  BY <2>1, <3>3, <3>5, <3>6, AfterRead
  <2> QED  BY <2>7, <2>8
<1> QED  BY <1>1, <1>2

\* StartReadDomain's handler.
LEMMA LengthReadInv ==
    ASSUME IInv, ReadLength PROVE IInv'
<1>1. Filled("length") /\ ThenRead(<< >>, "host", (Buffer[1] + 2) % 256)
  BY DEF ReadLength
<1>2. /\ HasAddress /\ packet.type = kDomainName /\ taken = 4 /\ want = 1
      /\ got = [kind |-> packet.kind, version |-> packet.version,
                code |-> packet.code, type |-> packet.type]
  BY <1>1, FilledFacts DEF ReadInv
<1>3. /\ packet \in AddressPacket
      /\ Len(packet.host) \in Nat /\ Len(packet.host) < 256
  BY <1>1, AddressFacts
<1>4. Buffer[1] = Serialize(packet)[4 + 1]
  BY <1>1, <1>2, FilledFacts
<1>5. Buffer[1] = Len(packet.host)
  BY <1>2, <1>3, <1>4, AddressHead
<1>6. /\ stage' = "host" /\ want' = (Len(packet.host) + 2) % 256
      /\ result' = "none" /\ taken' = 5 /\ packet' = packet
  BY <1>1, <1>2, <1>5 DEF ThenRead, Filled
<1>7. got' = [kind |-> packet.kind, version |-> packet.version,
              code |-> packet.code, type |-> packet.type]
  BY <1>1, <1>2 DEF ThenRead, Store
<1>8. ReadInv'
  BY <1>2, <1>6, <1>7 DEF ReadInv, HasAddress, Offset, AddressType
<1>9. ResultInv'
  BY <1>6, <1>8 DEF ResultInv
<1>10. want' \in 0..(255 + 2)
  <2>1. want' \in 0..255
    BY <1>3, <1>6, LengthSum DEF Byte
  <2> QED  BY <2>1
<1> QED  BY <1>1, <1>6, <1>9, <1>10, AfterRead

\* ExtractPortFromHost and the callback behind it, or its exception.
LEMMA HostReadInv ==
    ASSUME IInv, ReadHost PROVE IInv'
<1>1. Filled("host")
  BY DEF ReadHost
<1>2. PICK n : n = Len(packet.host)
  OBVIOUS
<1>3. /\ packet \in AddressPacket /\ n \in Nat /\ n < 256
      /\ packet.type = kIPv4 => n = 4
      /\ packet.type = kIPv6 => n = 16
  BY <1>1, <1>2, AddressFacts
<1>4. /\ HasAddress /\ packet.type \in AddressType /\ taken = Offset
      /\ got = [kind |-> packet.kind, version |-> packet.version,
                code |-> packet.code, type |-> packet.type]
      /\ want = IF packet.type = kDomainName THEN (n + 2) % 256 ELSE n + 2
  BY <1>1, <1>2, FilledFacts, ZenonT(30) DEF ReadInv
<1>5. /\ (n + 2) % 256 \in 0..255
      /\ n < 254 => (n + 2) % 256 = n + 2
      /\ n >= 254 => (n + 2) % 256 < 2
  BY <1>3, LengthSum DEF Byte
<1>6. want < 2 => packet.type = kDomainName /\ n >= 254
  BY <1>3, <1>4, <1>5
<1>7. want >= 2 => want = n + 2
  BY <1>3, <1>4, <1>5
<1>8. /\ packet' = packet /\ taken' = Offset + want /\ want \in Nat
      /\ want \in 0..(255 + 2)
      /\ stage \in {"count", "methods", "select", "header", "type", "length", "host"}
  BY <1>1, <1>4, FilledFacts DEF Filled, IInv, StreamInv
<1>9. CASE want < 2
  <2>1. result' = "thrown" /\ stage' = stage /\ want' = want
    BY <1>8, <1>9 DEF ReadHost, ThenNothing
  <2>2. ResultInv'
    BY <1>2, <1>4, <1>6, <1>8, <1>9, <2>1 DEF ResultInv, Untold, HasAddress
  <2> QED  BY <1>1, <1>8, <2>1, <2>2, AfterRead
<1>10. CASE want >= 2
  <2>1. ThenCallback([host |-> SubSeq(Buffer, 1, want - 2),
                      port |-> Buffer[want - 1] * 256 + Buffer[want]])
    BY <1>8, <1>10 DEF ReadHost
  <2>2. PICK b, s, o, h, p :
           /\ b = Buffer /\ s = Serialize(packet) /\ o = Offset
           /\ h = packet.host /\ p = packet.port
    OBVIOUS
  <2>3. /\ b \in Seq(Byte) /\ Len(b) = n + 2 /\ want = n + 2
        /\ \A i \in 1..(n + 2) : b[i] = s[o + i]
    BY <1>1, <1>4, <1>7, <1>10, <2>2, FilledFacts
  <2>4. /\ o \in Nat /\ PacketLength = o + n + 2
        /\ \A i \in 1..n : s[o + i] = h[i]
        /\ s[o + n + 1] = p \div 256 /\ s[o + n + 2] = p % 256
    <3>1. o = IF packet.type = kDomainName THEN 5 ELSE 4
      BY <2>2 DEF Offset
    <3>2. EndsWith(s, o, h, p)
      BY <1>2, <1>3, <2>2, <3>1, AddressTail
    <3>3. n = Len(h) /\ PacketLength = Len(s)
      BY <1>2, <2>2 DEF PacketLength
    <3> QED  BY <3>1, <3>2, <3>3 DEF EndsWith
  <2>5. h \in Seq(Byte) /\ Len(h) = n /\ p \in UInt16
    BY <1>2, <1>3, <2>2 DEF AddressPacket
  <2>6. SubSeq(b, 1, n) = h
    <3>1. \A i \in 1..n : b[i] \in Byte
      BY <1>3, <2>3
    <3>2. PICK t : t = SubSeq(b, 1, n)
      OBVIOUS
    <3>3. /\ t \in Seq(Byte)
          /\ Len(t) = IF 1 <= n THEN n - 1 + 1 ELSE 0
          /\ \A i \in 1..(n - 1 + 1) : t[i] = b[1 + i - 1]
      BY <1>3, <3>1, <3>2, SubSeqProperties
    <3>4. Len(t) = n
      BY <1>3, <3>3
    <3>5. ASSUME NEW i \in 1..n PROVE t[i] = h[i]
      <4>1. i \in 1..(n - 1 + 1) /\ 1 + i - 1 = i /\ i \in 1..(n + 2)
        BY <1>3
      <4> QED  BY <2>3, <2>4, <3>3, <4>1, SMTT(30)
    <3> QED  BY <2>5, <3>2, <3>3, <3>4, <3>5, SeqEqual
  <2>7. b[n + 1] * 256 + b[n + 2] = p
    <3>1. /\ n + 1 \in 1..(n + 2) /\ n + 2 \in 1..(n + 2)
          /\ o + (n + 1) = o + n + 1 /\ o + (n + 2) = o + n + 2
      BY <1>3, <2>4
    <3>2. b[n + 1] = p \div 256 /\ b[n + 2] = p % 256
      BY <2>3, <2>4, <3>1
    <3> QED  BY <2>5, <3>2, PortBytes
  <2>8. want - 2 = n /\ want - 1 = n + 1
    BY <1>3, <2>3
  <2>9. got' = [kind |-> packet.kind, version |-> packet.version,
                code |-> packet.code, type |-> packet.type,
                host |-> packet.host, port |-> packet.port]
    <3>1. Store([host |-> h, port |-> p])
      BY <2>1, <2>2, <2>3, <2>6, <2>7, <2>8, ZenonT(30) DEF ThenCallback
    <3> QED  BY <1>4, <2>2, <3>1 DEF Store
  <2>10. got' = packet
    BY <1>3, <2>9 DEF AddressPacket
  <2>11. result' = "ok" /\ stage' = stage /\ want' = want
    BY <2>1 DEF ThenCallback
  <2>12. taken' = PacketLength' /\ PacketLength' = PacketLength
    BY <1>3, <1>8, <2>2, <2>3, <2>4 DEF PacketLength
  <2>13. ResultInv'
    BY <1>8, <2>10, <2>11, <2>12 DEF ResultInv
  <2> QED  BY <1>1, <1>8, <2>11, <2>13, AfterRead
<1> QED  BY <1>8, <1>9, <1>10

\* Every step preserves the invariant.
LEMMA StepIInv == IInv /\ [Next]_vars => IInv'
<1> SUFFICES ASSUME IInv, [Next]_vars PROVE IInv'
  OBVIOUS
<1>1. CASE Arrive
  <2>1. /\ packet' = packet /\ ended' = ended /\ stage' = stage /\ want' = want
        /\ taken' = taken /\ got' = got /\ result' = result
        /\ arrived < Len(Stream) /\ arrived' = arrived + 1 /\ ~ended
    BY <1>1 DEF Arrive
  <2>2. StreamInv /\ ResultInv
    BY DEF IInv
  <2>3. Len(Stream) \in Nat /\ Len(Stream)' = Len(Stream)
    BY <2>1, <2>2, StreamBytes DEF StreamInv, Stream
  <2>4. arrived' \in 0..Len(Stream)' /\ taken' \in 0..arrived'
    BY <2>1, <2>2, <2>3 DEF StreamInv
  <2>5. StreamInv'
    BY <2>1, <2>2, <2>4 DEF StreamInv
  <2>6. ResultInv'
    BY <2>1, <2>2, ZenonT(30)
    DEF ResultInv, ReadInv, HasAddress, Offset, Untold, PacketLength
  <2> QED  BY <2>5, <2>6 DEF IInv
<1>2. CASE End
  <2>1. /\ packet' = packet /\ arrived' = arrived /\ stage' = stage
        /\ want' = want /\ taken' = taken /\ got' = got /\ result' = result
        /\ ended' = TRUE
    BY <1>2 DEF End
  <2>2. ended' \in BOOLEAN
    BY <2>1, Zenon
  <2>3. StreamInv'
    BY <2>1, <2>2 DEF IInv, StreamInv, Stream
  <2>4. ReadInv => ReadInv'
    BY <2>1 DEF ReadInv, HasAddress, Offset
  <2>5. Untold => Untold'
    BY <2>1 DEF Untold, HasAddress
  <2>6. ResultInv'
    BY <2>1, <2>4, <2>5 DEF IInv, ResultInv, PacketLength
  <2> QED  BY <2>3, <2>6 DEF IInv
<1>3. CASE ReadFails
  <2>1. /\ packet' = packet /\ arrived' = arrived /\ stage' = stage
        /\ want' = want /\ taken' = taken /\ got' = got /\ ended' = ended
        /\ result = "none" /\ result' = "error" /\ ended /\ arrived < taken + want
    BY <1>3 DEF ReadFails
  <2>2. StreamInv'
    BY <2>1 DEF IInv, StreamInv, Stream
  <2>3. taken + want <= PacketLength
    BY <2>1, ReadsWithin DEF IInv, ResultInv
  <2>4. /\ arrived \in Nat /\ taken \in Nat /\ want \in Nat /\ PacketLength \in Nat
    BY StreamBytes DEF IInv, StreamInv
  <2>5. arrived < PacketLength
    BY <2>1, <2>3, <2>4
  <2>6. ResultInv'
    BY <2>1, <2>5 DEF ResultInv, PacketLength
  <2> QED  BY <2>2, <2>6 DEF IInv
<1>4. CASE UNCHANGED vars
  <2>1. /\ packet' = packet /\ arrived' = arrived /\ ended' = ended
        /\ stage' = stage /\ want' = want /\ taken' = taken /\ got' = got
        /\ result' = result
    BY <1>4 DEF vars
  <2>2. StreamInv'
    BY <2>1 DEF IInv, StreamInv, Stream
  <2>3. (ReadInv => ReadInv') /\ (Untold => Untold')
    BY <2>1, ZenonT(30) DEF ReadInv, HasAddress, Offset, Untold
  <2>4. ResultInv'
    BY <2>1, <2>3 DEF IInv, ResultInv, PacketLength
  <2> QED  BY <2>2, <2>4 DEF IInv
<1> QED
  BY <1>1, <1>2, <1>3, <1>4, MethodsReadInv, SelectReadInv, TypeReadInv,
     LengthReadInv, HostReadInv DEF Next, Read

\* The invariant holds throughout every execution.
LEMMA PacketsInvariant == Spec => []IInv
  BY InitIInv, StepIInv, PTL DEF Spec

-----------------------------------------------------------------------------

\* The reader's state is well typed, and what it reports is a packet.
THEOREM PacketsTyping == Spec => []TypeOK
<1>1. IInv => TypeOK
  <2> SUFFICES ASSUME IInv PROVE TypeOK
    OBVIOUS
  <2>1. result = "ok" => got \in MethodsPacket \cup SelectPacket \cup AddressPacket
    BY PacketsAssumption DEF IInv, StreamInv, ResultInv
  <2> QED  BY <2>1 DEF IInv, StreamInv, TypeOK
<1> QED  BY <1>1, PacketsInvariant, PTL

\* StartCreateFrom reads back what Serialize wrote, for every packet: the
\* callback gets the same fields, and reader and writer agree on where the
\* packet ends.
THEOREM PacketsInSync == Spec => []InSync
<1>1. IInv => InSync
  BY DEF IInv, ResultInv, InSync
<1> QED  BY <1>1, PacketsInvariant, PTL

\* No read of StartCreateFrom goes beyond the packet.
THEOREM PacketsWithin == Spec => []WithinPacket
<1>1. IInv => WithinPacket
  BY ReadsWithin DEF IInv, ResultInv, WithinPacket
<1> QED  BY <1>1, PacketsInvariant, PTL

\* What the callback is told is true: an error only of a packet that the peer
\* cut short, and StartCreateFrom loses its callback or throws only for an
\* unknown address type and a host name that is too long.
TrueResult ==
    /\ result = "error" => ended /\ arrived < PacketLength
    /\ result \in {"lost", "thrown"} => Untold

\* The safety half of PacketTold.
THEOREM PacketsTrueResult == Spec => []TrueResult
<1>1. IInv => TrueResult
  BY DEF IInv, ResultInv, TrueResult
<1> QED  BY <1>1, PacketsInvariant, PTL

=============================================================================
