-------------------------- MODULE MCSocksPackets --------------------------
(***************************************************************************)
(* An instance of SocksPackets for TLC: packets of every kind, with host   *)
(* names of the shortest and the longest lengths, ports at the edges of    *)
(* their bytes, and address types that SOCKS does not define.              *)
(***************************************************************************)
EXTENDS SocksPackets, TLC

\* n bytes that differ from their neighbours.
Text(n) == [i \in 1..n |-> 97 + (i % 26)]

Lengths == {0, 1, 2, 127, 253, 254, 255}
Ports == {0, 255, 256, 65535}

Addresses ==
    {FromAsioEndpoint(Text(n), p) : n \in {4, 16}, p \in Ports}
        \cup {[type |-> kDomainName, host |-> Text(n), port |-> 443] : n \in Lengths}
        \cup {[type |-> t, host |-> << >>, port |-> 443] : t \in {0, 2, 255}}

MCPackets ==
    {[kind |-> "methods", version |-> 5, methods |-> Text(n)] : n \in {0, 1, 2, 255}}
        \cup {[kind |-> "select", version |-> 5, method |-> m] : m \in {0, 255}}
        \cup {[kind |-> k, version |-> v, code |-> 1] @@ a :
                  k \in {"request"}, v \in {4, 5}, a \in Addresses}
        \cup {[kind |-> "response", version |-> 5, code |-> c] @@ a :
                  c \in {0, 5}, a \in Addresses}

MCFollowing == <<5, 0, 255>>
=============================================================================
