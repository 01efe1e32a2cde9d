--------------------------- MODULE MCSocksServer ---------------------------
(***************************************************************************)
(* Instances of SocksServer for TLC: two clients, so that one session can  *)
(* get in the way of another.                                              *)
(***************************************************************************)
EXTENDS SocksServer

CONSTANTS c1, c2

TcpDirect == [listener |-> "tcp", upstream |-> "direct"]
SslSocks == [listener |-> "ssl", upstream |-> "socks"]

OnlyTcpDirect == {TcpDirect}
TcpDirectOrSslSocks == {TcpDirect, SslSocks}
=============================================================================
