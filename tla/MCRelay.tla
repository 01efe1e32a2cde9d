------------------------------ MODULE MCRelay ------------------------------
(***************************************************************************)
(* An instance of Relay for TLC: a client over TCP or TLS, a target over   *)
(* TCP.                                                                    *)
(***************************************************************************)
EXTENDS Relay

ClientTcpOrTls == {[s \in Side |-> "tcp"],
                   [s \in Side |-> IF s = "down" THEN "ssl" ELSE "tcp"]}
=============================================================================
