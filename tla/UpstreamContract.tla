-------------------------- MODULE UpstreamContract --------------------------
(***************************************************************************)
(* What an upstream factory promises to the one who calls StartRequest,    *)
(* here SocksTcpServer: one result per request; until then the transport   *)
(* is the factory's, which closes it before it reports a failure, and from *)
(* then on it is the caller's, who gets it open, and the factory does not  *)
(* touch it.  A failure may be reported with a success code and no         *)
(* transport ("null"), over TLS a second time, and not at all.             *)
(***************************************************************************)
EXTENDS Sequences

CONSTANT Requests

VARIABLES
    kind,         \* "tcp" or "ssl": the transport factory
    trans,        \* trans[r]: "none", "open" or "closed"
    calls         \* calls[r]: the results the callback of r was called with

vars == <<kind, trans, calls>>

Init ==
    /\ kind \in {"tcp", "ssl"}
    /\ trans = [r \in Requests |-> "none"]
    /\ calls = [r \in Requests |-> << >>]

\* The factory connects the transport, or closes it without telling.
Work(r) ==
    /\ calls[r] = << >>
    /\ \/ trans[r] = "none" /\ trans' = [trans EXCEPT ![r] = "open"]
       \/ trans[r] = "open" /\ trans' = [trans EXCEPT ![r] = "closed"]
    /\ calls' = calls

Succeed(r) ==
    /\ calls[r] = << >>
    /\ trans[r] = "open"
    /\ calls' = [calls EXCEPT ![r] = <<"transport">>]
    /\ trans' = trans

Fail(r) ==
    /\ calls[r] = << >>
    /\ \/ trans' = [trans EXCEPT ![r] = "closed"]
       \/ trans[r] = "none" /\ trans' = trans
    /\ \E result \in {"error", "null"} :
          calls' = [calls EXCEPT ![r] = <<result>>]

FailAgain(r) ==
    /\ kind = "ssl"
    /\ calls[r] = <<"error">> /\ trans[r] = "closed"
    /\ calls' = [calls EXCEPT ![r] = <<"error", "error">>]
    /\ trans' = trans

Next ==
    /\ \E r \in Requests : Work(r) \/ Succeed(r) \/ Fail(r) \/ FailAgain(r)
    /\ kind' = kind

Spec == Init /\ [][Next]_vars
=============================================================================
