-------------------------------- MODULE Pipe --------------------------------
(***************************************************************************)
(* What a relayed session promises to its two ends: a duplex pipe.  Each   *)
(* end receives, in order and without gaps, a prefix of what the other end *)
(* sent; the pipe is closed once, at both ends, and delivers nothing       *)
(* afterwards.  Relay implements this specification.                       *)
(***************************************************************************)
EXTENDS Streams

CONSTANT MaxBytes      \* bound: bytes each end sends

VARIABLES
    sent,              \* sent[s]: how many bytes end s has sent
    out,               \* out[s]: the bytes that have reached end s
    state              \* "open" or "closed"

vars == <<sent, out, state>>

Init ==
    /\ sent = [s \in Side |-> 0]
    /\ out = [s \in Side |-> << >>]
    /\ state = "open"

Send(s) ==
    /\ sent[s] < MaxBytes
    /\ sent' = [sent EXCEPT ![s] = @ + 1]
    /\ UNCHANGED <<out, state>>

Deliver(s) ==
    /\ state = "open"
    /\ \E n \in (Len(out[s]) + 1)..sent[Other(s)] :
          out' = [out EXCEPT ![s] = Bytes(0, n)]
    /\ UNCHANGED <<sent, state>>

Close ==
    /\ state = "open"
    /\ state' = "closed"
    /\ UNCHANGED <<sent, out>>

Next == (\E s \in Side : Send(s) \/ Deliver(s)) \/ Close

Spec == Init /\ [][Next]_vars
=============================================================================
