------------------------------ MODULE Streams ------------------------------
(***************************************************************************)
(* The two ends of a relayed session and the byte streams between them.    *)
(* The i-th byte that an end ever sends is represented by the number i, so *)
(* a lost, repeated, reordered or invented byte shows in the sequence of   *)
(* the bytes that reach the other end.                                     *)
(***************************************************************************)
EXTENDS Naturals, Sequences

\* The two transports of a session: towards the SOCKS client ("down") and
\* towards the target or the next proxy ("up").
Side == {"down", "up"}

Other(s) == IF s = "down" THEN "up" ELSE "down"

\* The n bytes of a stream that follow its first lo bytes.
Bytes(lo, n) == [i \in 1..n |-> lo + i]
=============================================================================
