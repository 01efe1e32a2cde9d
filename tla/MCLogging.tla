----------------------------- MODULE MCLogging -----------------------------
(***************************************************************************)
(* An instance of Logging for TLC: three sinks of different levels, in an  *)
(* order in which the levels do not grow; and all short formats of a sink. *)
(***************************************************************************)
EXTENDS Logging, LogFormat

CONSTANTS t1, t2

Levels == <<1, 4, 0>>

\* The value of an attribute may look like a pattern itself.
MCAttributes == [key \in {"k"} |-> <<"{", "k", "}">>]

\* What a sink writes for the records it stores is its format, whatever that
\* is, with the patterns replaced.
StoredAsFormatted == (\E i \in Sinks : stored[i] # << >>) => PatternsReplaced
=============================================================================
