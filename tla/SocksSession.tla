---------------------------- MODULE SocksSession ----------------------------
(***************************************************************************)
(* What a SOCKS server promises to its clients, seen from outside: every   *)
(* client has one connection, closed at most once and for good; on it one  *)
(* method selection and one response, each true to what the client said;   *)
(* a refusal closes the connection with the reply; the upstream is opened  *)
(* for a CONNECT only, before the success is told, and closed with the     *)
(* client's connection.  No step touches two clients.                      *)
(***************************************************************************)
EXTENDS Sequences

CONSTANTS
    Conns,        \* the clients
    Messages      \* what a client may send

VARIABLES
    conn,         \* conn[c]: "none", "open" or "closed"
    up,           \* up[c]: "none", "open" or "closed"
    replies,      \* replies[c]: what client c was told, in order
    said          \* said[c]: the messages client c has sent

vars == <<conn, up, replies, said>>

Init ==
    /\ conn = [c \in Conns |-> "none"]
    /\ up = [c \in Conns |-> "none"]
    /\ replies = [c \in Conns |-> << >>]
    /\ said = [c \in Conns |-> {}]

Say(c) ==
    /\ conn[c] # "closed"
    /\ \E m \in Messages : said' = [said EXCEPT ![c] = @ \cup {m}]
    /\ UNCHANGED <<conn, up, replies>>

Open(c) ==
    /\ conn[c] = "none"
    /\ conn' = [conn EXCEPT ![c] = "open"]
    /\ UNCHANGED <<up, replies, said>>

\* A reply to client c: what it had been told, and what it has been told now.
Tell(c, before, after) ==
    /\ conn[c] = "open"
    /\ replies[c] = before
    /\ replies' = [replies EXCEPT ![c] = after]
    /\ UNCHANGED <<up, said>>

\* A reply after which the conversation goes on.
Grant(c) ==
    /\ \/ "offerNoAuth" \in said[c] /\ Tell(c, << >>, <<"kNoAuth">>)
       \/ up[c] = "open" /\ Tell(c, <<"kNoAuth">>, <<"kNoAuth", "kSuccess">>)
    /\ conn' = conn

\* A reply that is the last, to a client that has no upstream.
Refuse(c) ==
    /\ up[c] = "none"
    /\ \/ /\ "offerOther" \in said[c]
          /\ Tell(c, << >>, <<"kNotSupported">>)
       \/ /\ "otherCommand" \in said[c]
          /\ Tell(c, <<"kNoAuth">>, <<"kNoAuth", "kCommandNotSupported">>)
       \/ /\ "connect" \in said[c]
          /\ Tell(c, <<"kNoAuth">>, <<"kNoAuth", "kConnectionRefused">>)
    /\ conn' = [conn EXCEPT ![c] = "closed"]

Reach(c) ==
    /\ conn[c] = "open"
    /\ replies[c] = <<"kNoAuth">> /\ "connect" \in said[c]
    /\ up[c] = "none"
    /\ up' = [up EXCEPT ![c] = "open"]
    /\ UNCHANGED <<conn, replies, said>>

\* The end without a reply, of both connections at once.
Close(c) ==
    /\ conn[c] = "open"
    /\ conn' = [conn EXCEPT ![c] = "closed"]
    /\ up' = [up EXCEPT ![c] = IF @ = "open" THEN "closed" ELSE @]
    /\ UNCHANGED <<replies, said>>

Next ==
    \E c \in Conns :
        Say(c) \/ Open(c) \/ Grant(c) \/ Refuse(c) \/ Reach(c) \/ Close(c)

Spec == Init /\ [][Next]_vars
=============================================================================
