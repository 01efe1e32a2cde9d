--------------------------- MODULE SocksUpstream ---------------------------
(***************************************************************************)
(* SocksTcpUpstreamFactory: concurrent calls of StartRequest, each from    *)
(* the thread that handles the request, and the SOCKS handshake with the   *)
(* upstream proxy that follows.                                            *)
(*                                                                         *)
(* The first request resolves the proxy's host name, connects to one of    *)
(* the resolved endpoints and caches the endpoint, under a mutex and with  *)
(* a double-checked atomic flag; later requests connect to the cached      *)
(* endpoint without the mutex.  Reads and writes of the flag, of the       *)
(* endpoint and of the mutex are steps of their own; the handshake, whose  *)
(* handlers share nothing, advances by whole handlers.                     *)
(***************************************************************************)
EXTENDS Naturals, Sequences

CONSTANTS
    Requests,     \* the calls of StartRequest
    Candidates,   \* bound: how many endpoints the proxy's name resolves to
    Kinds         \* the transport factories it may use

ASSUME UpstreamAssumption ==
    /\ Candidates \in Nat \ {0}
    /\ Kinds \subseteq {"tcp", "ssl"}

VARIABLES
    fate,         \* "running", or "aborted" by an exception in a handler
    kind,         \* "tcp" or "ssl": the transport factory
    pc,           \* pc[r]: where request r is
    mutex,        \* upstream_endpoint_init_mtx_: the requests that hold it
    isInit,       \* is_upstream_endpoint_init_
    endpoint,     \* upstream_endpoint_: 0, or a candidate
    connected,    \* the candidate that TryConnect connected to, or 0
    trans,        \* trans[r]: "none", "open" or "closed"
    calls         \* calls[r]: the results the callback of r was called with

vars == <<fate, kind, pc, mutex, isInit, endpoint, connected, trans, calls>>

Pc == {"check", "lock", "recheck", "resolve", "try", "store", "publish",
       "unlock", "connect", "connecting", "lateHandshake",
       "sendAuth", "readAuth", "sendRequest", "readResponse", "dropped",
       "done"}

\* "error": an error code and no transport; "transport": success and one;
\* "null": success and no transport.
Result == {"error", "transport", "null"}

Init ==
    /\ fate = "running"
    /\ kind \in Kinds
    /\ pc = [r \in Requests |-> "check"]
    /\ mutex = {}
    /\ isInit = FALSE
    /\ endpoint = 0
    /\ connected = 0
    /\ trans = [r \in Requests |-> "none"]
    /\ calls = [r \in Requests |-> << >>]

Goto(r, p) == pc' = [pc EXCEPT ![r] = p]
Callback(r, result) == calls' = [calls EXCEPT ![r] = Append(@, result)]

-----------------------------------------------------------------------------
(* StartRequest: the cached endpoint *)

Check(r) ==
    /\ pc[r] = "check"
    /\ Goto(r, IF isInit THEN "connect" ELSE "lock")
    /\ UNCHANGED <<kind, mutex, isInit, endpoint, connected, trans, calls>>

Lock(r) ==
    /\ pc[r] = "lock"
    /\ mutex = {}
    /\ mutex' = {r}
    /\ Goto(r, "recheck")
    /\ UNCHANGED <<kind, isInit, endpoint, connected, trans, calls>>

\* Initialising again without looking at the flag under the mutex.
Recheck_Skipped(r) ==
    /\ pc[r] = "recheck"
    /\ Goto(r, "resolve")
    /\ UNCHANGED <<kind, mutex, isInit, endpoint, connected, trans, calls>>

Recheck(r) ==
    /\ pc[r] = "recheck"
    /\ Goto(r, IF isInit THEN "unlock" ELSE "resolve")
    /\ UNCHANGED <<kind, mutex, isInit, endpoint, connected, trans, calls>>

\* An error return that takes the mutex along.
Resolve_NoUnlock(r) ==
    /\ pc[r] = "resolve"
    /\ \/ Goto(r, "try") /\ calls' = calls
       \/ Goto(r, "done") /\ Callback(r, "error")
    /\ UNCHANGED <<kind, mutex, isInit, endpoint, connected, trans>>

\* The synchronous resolve.  On an error the callback is called, then the
\* lock_guard releases the mutex.
Resolve(r) ==
    /\ pc[r] = "resolve"
    /\ \/ Goto(r, "try") /\ calls' = calls
       \/ Goto(r, "unlock") /\ Callback(r, "error")
    /\ UNCHANGED <<kind, mutex, isInit, endpoint, connected, trans>>

\* A TryConnect that tries one candidate too many.
TryConnect_PastEnd(r) ==
    /\ pc[r] = "try"
    /\ \E e \in 1..(Candidates + 1) : connected' = e
    /\ trans' = [trans EXCEPT ![r] = "open"]
    /\ Goto(r, "store")
    /\ UNCHANGED <<kind, mutex, isInit, endpoint, calls>>

\* TryConnect: connects to the first candidate that takes the connection.
TryConnect(r) ==
    /\ pc[r] = "try"
    /\ \/ /\ \E e \in 1..Candidates : connected' = e
          /\ trans' = [trans EXCEPT ![r] = "open"]
          /\ Goto(r, "store")
          /\ calls' = calls
       \/ /\ trans' = [trans EXCEPT ![r] = "closed"]
          /\ Goto(r, "unlock")
          /\ Callback(r, "error")
          /\ connected' = connected
    /\ UNCHANGED <<kind, mutex, isInit, endpoint>>

\* An endpoint taken from the start of the results, as the TCP factory's
\* TryConnect leaves it.
StoreEndpoint_First(r) ==
    /\ pc[r] = "store"
    /\ endpoint' = 1
    /\ Goto(r, "publish")
    /\ UNCHANGED <<kind, mutex, isInit, connected, trans, calls>>

\* Where TryConnect leaves the iterator: the TLS factory's moves it to the
\* endpoint it connected to, the TCP factory's does not move it.
IterAfterTryConnect == IF kind = "ssl" THEN connected ELSE 1

StoreEndpoint(r) ==
    /\ pc[r] = "store"
    /\ endpoint' = IterAfterTryConnect
    /\ Goto(r, "publish")
    /\ UNCHANGED <<kind, mutex, isInit, connected, trans, calls>>

Publish(r) ==
    /\ pc[r] = "publish"
    /\ isInit' = TRUE
    /\ Goto(r, "unlock")
    /\ UNCHANGED <<kind, mutex, endpoint, connected, trans, calls>>

\* The end of the lock_guard's scope: the request has failed, goes on with
\* the transport it has, or connects one.
Unlock(r) ==
    /\ pc[r] = "unlock"
    /\ mutex' = mutex \ {r}
    /\ Goto(r, IF calls[r] # << >> THEN "done"
               ELSE IF trans[r] = "open" THEN "sendAuth" ELSE "connect")
    /\ UNCHANGED <<kind, isInit, endpoint, connected, trans, calls>>

-----------------------------------------------------------------------------
(* StartRequest: the asynchronous connect *)

StartConnect(r) ==
    /\ pc[r] = "connect"
    /\ Goto(r, "connecting")
    /\ UNCHANGED <<kind, mutex, isInit, endpoint, connected, trans, calls>>

ConnectOk(r) ==
    /\ pc[r] = "connecting"
    /\ trans' = [trans EXCEPT ![r] = "open"]
    /\ Goto(r, "sendAuth")
    /\ UNCHANGED <<kind, mutex, isInit, endpoint, connected, calls>>

\* After a failed connect the TLS factory calls back and goes on to the TLS
\* handshake on the same transport.
ConnectFails(r) ==
    /\ pc[r] = "connecting"
    /\ trans' = [trans EXCEPT ![r] = "closed"]
    /\ Callback(r, "error")
    /\ \/ kind = "tcp" /\ Goto(r, "done")
       \/ kind = "ssl" /\ Goto(r, "lateHandshake")
    /\ UNCHANGED <<kind, mutex, isInit, endpoint, connected>>

\* A TLS handshake that fails on a connected transport calls back once.
HandshakeFails(r) ==
    /\ kind = "ssl"
    /\ pc[r] = "connecting"
    /\ trans' = [trans EXCEPT ![r] = "closed"]
    /\ Callback(r, "error")
    /\ Goto(r, "done")
    /\ UNCHANGED <<kind, mutex, isInit, endpoint, connected>>

LateHandshakeFails(r) ==
    /\ pc[r] = "lateHandshake"
    /\ Callback(r, "error")
    /\ Goto(r, "done")
    /\ UNCHANGED <<kind, mutex, isInit, endpoint, connected, trans>>

\* A connect that finds no descriptor for its socket.  The TLS factory calls
\* back with the error, then sets an option of the socket that is not open,
\* which throws out of the handler.
OpenFails(r) ==
    /\ pc[r] = "connecting"
    /\ trans' = [trans EXCEPT ![r] = "closed"]
    /\ Callback(r, "error")
    /\ Goto(r, "done")
    /\ fate' = IF kind = "ssl" THEN "aborted" ELSE fate
    /\ UNCHANGED <<kind, mutex, isInit, endpoint, connected>>

-----------------------------------------------------------------------------
(* SendAuthRequest and SendSocksRequest *)

Waiting == {"sendAuth", "readAuth", "sendRequest", "readResponse"}

\* Each packet is written or read whole, and the next operation starts.
Exchange(r) ==
    /\ \/ pc[r] = "sendAuth" /\ Goto(r, "readAuth")
       \/ pc[r] = "readAuth" /\ Goto(r, "sendRequest")
       \/ pc[r] = "sendRequest" /\ Goto(r, "readResponse")
    /\ UNCHANGED <<kind, mutex, isInit, endpoint, connected, trans, calls>>

\* An error path that calls back without closing the transport.
ExchangeFails_NoClose(r) ==
    /\ pc[r] \in Waiting
    /\ Callback(r, "error")
    /\ Goto(r, "done")
    /\ UNCHANGED <<kind, mutex, isInit, endpoint, connected, trans>>

\* An error path that calls back and waits for the reply all the same.
ExchangeFails_NoReturn(r) ==
    /\ pc[r] \in Waiting
    /\ trans' = [trans EXCEPT ![r] = "closed"]
    /\ Callback(r, "error")
    /\ Goto(r, IF pc[r] = "sendAuth" THEN "readAuth" ELSE "done")
    /\ UNCHANGED <<kind, mutex, isInit, endpoint, connected>>

\* A write or read of the handshake fails.
ExchangeFails(r) ==
    /\ pc[r] \in Waiting
    /\ trans' = [trans EXCEPT ![r] = "closed"]
    /\ Callback(r, "error")
    /\ Goto(r, "done")
    /\ UNCHANGED <<kind, mutex, isInit, endpoint, connected>>

\* The proxy selects a method other than kNoAuth: the error code that the
\* callback gets is that of the successful read.
MethodRefused(r) ==
    /\ pc[r] = "readAuth"
    /\ trans' = [trans EXCEPT ![r] = "closed"]
    /\ Callback(r, "null")
    /\ Goto(r, "done")
    /\ UNCHANGED <<kind, mutex, isInit, endpoint, connected>>

\* The proxy's response carries an error code, made into one of ours.
RequestRefused(r) ==
    /\ pc[r] = "readResponse"
    /\ trans' = [trans EXCEPT ![r] = "closed"]
    /\ Callback(r, "error")
    /\ Goto(r, "done")
    /\ UNCHANGED <<kind, mutex, isInit, endpoint, connected>>

\* The bound address in the response is of an unknown type: SocksAddress's
\* StartCreateFrom calls no callback, so nobody is told, and the transport
\* goes with the last reference to it.
ResponseDropped(r) ==
    /\ pc[r] = "readResponse"
    /\ trans' = [trans EXCEPT ![r] = "closed"]
    /\ Goto(r, "dropped")
    /\ UNCHANGED <<kind, mutex, isInit, endpoint, connected, calls>>

RequestGranted(r) ==
    /\ pc[r] = "readResponse"
    /\ Callback(r, "transport")
    /\ Goto(r, "done")
    /\ UNCHANGED <<kind, mutex, isInit, endpoint, connected, trans>>

-----------------------------------------------------------------------------

\* The steps of the thread that calls StartRequest, up to the connect.
CallerStep(r) ==
    \/ Check(r) \/ Lock(r) \/ Recheck(r)
    \/ Resolve(r) \/ TryConnect(r)
    \/ StoreEndpoint(r) \/ Publish(r) \/ Unlock(r)
    \/ StartConnect(r)

HandlerStep(r) ==
    \/ ConnectOk(r) \/ ConnectFails(r)
    \/ HandshakeFails(r) \/ LateHandshakeFails(r)
    \/ Exchange(r) \/ ExchangeFails(r)
    \/ MethodRefused(r) \/ RequestRefused(r)
    \/ ResponseDropped(r) \/ RequestGranted(r)

Next ==
    /\ fate = "running"
    /\ \E r \in Requests :
          \/ (CallerStep(r) \/ HandlerStep(r)) /\ fate' = fate
          \/ OpenFails(r)

Spec == Init /\ [][Next]_vars

\* Threads run, and a mutex that stays free is granted to a waiting thread;
\* every request takes it once, so that is enough.  The synchronous resolve
\* and TCP connect return (the system bounds both).  Nothing bounds the
\* proxy's part of a handshake.
Runs(A) == fate = "running" /\ A /\ fate' = fate

Fairness ==
    \A r \in Requests :
        /\ WF_vars(Runs(Check(r) \/ Recheck(r) \/ StoreEndpoint(r) \/ Publish(r)
                        \/ Unlock(r) \/ StartConnect(r)))
        /\ WF_vars(Runs(Resolve(r)))
        /\ WF_vars(kind = "tcp" /\ Runs(TryConnect(r)))
        /\ WF_vars(Runs(Lock(r)))

FairSpec == Spec /\ Fairness

-----------------------------------------------------------------------------
(* Properties *)

\* Type correctness of the factory's state.
TypeOK ==
    /\ fate \in {"running", "aborted"}
    /\ kind \in Kinds
    /\ pc \in [Requests -> Pc]
    /\ mutex \subseteq Requests
    /\ isInit \in BOOLEAN
    /\ endpoint \in 0..Candidates
    /\ connected \in 0..Candidates
    /\ trans \in [Requests -> {"none", "open", "closed"}]
    /\ calls \in [Requests -> Seq(Result)]

\* The double-checked lock publishes the endpoint safely: a request that
\* reads it without the mutex finds it written, and no other request writes
\* it at that moment.
SafePublication ==
    \A r \in Requests :
        pc[r] = "connect" => endpoint # 0 /\ \A q \in Requests : pc[q] # "store"

\* The endpoint is initialised once and stays what it is.
InitOnce == [][endpoint # 0 => endpoint' = endpoint]_vars

\* Who owns the transport of a request: while the handshake goes on the
\* factory, which closes it before it reports an error; with success it
\* passes to the caller open.  A request that is over has been reported.
Ownership ==
    \A r \in Requests :
        /\ pc[r] \in Waiting => trans[r] = "open" /\ calls[r] = << >>
        /\ calls[r] # << >> => (trans[r] = "open" <=> calls[r][1] = "transport")
        /\ pc[r] = "done" => calls[r] # << >>

\* With the TCP factory the callback of a request is called at most once, and
\* it has been called when nothing is outstanding any more, but for the
\* response that SocksAddress drops.
CalledOnce ==
    kind = "tcp" =>
        \A r \in Requests :
            Len(calls[r]) <= 1 /\ (pc[r] = "done" => Len(calls[r]) = 1)

\* The factory implements what SocksTcpServer relies on: whatever the proxy
\* answers and wherever the handshake fails, a request has one result (over
\* TLS maybe a repeated error), and once it is reported nothing touches the
\* transport any more.
Contract == INSTANCE UpstreamContract
ContractSpec == Contract!Spec

\* With the TLS factory the endpoint that TryConnect connected to is the one
\* that is cached for later requests.
CachedIsConnected == kind = "ssl" => (endpoint # 0 => endpoint = connected)

\* No request waits for the mutex for ever, although the holder resolves and
\* connects synchronously, and releases it on its error paths too.  Only a
\* TLS handshake with a proxy that keeps silent holds it up, and only a TLS
\* connect without a descriptor takes the process with it.
LockGranted ==
    \A r \in Requests :
        (pc[r] = "lock") ~> \/ pc[r] # "lock"
                            \/ kind = "ssl" /\ \E q \in Requests : pc[q] = "try"
                            \/ kind = "ssl" /\ fate = "aborted"

-----------------------------------------------------------------------------
(* What comments and tests say and the code does not do *)

\* "It will be advanced to the first connectable result" (the iterator that
\* TryConnect of any factory takes): the endpoint cached from it is the one
\* that was connected.
IteratorAdvanced == endpoint # 0 => endpoint = connected

\* One request has one result: the server answers it once.
OneResult == \A r \in Requests : Len(calls[r]) <= 1

\* Success comes with a transport.
SuccessHasTransport ==
    \A r \in Requests : \A i \in DOMAIN calls[r] : calls[r][i] # "null"
=============================================================================
