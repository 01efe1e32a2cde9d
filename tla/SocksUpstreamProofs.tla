------------------------ MODULE SocksUpstreamProofs ------------------------
(***************************************************************************)
(* Proofs about SocksUpstream, for any number of concurrent requests and   *)
(* of resolved endpoints.                                                  *)
(***************************************************************************)
EXTENDS SocksUpstream, SequenceTheorems, TLAPS

\* Where a request holds the mutex.
Critical == {"recheck", "resolve", "try", "store", "publish", "unlock"}

\* The mutex excludes, and is held exactly in the critical section.
LockInv ==
    /\ \A r \in Requests : pc[r] \in Critical <=> r \in mutex
    /\ \A r, q \in mutex : r = q

\* The flag says that the endpoint is there; until it is set the endpoint is
\* written only by the request about to set it.
CacheInv ==
    /\ isInit => endpoint # 0
    /\ endpoint # 0 /\ ~isInit => \E r \in Requests : pc[r] = "publish"
    /\ \A r \in Requests :
          /\ pc[r] \in {"resolve", "try", "store", "publish"} => ~isInit
          /\ pc[r] = "publish" => endpoint # 0
          /\ pc[r] = "connect" => isInit
          /\ pc[r] = "unlock" => isInit \/ calls[r] # << >>
          /\ pc[r] = "store" => connected # 0

\* What a request has and has reported, by where it is.
RequestInv(r) ==
    /\ pc[r] \in {"check", "lock", "recheck", "resolve", "try", "connect",
                  "connecting"}
          => trans[r] = "none" /\ calls[r] = << >>
    /\ pc[r] \in {"store", "publish"} \cup Waiting
          => trans[r] = "open" /\ calls[r] = << >>
    /\ pc[r] = "unlock" =>
          \/ trans[r] \in {"none", "open"} /\ calls[r] = << >>
          \/ trans[r] # "open" /\ calls[r] = <<"error">>
    /\ pc[r] = "lateHandshake" =>
          kind = "ssl" /\ trans[r] = "closed" /\ calls[r] = <<"error">>
    /\ pc[r] = "dropped" => trans[r] = "closed" /\ calls[r] = << >>
    /\ pc[r] = "done" =>
          \/ trans[r] = "open" /\ calls[r] = <<"transport">>
          \/ trans[r] # "open" /\ calls[r] \in {<<"error">>, <<"null">>}
          \/ /\ kind = "ssl"
             /\ trans[r] = "closed"
             /\ calls[r] = <<"error", "error">>

IInv ==
    /\ TypeOK
    /\ LockInv
    /\ CacheInv
    /\ \A r \in Requests : RequestInv(r)

\* What calling back does to the list of results.
LEMMA Appended ==
    /\ \A x \in Result : Append(<< >>, x) = <<x>>
    /\ \A x, y \in Result : Append(<<x>>, y) = <<x, y>>
    /\ \A c \in Seq(Result), x \in Result : Append(c, x) \in Seq(Result)
<1>1. \A x \in Result : Append(<< >>, x) = <<x>>
  OBVIOUS
<1>2. ASSUME NEW x \in Result, NEW y \in Result
      PROVE  Append(<<x>>, y) = <<x, y>>
  <2>1. <<x>> \in Seq(Result) /\ Len(<<x>>) = 1
    OBVIOUS
  <2>2. /\ Append(<<x>>, y) \in Seq(Result)
        /\ Len(Append(<<x>>, y)) = 2
        /\ Append(<<x>>, y)[1] = x
        /\ Append(<<x>>, y)[2] = y
    BY <2>1
  <2>3. <<x, y>> \in Seq(Result) /\ Len(<<x, y>>) = 2
    OBVIOUS
  <2>4. \A i \in 1..2 : Append(<<x>>, y)[i] = <<x, y>>[i]
    BY <2>2
  <2> QED  BY <2>2, <2>3, <2>4, SeqEqual
<1>3. \A c \in Seq(Result), x \in Result : Append(c, x) \in Seq(Result)
  OBVIOUS
<1> QED  BY <1>1, <1>2, <1>3

\* The initial state satisfies the invariant.
LEMMA InitIInv == Init => IInv
<1> SUFFICES ASSUME Init PROVE IInv
  OBVIOUS
<1>1. TypeOK
  <2>1. isInit \in BOOLEAN
    BY Zenon DEF Init
  <2>2. calls \in [Requests -> Seq(Result)]
    BY DEF Init
  <2> QED
    BY <2>1, <2>2, UpstreamAssumption DEF Init, TypeOK, Pc
<1>2. LockInv /\ CacheInv
  BY DEF Init, LockInv, CacheInv, Critical
<1>3. ASSUME NEW r \in Requests PROVE RequestInv(r)
  BY DEF Init, RequestInv, Waiting
<1> QED  BY <1>1, <1>2, <1>3 DEF IInv

\* Every step preserves typing.
LEMMA StepTypeOK ==
    ASSUME TypeOK, NEW r \in Requests, CallerStep(r) \/ HandlerStep(r),
           fate' = fate
    PROVE  TypeOK'
<1> USE UpstreamAssumption DEF TypeOK, Pc, Result, Goto, Callback
<1>1. CASE Check(r)
  BY <1>1 DEF Check
<1>2. CASE Lock(r)
  BY <1>2 DEF Lock
<1>3. CASE Recheck(r)
  BY <1>3 DEF Recheck
<1>4. CASE Resolve(r)
  <2>1. Append(calls[r], "error") \in Seq(Result)
    BY Appended
  <2>2. calls' \in [Requests -> Seq(Result)]
    BY <1>4, <2>1 DEF Resolve
  <2>3. pc' \in [Requests -> Pc]
    BY <1>4 DEF Resolve
  <2> QED
    BY <1>4, <2>2, <2>3 DEF Resolve
<1>5. CASE TryConnect(r)
  <2>1. Append(calls[r], "error") \in Seq(Result)
    BY Appended
  <2>2. calls' \in [Requests -> Seq(Result)]
    BY <1>5, <2>1, ZenonT(30) DEF TryConnect
  <2>3. pc' \in [Requests -> Pc]
    BY <1>5 DEF TryConnect
  <2>4. trans' \in [Requests -> {"none", "open", "closed"}]
    BY <1>5 DEF TryConnect
  <2>5. connected' \in 0..Candidates
    BY <1>5 DEF TryConnect
  <2> QED
    BY <1>5, <2>2, <2>3, <2>4, <2>5 DEF TryConnect
<1>6. CASE StoreEndpoint(r)
  BY <1>6 DEF StoreEndpoint, IterAfterTryConnect
<1>7. CASE Publish(r)
  BY <1>7 DEF Publish
<1>8. CASE Unlock(r)
  BY <1>8 DEF Unlock
<1>9. CASE StartConnect(r)
  BY <1>9 DEF StartConnect
<1>10. CASE ConnectOk(r)
  BY <1>10 DEF ConnectOk
<1>11. CASE ConnectFails(r)
  <2>1. Append(calls[r], "error") \in Seq(Result)
    BY Appended
  <2>2. calls' \in [Requests -> Seq(Result)]
    BY <1>11, <2>1 DEF ConnectFails
  <2>3. pc' \in [Requests -> Pc]
    BY <1>11 DEF ConnectFails
  <2> QED
    BY <1>11, <2>2, <2>3 DEF ConnectFails
<1>12. CASE HandshakeFails(r)
  BY <1>12 DEF HandshakeFails
<1>13. CASE LateHandshakeFails(r)
  BY <1>13 DEF LateHandshakeFails
<1>14. CASE Exchange(r)
  BY <1>14 DEF Exchange
<1>15. CASE ExchangeFails(r)
  BY <1>15 DEF ExchangeFails, Waiting
<1>16. CASE MethodRefused(r)
  BY <1>16 DEF MethodRefused
<1>17. CASE RequestRefused(r)
  BY <1>17 DEF RequestRefused
<1>18. CASE RequestGranted(r)
  BY <1>18 DEF RequestGranted
<1>19. CASE ResponseDropped(r)
  BY <1>19 DEF ResponseDropped
<1> QED
  BY <1>1, <1>2, <1>3, <1>4, <1>5, <1>6, <1>7, <1>8, <1>9, <1>10, <1>11,
     <1>12, <1>13, <1>14, <1>15, <1>16, <1>17, <1>18, <1>19
  DEF CallerStep, HandlerStep

\* Every step keeps the mutex and the critical section together.
LEMMA StepLockInv ==
    ASSUME TypeOK, LockInv, NEW r \in Requests, CallerStep(r) \/ HandlerStep(r)
    PROVE  LockInv'
<1> USE DEF TypeOK, LockInv, Critical, Goto
<1>1. CASE Check(r)
  BY <1>1 DEF Check
<1>2. CASE Lock(r)
  BY <1>2 DEF Lock
<1>3. CASE Recheck(r)
  BY <1>3 DEF Recheck
<1>4. CASE Resolve(r)
  BY <1>4 DEF Resolve
<1>5. CASE TryConnect(r)
  BY <1>5 DEF TryConnect
<1>6. CASE StoreEndpoint(r)
  BY <1>6 DEF StoreEndpoint, IterAfterTryConnect
<1>7. CASE Publish(r)
  BY <1>7 DEF Publish
<1>8. CASE Unlock(r)
  BY <1>8 DEF Unlock
<1>9. CASE StartConnect(r)
  BY <1>9 DEF StartConnect
<1>10. CASE ConnectOk(r)
  BY <1>10 DEF ConnectOk
<1>11. CASE ConnectFails(r)
  BY <1>11 DEF ConnectFails
<1>12. CASE HandshakeFails(r)
  BY <1>12 DEF HandshakeFails
<1>13. CASE LateHandshakeFails(r)
  BY <1>13 DEF LateHandshakeFails
<1>14. CASE Exchange(r)
  BY <1>14, ZenonT(30) DEF Exchange
<1>15. CASE ExchangeFails(r)
  BY <1>15 DEF ExchangeFails, Waiting
<1>16. CASE MethodRefused(r)
  BY <1>16 DEF MethodRefused
<1>17. CASE RequestRefused(r)
  BY <1>17 DEF RequestRefused
<1>18. CASE RequestGranted(r)
  BY <1>18 DEF RequestGranted
<1>19. CASE ResponseDropped(r)
  BY <1>19 DEF ResponseDropped
<1> QED
  BY <1>1, <1>2, <1>3, <1>4, <1>5, <1>6, <1>7, <1>8, <1>9, <1>10, <1>11,
     <1>12, <1>13, <1>14, <1>15, <1>16, <1>17, <1>18, <1>19
  DEF CallerStep, HandlerStep

\* Every step keeps the flag and the endpoint together.
LEMMA StepCacheInv ==
    ASSUME IInv, NEW r \in Requests, CallerStep(r) \/ HandlerStep(r)
    PROVE  CacheInv'
<1> USE UpstreamAssumption
    DEF IInv, TypeOK, LockInv, CacheInv, RequestInv, Critical, Goto, Callback
<1>1. CASE Check(r)
  BY <1>1 DEF Check
<1>2. CASE Lock(r)
  BY <1>2 DEF Lock
<1>3. CASE Recheck(r)
  BY <1>3 DEF Recheck
<1>4. CASE Resolve(r)
  BY <1>4 DEF Resolve
<1>5. CASE TryConnect(r)
  BY <1>5 DEF TryConnect
<1>6. CASE StoreEndpoint(r)
  BY <1>6 DEF StoreEndpoint, IterAfterTryConnect
<1>7. CASE Publish(r)
  BY <1>7 DEF Publish
<1>8. CASE Unlock(r)
  BY <1>8 DEF Unlock
<1>9. CASE StartConnect(r)
  BY <1>9 DEF StartConnect
<1>10. CASE ConnectOk(r)
  BY <1>10 DEF ConnectOk
<1>11. CASE ConnectFails(r)
  BY <1>11 DEF ConnectFails
<1>12. CASE HandshakeFails(r)
  BY <1>12 DEF HandshakeFails
<1>13. CASE LateHandshakeFails(r)
  BY <1>13 DEF LateHandshakeFails
<1>14. CASE Exchange(r)
  BY <1>14 DEF Exchange
<1>15. CASE ExchangeFails(r)
  BY <1>15 DEF ExchangeFails, Waiting
<1>16. CASE MethodRefused(r)
  BY <1>16 DEF MethodRefused
<1>17. CASE RequestRefused(r)
  BY <1>17 DEF RequestRefused
<1>18. CASE RequestGranted(r)
  BY <1>18 DEF RequestGranted
<1>19. CASE ResponseDropped(r)
  BY <1>19 DEF ResponseDropped
<1> QED
  BY <1>1, <1>2, <1>3, <1>4, <1>5, <1>6, <1>7, <1>8, <1>9, <1>10, <1>11,
     <1>12, <1>13, <1>14, <1>15, <1>16, <1>17, <1>18, <1>19
  DEF CallerStep, HandlerStep

\* A step of one request leaves the others alone.
LEMMA StepFrame ==
    ASSUME TypeOK, NEW r \in Requests, CallerStep(r) \/ HandlerStep(r),
           NEW q \in Requests, q # r
    PROVE  /\ pc'[q] = pc[q] /\ trans'[q] = trans[q] /\ calls'[q] = calls[q]
           /\ kind' = kind
<1> USE DEF TypeOK, Goto, Callback
<1>1. CASE CallerStep(r)
  BY <1>1 DEF CallerStep, Check, Lock, Recheck, Resolve, TryConnect,
              StoreEndpoint, Publish, Unlock, StartConnect
<1>2. CASE HandlerStep(r)
  BY <1>2 DEF HandlerStep, ConnectOk, ConnectFails, HandshakeFails,
              LateHandshakeFails, Exchange, ExchangeFails, MethodRefused,
              RequestRefused, ResponseDropped, RequestGranted
<1> QED  BY <1>1, <1>2

\* Every step keeps what a request has and what it reported together.
LEMMA StepRequestInv ==
    ASSUME IInv, NEW r \in Requests, CallerStep(r) \/ HandlerStep(r),
           NEW q \in Requests
    PROVE  RequestInv(q)'
<1>0. CASE q # r
  BY <1>0, StepFrame DEF IInv, RequestInv
<1> SUFFICES ASSUME q = r PROVE RequestInv(r)'
  BY <1>0
<1>a. RequestInv(r) /\ TypeOK
  BY DEF IInv
<1>b. /\ "error" \in Result /\ "null" \in Result /\ "transport" \in Result
      /\ Append(<< >>, "error") = <<"error">>
      /\ Append(<< >>, "null") = <<"null">>
      /\ Append(<< >>, "transport") = <<"transport">>
      /\ Append(<<"error">>, "error") = <<"error", "error">>
  BY Appended DEF Result
<1> USE <1>a, <1>b DEF TypeOK, RequestInv, Waiting, Goto, Callback
<1>1. CASE Check(r)
  BY <1>1 DEF Check
<1>2. CASE Lock(r)
  BY <1>2 DEF Lock
<1>3. CASE Recheck(r)
  BY <1>3 DEF Recheck
<1>4. CASE Resolve(r)
  BY <1>4 DEF Resolve
<1>5. CASE TryConnect(r)
  BY <1>5 DEF TryConnect
<1>6. CASE StoreEndpoint(r)
  BY <1>6 DEF StoreEndpoint, IterAfterTryConnect
<1>7. CASE Publish(r)
  BY <1>7 DEF Publish
<1>8. CASE Unlock(r)
  <2>1. CASE calls[r] # << >>
    BY <1>8, <2>1 DEF Unlock
  <2>2. CASE calls[r] = << >> /\ trans[r] = "open"
    BY <1>8, <2>2 DEF Unlock
  <2>3. CASE calls[r] = << >> /\ trans[r] # "open"
    BY <1>8, <2>3 DEF Unlock
  <2> QED  BY <2>1, <2>2, <2>3
<1>9. CASE StartConnect(r)
  BY <1>9 DEF StartConnect
<1>10. CASE ConnectOk(r)
  BY <1>10 DEF ConnectOk
<1>11. CASE ConnectFails(r)
  BY <1>11 DEF ConnectFails
<1>12. CASE HandshakeFails(r)
  BY <1>12 DEF HandshakeFails
<1>13. CASE LateHandshakeFails(r)
  BY <1>13 DEF LateHandshakeFails
<1>14. CASE Exchange(r)
  BY <1>14 DEF Exchange
<1>15. CASE ExchangeFails(r)
  BY <1>15 DEF ExchangeFails, Waiting
<1>16. CASE MethodRefused(r)
  BY <1>16 DEF MethodRefused
<1>17. CASE RequestRefused(r)
  BY <1>17 DEF RequestRefused
<1>18. CASE RequestGranted(r)
  BY <1>18 DEF RequestGranted
<1>19. CASE ResponseDropped(r)
  BY <1>19 DEF ResponseDropped
<1> QED
  BY <1>1, <1>2, <1>3, <1>4, <1>5, <1>6, <1>7, <1>8, <1>9, <1>10, <1>11,
     <1>12, <1>13, <1>14, <1>15, <1>16, <1>17, <1>18, <1>19
  DEF CallerStep, HandlerStep

\* The connect without a descriptor preserves the invariant.
LEMMA OpenFailsIInv ==
    ASSUME IInv, NEW r \in Requests, OpenFails(r)
    PROVE  IInv'
<1> USE UpstreamAssumption DEF IInv, OpenFails, Goto, Callback
<1>1. "error" \in Result /\ Append(<< >>, "error") = <<"error">>
  BY Appended DEF Result
<1>2. calls[r] = << >> /\ calls' = [calls EXCEPT ![r] = <<"error">>]
  BY <1>1 DEF RequestInv
<1>3. TypeOK'
  <2>1. calls' \in [Requests -> Seq(Result)]
    BY <1>1, <1>2 DEF TypeOK
  <2>2. fate' \in {"running", "aborted"}
    BY DEF TypeOK
  <2> QED
    BY <2>1, <2>2 DEF TypeOK, Pc
<1>4. LockInv'
  BY DEF TypeOK, LockInv, Critical
<1>5. CacheInv'
  BY <1>2 DEF TypeOK, CacheInv
<1>6. ASSUME NEW q \in Requests PROVE RequestInv(q)'
  <2>1. CASE q = r
    BY <1>2, <2>1 DEF TypeOK, RequestInv, Waiting
  <2>2. CASE q # r
    BY <2>2 DEF TypeOK, RequestInv
  <2> QED  BY <2>1, <2>2
<1> QED  BY <1>3, <1>4, <1>5, <1>6

\* Every step, and every stuttering step, preserves the invariant.
LEMMA StepIInv == IInv /\ [Next]_vars => IInv'
<1> SUFFICES ASSUME IInv, [Next]_vars PROVE IInv'
  OBVIOUS
<1>1. ASSUME NEW r \in Requests, CallerStep(r) \/ HandlerStep(r), fate' = fate
      PROVE  IInv'
  <2>1. TypeOK' /\ LockInv'
    BY <1>1, StepTypeOK, StepLockInv DEF IInv
  <2>2. CacheInv'
    BY <1>1, StepCacheInv
  <2>3. \A q \in Requests : RequestInv(q)'
    BY <1>1, StepRequestInv
  <2> QED  BY <2>1, <2>2, <2>3 DEF IInv
<1>2. CASE UNCHANGED vars
  BY <1>2 DEF vars, IInv, TypeOK, LockInv, CacheInv, RequestInv
<1> QED  BY <1>1, <1>2, OpenFailsIInv DEF Next

\* The invariant holds throughout every execution.
LEMMA UpstreamInvariant == Spec => []IInv
  BY InitIInv, StepIInv, PTL DEF Spec

\* The factory's state is well typed.
THEOREM UpstreamTyping == Spec => []TypeOK
<1>1. IInv => TypeOK
  BY DEF IInv
<1> QED  BY <1>1, UpstreamInvariant, PTL

\* The double-checked lock of StartRequest publishes the endpoint safely,
\* whatever the number of concurrent requests.
THEOREM UpstreamSafePublication == Spec => []SafePublication
<1>1. IInv => SafePublication
  BY DEF IInv, CacheInv, SafePublication
<1> QED  BY <1>1, UpstreamInvariant, PTL

\* While a request initialises the endpoint, nobody has stored one.
LEMMA NothingStored ==
    ASSUME IInv, NEW r \in Requests, pc[r] \in {"try", "store"}
    PROVE  endpoint = 0
<1>1. r \in mutex /\ ~isInit
  BY DEF IInv, LockInv, CacheInv, Critical
<1>2. SUFFICES ASSUME endpoint # 0 PROVE FALSE
  OBVIOUS
<1>3. PICK q \in Requests : pc[q] = "publish"
  BY <1>1, <1>2 DEF IInv, CacheInv
<1>4. q \in mutex
  BY <1>3 DEF IInv, LockInv, Critical
<1> QED
  BY <1>1, <1>3, <1>4 DEF IInv, LockInv

\* Once StartRequest has stored the upstream endpoint, no step changes it.
THEOREM UpstreamInitOnce == Spec => InitOnce
<1>1. IInv /\ [Next]_vars => [endpoint # 0 => endpoint' = endpoint]_vars
  <2> SUFFICES ASSUME IInv, Next, endpoint # 0 PROVE endpoint' = endpoint
    BY DEF vars
  <2> PICK r \in Requests : CallerStep(r) \/ HandlerStep(r) \/ OpenFails(r)
    BY DEF Next
  <2>1. CASE StoreEndpoint(r)
    BY <2>1, NothingStored DEF StoreEndpoint
  <2>2. CASE CallerStep(r) /\ ~StoreEndpoint(r)
    BY <2>2 DEF CallerStep, Check, Lock, Recheck, Resolve, TryConnect,
                Publish, Unlock, StartConnect
  <2>3. CASE HandlerStep(r)
    BY <2>3 DEF HandlerStep, ConnectOk, ConnectFails, HandshakeFails,
                LateHandshakeFails, Exchange, ExchangeFails, MethodRefused,
                RequestRefused, ResponseDropped, RequestGranted
  <2>4. CASE OpenFails(r)
    BY <2>4 DEF OpenFails
  <2> QED  BY <2>1, <2>2, <2>3, <2>4
<1> QED  BY <1>1, UpstreamInvariant, PTL DEF Spec, InitOnce

\* The factory closes the transport before it reports an error, and hands it
\* over open with success.
THEOREM UpstreamOwnership == Spec => []Ownership
<1>1. IInv => Ownership
  <2> SUFFICES ASSUME IInv, NEW r \in Requests
               PROVE  /\ pc[r] \in Waiting =>
                            trans[r] = "open" /\ calls[r] = << >>
                      /\ calls[r] # << >> =>
                            (trans[r] = "open" <=> calls[r][1] = "transport")
                      /\ pc[r] = "done" => calls[r] # << >>
    BY DEF Ownership
  <2>1. RequestInv(r) /\ pc[r] \in Pc
    BY DEF IInv, TypeOK
  <2> QED  BY <2>1 DEF RequestInv, Pc, Waiting
<1> QED  BY <1>1, UpstreamInvariant, PTL

\* With the TCP factory each StartRequest calls its callback once.
THEOREM UpstreamCalledOnce == Spec => []CalledOnce
<1>1. IInv => CalledOnce
  <2> SUFFICES ASSUME IInv, kind = "tcp", NEW r \in Requests
               PROVE  Len(calls[r]) <= 1 /\ (pc[r] = "done" => Len(calls[r]) = 1)
    BY DEF CalledOnce
  <2>1. RequestInv(r) /\ pc[r] \in Pc
    BY DEF IInv, TypeOK
  <2>2. pc[r] # "done" => calls[r] = << >> \/ calls[r] = <<"error">>
    BY <2>1 DEF RequestInv, Pc, Waiting
  <2>3. pc[r] = "done" => \/ calls[r] = <<"error">> \/ calls[r] = <<"null">>
                          \/ calls[r] = <<"transport">>
    BY <2>1 DEF RequestInv
  <2>4. /\ Len(<< >>) = 0 /\ Len(<<"error">>) = 1 /\ Len(<<"null">>) = 1
        /\ Len(<<"transport">>) = 1
    OBVIOUS
  <2>5. calls[r] \in Seq(Result)
    BY DEF IInv, TypeOK
  <2>6. Len(calls[r]) = 0 \/ Len(calls[r]) = 1
    BY <2>2, <2>3, <2>4, Zenon
  <2>7. pc[r] = "done" => Len(calls[r]) = 1
    BY <2>3, <2>4, Zenon
  <2>8. Len(calls[r]) <= 1
    <3> DEFINE n == Len(calls[r])
    <3>1. n \in Nat
      BY <2>5
    <3>2. n = 0 \/ n = 1
      BY <2>6
    <3> HIDE DEF n
    <3>3. n <= 1
      BY <3>1, <3>2
    <3> QED  BY <3>3 DEF n
  <2> QED  BY <2>7, <2>8, Zenon
<1> QED  BY <1>1, UpstreamInvariant, PTL

\* With the TLS factory the endpoint StartRequest caches is the one that
\* TryConnect connected to, and stays so.
THEOREM UpstreamCachedIsConnected == Spec => []CachedIsConnected
<1>1. Init => CachedIsConnected
  BY DEF Init, CachedIsConnected
<1>2. IInv /\ CachedIsConnected /\ [Next]_vars => CachedIsConnected'
  <2> SUFFICES ASSUME IInv, CachedIsConnected, Next PROVE CachedIsConnected'
    BY DEF vars, CachedIsConnected
  <2> USE DEF CachedIsConnected
  <2> PICK r \in Requests : CallerStep(r) \/ HandlerStep(r) \/ OpenFails(r)
    BY DEF Next
  <2>1. CASE TryConnect(r)
    BY <2>1, NothingStored DEF TryConnect
  <2>2. CASE StoreEndpoint(r)
    BY <2>2 DEF StoreEndpoint, IterAfterTryConnect
  <2>3. CASE CallerStep(r) /\ ~TryConnect(r) /\ ~StoreEndpoint(r)
    BY <2>3 DEF CallerStep, Check, Lock, Recheck, Resolve, Publish, Unlock,
                StartConnect
  <2>4. CASE HandlerStep(r)
    BY <2>4 DEF HandlerStep, ConnectOk, ConnectFails, HandshakeFails,
                LateHandshakeFails, Exchange, ExchangeFails, MethodRefused,
                RequestRefused, ResponseDropped, RequestGranted
  <2>5. CASE OpenFails(r)
    BY <2>5 DEF OpenFails
  <2> QED  BY <2>1, <2>2, <2>3, <2>4, <2>5
<1> QED  BY <1>1, <1>2, UpstreamInvariant, PTL DEF Spec

\* The factory implements the contract of UpstreamFactoryBase::StartRequest
\* that SocksTcpServer relies on.
THEOREM UpstreamImplementsContract == Spec => ContractSpec
<1>1. Init => Contract!Init
  BY UpstreamAssumption DEF Init, Contract!Init
<1>2. IInv /\ [Next]_vars => [Contract!Next]_(Contract!vars)
  <2> SUFFICES ASSUME IInv, Next PROVE [Contract!Next]_(Contract!vars)
    BY DEF vars, Contract!vars
  <2> USE DEF Contract!Next, Contract!Work, Contract!Succeed, Contract!Fail,
              Contract!FailAgain, Contract!vars, Goto, Callback
  <2> PICK r \in Requests : CallerStep(r) \/ HandlerStep(r) \/ OpenFails(r)
    BY DEF Next
  <2>a. RequestInv(r) /\ TypeOK
    BY DEF IInv
  <2>b. /\ Append(<< >>, "error") = <<"error">>
        /\ Append(<< >>, "null") = <<"null">>
        /\ Append(<< >>, "transport") = <<"transport">>
        /\ Append(<<"error">>, "error") = <<"error", "error">>
    BY Appended DEF Result
  <2>1. CASE Check(r) \/ Lock(r) \/ Recheck(r) \/ StoreEndpoint(r) \/ Publish(r)
             \/ Unlock(r) \/ StartConnect(r) \/ Exchange(r)
    BY <2>1 DEF Check, Lock, Recheck, StoreEndpoint, Publish, Unlock,
                StartConnect, Exchange
  <2>2. CASE Resolve(r)
    BY <2>2, <2>a, <2>b DEF Resolve, RequestInv
  <2>3. CASE TryConnect(r)
    BY <2>3, <2>a, <2>b DEF TryConnect, RequestInv
  <2>4. CASE ConnectOk(r)
    BY <2>4, <2>a DEF ConnectOk, RequestInv
  <2>5. CASE ConnectFails(r) \/ HandshakeFails(r) \/ OpenFails(r)
    BY <2>5, <2>a, <2>b DEF ConnectFails, HandshakeFails, OpenFails, RequestInv
  <2>6. CASE LateHandshakeFails(r)
    BY <2>6, <2>a, <2>b DEF LateHandshakeFails, RequestInv
  <2>7. CASE ExchangeFails(r) \/ MethodRefused(r) \/ RequestRefused(r)
    BY <2>7, <2>a, <2>b
    DEF ExchangeFails, MethodRefused, RequestRefused, RequestInv, Waiting
  <2>8. CASE ResponseDropped(r)
    BY <2>8, <2>a DEF ResponseDropped, RequestInv, Waiting
  <2>9. CASE RequestGranted(r)
    BY <2>9, <2>a, <2>b DEF RequestGranted, RequestInv, Waiting
  <2> QED
    BY <2>1, <2>2, <2>3, <2>4, <2>5, <2>6, <2>7, <2>8, <2>9
    DEF CallerStep, HandlerStep
<1> QED
  BY <1>1, <1>2, UpstreamInvariant, PTL DEF Spec, ContractSpec, Contract!Spec

=============================================================================
