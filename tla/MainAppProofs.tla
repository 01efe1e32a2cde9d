--------------------------- MODULE MainAppProofs ---------------------------
(***************************************************************************)
(* Proofs about MainApp, for every command line, every set of              *)
(* configuration files, and any number of clients and servers.             *)
(***************************************************************************)
EXTENDS MainApp, SequenceTheorems, TLAPS

\* What ParseCommandLineOrDie has seen: flags in the odd places, and the last
\* file name where it is ready.
LineInv ==
    app = "args" =>
        /\ \A n \in 1..(i - 1) : n % 2 = 1 => args[n] \in Flag
        /\ state = IF i = 1 THEN 0 ELSE IF i % 2 = 0 THEN 2 ELSE 1
        /\ state = 1 => file = args[i - 1]
        /\ \A s \in Servers : acceptor[s] = "none"
        /\ \A c \in Sessions : phase[c] = "none"

\* Some session has left the backlog.
Busy == \E c \in Sessions : phase[c] \notin {"none", "queued"}

LogOk == \A n \in DOMAIN conf.log : ~BadSink(conf.log[n])

\* The servers are started one after the other, after the log, and all of
\* them before the first session.
StartedInv ==
    /\ app \in {"setup", "running"} \/ Busy => file \in DOMAIN Files /\ LogOk
    /\ \A s \in Servers : acceptor[s] # "none" =>
          s \in DOMAIN conf.servers /\ ServerOk(conf.servers[s])
    /\ app = "running" \/ Busy =>
          \A s \in DOMAIN conf.servers : acceptor[s] # "none"

\* Sessions are at servers that have been started.
SessionInv ==
    \A c \in Sessions :
        /\ phase[c] = "none" <=> at[c] = 0
        /\ at[c] # 0 => acceptor[at[c]] # "none"

\* The phases of a session that has not been connected to its upstream, and
\* those in which it is asking a SOCKS proxy.
Early == {"none", "queued", "tls", "dialog", "resolve", "try", "resolving", "connecting"}
Asking == {"resolve", "try", "tryTls", "waiting"}

\* A session and the one made for it: there is none before c is connected,
\* and none at all where its upstream is not a server of this process.  While
\* c keeps the thread with a TLS handshake, that session cannot be accepted.
LinkInv(c) ==
    /\ phase[c] \in Asking => up(at[c]).type = "socks"
    /\ ~Linked(c) \/ phase[c] \in Early => There(c) = "none"
    /\ Linked(c) => /\ phase[c] = "tryTls" => There(c) = "queued"
                    /\ TrueToUpstream(c)

LinksInv == \A c \in Sessions : LinkInv(c)

IInv == TypeOK /\ LineInv /\ StartedInv /\ SessionInv /\ ThreadKept /\ LinksInv

-----------------------------------------------------------------------------
(* The checks of the start-up *)

Checks == [bad : BOOLEAN, how : {"exitFailure", "abort"}]

NoneBad(q) == \A n \in DOMAIN q : ~q[n].bad

\* A sequence of one check, as the start-up makes it.
LEMMA OneCheck ==
    ASSUME NEW bad \in BOOLEAN, NEW how \in {"exitFailure", "abort"}
    PROVE  /\ <<Check(bad, how)>> \in Seq(Checks)
           /\ NoneBad(<<Check(bad, how)>>) <=> ~bad
<1>1. PICK x : x = Check(bad, how)
  OBVIOUS
<1>2. x \in Checks /\ x.bad = bad
  BY <1>1, Zenon DEF Check, Checks
<1>3. <<x>> \in Seq(Checks) /\ DOMAIN <<x>> = {1} /\ <<x>>[1] = x
  BY <1>2
<1> QED  BY <1>1, <1>2, <1>3, Zenon DEF NoneBad

\* Checks made one after the other.
LEMMA JoinedChecks ==
    ASSUME NEW q \in Seq(Checks), NEW r \in Seq(Checks)
    PROVE  /\ q \o r \in Seq(Checks)
           /\ NoneBad(q \o r) <=> NoneBad(q) /\ NoneBad(r)
<1>1. PICK z : z = q \o r
  OBVIOUS
<1>2. /\ z \in Seq(Checks) /\ Len(z) = Len(q) + Len(r)
      /\ \A n \in 1..Len(q) : z[n] = q[n]
      /\ \A n \in 1..Len(r) : z[Len(q) + n] = r[n]
  BY <1>1, ConcatProperties
<1>3. /\ DOMAIN q = 1..Len(q) /\ DOMAIN r = 1..Len(r) /\ DOMAIN z = 1..Len(z)
      /\ Len(q) \in Nat /\ Len(r) \in Nat
  BY <1>2
<1>4. ASSUME NoneBad(z) PROVE NoneBad(q) /\ NoneBad(r)
  <2>1. ASSUME NEW n \in DOMAIN q PROVE ~q[n].bad
    <3>1. n \in DOMAIN z /\ z[n] = q[n]
      BY <1>2, <1>3, <2>1
    <3> QED  BY <1>4, <3>1, Zenon DEF NoneBad
  <2>2. ASSUME NEW n \in DOMAIN r PROVE ~r[n].bad
    <3>1. Len(q) + n \in DOMAIN z /\ z[Len(q) + n] = r[n]
      BY <1>2, <1>3, <2>2
    <3> QED  BY <1>4, <3>1, Zenon DEF NoneBad
  <2> QED  BY <2>1, <2>2 DEF NoneBad
<1>5. ASSUME NoneBad(q), NoneBad(r) PROVE NoneBad(z)
  <2>1. ASSUME NEW n \in DOMAIN z PROVE ~z[n].bad
    <3>1. CASE n <= Len(q)
      <4>1. n \in DOMAIN q /\ z[n] = q[n]
        BY <1>2, <1>3, <2>1, <3>1
      <4> QED  BY <1>5, <4>1, Zenon DEF NoneBad
    <3>2. CASE n > Len(q)
      <4>1. PICK m : m = n - Len(q)
        OBVIOUS
      <4>2. m \in DOMAIN r /\ n = Len(q) + m
        BY <1>2, <1>3, <2>1, <3>2, <4>1
      <4>3. z[n] = r[m]
        BY <1>2, <1>3, <4>2
      <4> QED  BY <1>5, <4>2, <4>3, Zenon DEF NoneBad
    <3> QED  BY <1>2, <1>3, <2>1, <3>1, <3>2
  <2> QED  BY <2>1 DEF NoneBad
<1> QED  BY <1>1, <1>2, <1>4, <1>5

\* The checks of an ssl section.
LEMMA TcpChecks ==
    ASSUME NEW ssl \in Ssl, NEW noAddress \in BOOLEAN
    PROVE  LET q == MakeTcpTransportFactoryOrDie(ssl, noAddress) IN
           /\ q \in Seq(Checks)
           /\ NoneBad(q) <=>
                 /\ SslOk(ssl)
                 /\ ssl.used /\ noAddress => ssl.verify = "absent"
<1>1. /\ ssl.used \in BOOLEAN /\ ssl.files \in {"ok", "bad"}
      /\ ssl.verify \in {"absent", "true", "false", "other"}
  BY DEF Ssl
<1>2. CASE ~ssl.used
  <2>1. MakeTcpTransportFactoryOrDie(ssl, noAddress) = << >>
    BY <1>2 DEF MakeTcpTransportFactoryOrDie
  <2>2. << >> \in Seq(Checks) /\ NoneBad(<< >>)
    BY DEF NoneBad
  <2> QED  BY <1>2, <2>1, <2>2, Zenon DEF SslOk
<1>3. CASE ssl.used
  <2>1. PICK a, b, c : /\ a = Check(ssl.files = "bad", "abort")
                       /\ b = Check(ssl.verify = "other", "exitFailure")
                       /\ c = Check(ssl.verify # "absent" /\ noAddress, "abort")
    OBVIOUS
  <2>2. MakeTcpTransportFactoryOrDie(ssl, noAddress) = <<a, b, c>>
    BY <1>3, <2>1, Zenon DEF MakeTcpTransportFactoryOrDie, LoadFiles
  <2>3. /\ a \in Checks /\ (a.bad <=> ssl.files = "bad")
        /\ b \in Checks /\ (b.bad <=> ssl.verify = "other")
        /\ c \in Checks /\ (c.bad <=> ssl.verify # "absent" /\ noAddress)
    BY <2>1, Zenon DEF Check, Checks
  <2>4. PICK q : q = <<a, b, c>>
    OBVIOUS
  <2>5. /\ q \in Seq(Checks) /\ DOMAIN q = {1, 2, 3}
        /\ q[1] = a /\ q[2] = b /\ q[3] = c
    BY <2>3, <2>4
  <2>6. NoneBad(q) <=> ~a.bad /\ ~b.bad /\ ~c.bad
    BY <2>5, Zenon DEF NoneBad
  <2>7. NoneBad(q) <=>
           /\ ssl.files = "ok" /\ ssl.verify # "other"
           /\ ~(ssl.verify # "absent" /\ noAddress)
    BY <1>1, <2>3, <2>6, Zenon
  <2> QED  BY <1>3, <2>2, <2>4, <2>5, <2>7, Zenon DEF SslOk
<1> QED  BY <1>2, <1>3, Zenon

\* A sequence of two checks.
LEMMA TwoChecks ==
    ASSUME NEW bad \in BOOLEAN, NEW how \in {"exitFailure", "abort"},
           NEW bad2 \in BOOLEAN, NEW how2 \in {"exitFailure", "abort"}
    PROVE  /\ <<Check(bad, how), Check(bad2, how2)>> \in Seq(Checks)
           /\ NoneBad(<<Check(bad, how), Check(bad2, how2)>>) <=> ~bad /\ ~bad2
<1>1. PICK x, y : x = Check(bad, how) /\ y = Check(bad2, how2)
  OBVIOUS
<1>2. x \in Checks /\ x.bad = bad /\ y \in Checks /\ y.bad = bad2
  BY <1>1, Zenon DEF Check, Checks
<1>3. PICK q : q = <<x, y>>
  OBVIOUS
<1>4. q \in Seq(Checks) /\ DOMAIN q = {1, 2} /\ q[1] = x /\ q[2] = y
  BY <1>2, <1>3
<1> QED  BY <1>1, <1>2, <1>3, <1>4, Zenon DEF NoneBad

\* The checks of an upstream section.
LEMMA UpstreamChecks ==
    ASSUME NEW u \in Upstream
    PROVE  LET q == MakeUpstreamFactoryOrDie(u) IN
           /\ q \in Seq(Checks)
           /\ NoneBad(q) <=>
                 /\ SslOk(u.ssl)
                 /\ u.ssl.used /\ u.where = "absent" => u.ssl.verify = "absent"
                 /\ u.type # "other"
                 /\ ~(u.type = "socks" /\ u.where = "absent")
<1>1. u.ssl \in Ssl
  BY DEF Upstream
<1>2. PICK a : a = MakeTcpTransportFactoryOrDie(u.ssl, u.where = "absent")
  OBVIOUS
<1>3. /\ a \in Seq(Checks)
      /\ NoneBad(a) <=>
            /\ SslOk(u.ssl)
            /\ u.ssl.used /\ u.where = "absent" => u.ssl.verify = "absent"
  BY <1>1, <1>2, TcpChecks, Zenon
<1>4. PICK b : b = << Check(u.type = "other", "exitFailure"),
                      Check(u.type = "socks" /\ u.where = "absent", "abort") >>
  OBVIOUS
<1>5. /\ b \in Seq(Checks)
      /\ NoneBad(b) <=> u.type # "other" /\ ~(u.type = "socks" /\ u.where = "absent")
  BY <1>4, TwoChecks, Zenon
<1>6. MakeUpstreamFactoryOrDie(u) = a \o b
  BY <1>2, <1>4, Zenon DEF MakeUpstreamFactoryOrDie
<1>7. a \o b \in Seq(Checks) /\ (NoneBad(a \o b) <=> NoneBad(a) /\ NoneBad(b))
  BY <1>3, <1>5, JoinedChecks
<1> QED  BY <1>3, <1>5, <1>6, <1>7, Zenon

\* The checks of a server section.
LEMMA AllChecks ==
    ASSUME NEW c \in Server
    PROVE  /\ ServerChecks(c) \in Seq(Checks)
           /\ NoneBad(ServerChecks(c)) <=> ServerOk(c)
<1>1. /\ c.ssl \in Ssl /\ c.upstream \in Upstream
      /\ c.upstream.type \in {"direct", "socks", "other", "absent"}
  BY DEF Server, Upstream
<1>2. PICK a : a = << Check(c.type # "socks", "exitFailure"),
                      Check(c.address = "absent", "abort") >>
  OBVIOUS
<1>3. /\ a \in Seq(Checks)
      /\ NoneBad(a) <=> c.type = "socks" /\ c.address # "absent"
  BY <1>2, TwoChecks, Zenon
<1>4. PICK b : b = MakeTcpTransportFactoryOrDie(c.ssl, FALSE)
  OBVIOUS
<1>5. b \in Seq(Checks) /\ (NoneBad(b) <=> SslOk(c.ssl))
  BY <1>1, <1>4, TcpChecks, Zenon
<1>6. PICK d : d = << Check(c.upstream.type = "absent", "abort") >>
  OBVIOUS
<1>7. d \in Seq(Checks) /\ (NoneBad(d) <=> c.upstream.type # "absent")
  BY <1>6, OneCheck, Zenon
<1>8. PICK e : e = MakeUpstreamFactoryOrDie(c.upstream)
  OBVIOUS
<1>9. /\ e \in Seq(Checks)
      /\ NoneBad(e) <=>
            /\ SslOk(c.upstream.ssl)
            /\ c.upstream.ssl.used /\ c.upstream.where = "absent"
                  => c.upstream.ssl.verify = "absent"
            /\ c.upstream.type # "other"
            /\ ~(c.upstream.type = "socks" /\ c.upstream.where = "absent")
  BY <1>1, <1>8, UpstreamChecks, Zenon
<1>10. ServerChecks(c) = ((a \o b) \o d) \o e
  BY <1>2, <1>4, <1>6, <1>8, Zenon DEF ServerChecks
<1>11. a \o b \in Seq(Checks) /\ (NoneBad(a \o b) <=> NoneBad(a) /\ NoneBad(b))
  BY <1>3, <1>5, JoinedChecks
<1>12. /\ (a \o b) \o d \in Seq(Checks)
       /\ NoneBad((a \o b) \o d) <=> NoneBad(a \o b) /\ NoneBad(d)
  BY <1>7, <1>11, JoinedChecks
<1>13. /\ ((a \o b) \o d) \o e \in Seq(Checks)
       /\ NoneBad(((a \o b) \o d) \o e) <=> NoneBad((a \o b) \o d) /\ NoneBad(e)
  BY <1>9, <1>12, JoinedChecks
<1>14. NoneBad(ServerChecks(c)) <=> NoneBad(a) /\ NoneBad(b) /\ NoneBad(d) /\ NoneBad(e)
  BY <1>10, <1>11, <1>12, <1>13, Zenon
<1>15. NoneBad(ServerChecks(c)) <=> ServerOk(c)
  BY <1>1, <1>3, <1>5, <1>7, <1>9, <1>14, Zenon DEF ServerOk
<1> QED  BY <1>10, <1>13, <1>15, Zenon

\* MainApp::Run starts a server exactly if its section of the file is well
\* formed, whatever the section says: no check that MainApp, the builder of ssl
\* factories and property_tree make rejects a good section or lets a bad one
\* through, and every failed check ends the process.
THEOREM ChecksExact ==
    \A c \in Server :
        /\ Failures(c) = {} <=> ServerOk(c)
        /\ \A n \in Failures(c) : ServerChecks(c)[n].how \in {"exitFailure", "abort"}
<1> SUFFICES ASSUME NEW c \in Server
             PROVE  /\ Failures(c) = {} <=> ServerOk(c)
                    /\ \A n \in Failures(c) :
                          ServerChecks(c)[n].how \in {"exitFailure", "abort"}
  OBVIOUS
<1>1. PICK q : q = ServerChecks(c)
  OBVIOUS
<1>2. q \in Seq(Checks) /\ (NoneBad(q) <=> ServerOk(c))
  BY <1>1, AllChecks, Zenon
<1>3. Failures(c) = {n \in DOMAIN q : q[n].bad}
  BY <1>1, Zenon DEF Failures
<1>4. Failures(c) = {} <=> NoneBad(q)
  BY <1>3, Zenon DEF NoneBad
<1>5. \A n \in DOMAIN q : q[n] \in Checks
  BY <1>2
<1>6. \A n \in DOMAIN q : q[n].how \in {"exitFailure", "abort"}
  BY <1>5 DEF Checks
<1> QED  BY <1>1, <1>2, <1>3, <1>4, <1>6, Zenon

-----------------------------------------------------------------------------
(* The invariant *)

\* The configuration that has been read.
LEMMA ConfFacts ==
    ASSUME file \in DOMAIN Files
    PROVE  /\ conf.servers \in Seq(Server)
           /\ DOMAIN conf.servers = 1..Len(conf.servers)
           /\ DOMAIN conf.servers \subseteq Servers
<1>1. PICK q : q = conf.servers
  OBVIOUS
<1>2. q \in Seq(Server) /\ Len(q) <= MaxServers /\ MaxServers \in Nat
  BY <1>1, MainAppAssumption DEF conf
<1>3. DOMAIN q = 1..Len(q) /\ Len(q) \in Nat
  BY <1>2
<1> QED  BY <1>1, <1>2, <1>3 DEF Servers

\* The arguments are a sequence.
LEMMA ArgsFacts ==
    ASSUME TypeOK
    PROVE  args \in Seq(STRING) /\ Len(args) \in Nat /\ DOMAIN args = 1..Len(args)
<1>1. << >> \in Seq(STRING)
  OBVIOUS
<1>2. args \in ArgLists \cup {<< >>}
  BY DEF TypeOK
<1>3. args \in Seq(STRING)
  BY <1>1, <1>2, MainAppAssumption, Zenon
<1> QED  BY <1>3

\* The neighbours of a session.
LEMMA Neighbours ==
    ASSUME NEW c \in Sessions
    PROVE  /\ c[2] < MaxHops => After(c) \in Sessions /\ After(c) # c
           /\ c[2] = 1 => \A d \in Sessions : After(d) # c
           /\ \A d \in Sessions : After(d) = After(c) => d = c
<1>1. MaxHops \in Nat
  BY MainAppAssumption
<1>2. ASSUME NEW d \in Sessions
      PROVE  /\ d = <<d[1], d[2]>> /\ d[1] \in Clients /\ d[2] \in Nat
             /\ d[2] >= 1 /\ d[2] <= MaxHops
  BY <1>1 DEF Sessions, Hops
<1>3. ASSUME c[2] < MaxHops PROVE After(c) \in Sessions /\ After(c) # c
  BY <1>1, <1>2, <1>3 DEF Sessions, Hops, After
<1>4. ASSUME NEW d \in Sessions, c[2] = 1 PROVE After(d) # c
  BY <1>2, <1>4 DEF After
<1>5. ASSUME NEW d \in Sessions, After(d) = After(c) PROVE d = c
  <2>1. d[1] = c[1] /\ d[2] + 1 = c[2] + 1
    BY <1>5 DEF After
  <2>2. d[2] = c[2]
    BY <1>2, <2>1
  <2> QED  BY <1>2, <2>1, <2>2
<1> QED  BY <1>3, <1>4, <1>5

\* A process that has just been started satisfies the invariant.
LEMMA InitIInv == Init => IInv
<1> SUFFICES ASSUME Init PROVE IInv
  OBVIOUS
<1>1. args \in Seq(STRING) /\ Len(args) \in Nat
  BY MainAppAssumption DEF Init
<1>2. TypeOK
  BY <1>1, MainAppAssumption DEF Init, TypeOK, Phase, Over
<1>3. LineInv
  BY <1>1 DEF Init, LineInv
<1>4. StartedInv
  BY DEF Init, StartedInv, Busy
<1>5. SessionInv
  BY DEF Init, SessionInv
<1>6. \A c \in Sessions : phase[c] = "none" /\ There(c) = "none"
  BY Neighbours DEF Init, There
<1>7. ThreadKept /\ LinksInv
  BY <1>6
  DEF ThreadKept, LinksInv, LinkInv, TrueToUpstream, Asking, Early, Told, Failed, Sync
<1> QED  BY <1>2, <1>3, <1>4, <1>5, <1>7 DEF IInv

\* A step that starts no server, reads no file and lets no session begin
\* before all servers are started keeps StartedInv.
LEMMA StartedFrame ==
    ASSUME TypeOK, StartedInv, file' = file,
           app' \in {"setup", "running"} => app' = app,
           app # "running" => (Busy' => Busy),
           \A s \in Servers : acceptor'[s] = "none" <=> acceptor[s] = "none"
    PROVE  StartedInv'
<1>1. conf' = conf
  BY DEF conf
<1>2. app' = "running" \/ Busy' => app = "running" \/ Busy
  OBVIOUS
<1>3. app' \in {"setup", "running"} \/ Busy' => file \in DOMAIN Files /\ LogOk
  BY <1>2 DEF StartedInv
<1>4. LogOk => LogOk'
  BY <1>1 DEF LogOk
<1>5. ASSUME NEW s \in Servers, acceptor'[s] # "none"
      PROVE  s \in DOMAIN conf'.servers /\ ServerOk(conf'.servers[s])
  BY <1>1, <1>5 DEF StartedInv
<1>6. ASSUME app' = "running" \/ Busy', NEW s \in DOMAIN conf'.servers
      PROVE  acceptor'[s] # "none"
  <2>1. s \in DOMAIN conf.servers /\ s \in Servers
    BY <1>1, <1>3, <1>6, ConfFacts
  <2> QED  BY <1>2, <1>6, <2>1 DEF StartedInv
<1> QED  BY <1>3, <1>4, <1>5, <1>6 DEF StartedInv

\* A step that leaves the sessions and the servers alone.
LEMMA SessionsFrame ==
    ASSUME SessionInv, ThreadKept, LinksInv, UNCHANGED <<acceptor, cached, phase, at>>,
           file' = file \/ \A c \in Sessions : phase[c] = "none"
    PROVE  SessionInv' /\ ThreadKept' /\ LinksInv'
<1>1. SessionInv' /\ ThreadKept'
  BY DEF SessionInv, ThreadKept
<1>2. ASSUME NEW c \in Sessions PROVE LinkInv(c)'
  <2>1. LinkInv(c) /\ There(c)' = There(c)
    BY DEF LinksInv, There
  <2>2. CASE file' = file
    <3>1. up(at[c])' = up(at[c]) /\ (Linked(c)' <=> Linked(c))
      BY <2>2 DEF up, conf, Linked, Own
    <3> QED  BY <2>1, <3>1 DEF LinkInv, TrueToUpstream
  <2>3. CASE phase[c] = "none"
    BY <2>1, <2>3 DEF LinkInv, TrueToUpstream, Asking, Early, Told, Failed
  <2> QED  BY <2>2, <2>3
<1> QED  BY <1>1, <1>2 DEF LinksInv

\* ParseCommandLineOrDie and ReadConfig.
LEMMA LineSteps ==
    ASSUME IInv, ParseArgument \/ ParseCommandLineOrDie \/ ReadConfig
    PROVE  IInv'
<1>a. TypeOK /\ LineInv /\ StartedInv /\ SessionInv /\ ThreadKept /\ LinksInv
  BY DEF IInv
<1>b. args \in Seq(STRING) /\ Len(args) \in Nat /\ DOMAIN args = 1..Len(args)
  BY <1>a, ArgsFacts
<1>c. UNCHANGED serving
  BY DEF ParseArgument, ParseCommandLineOrDie, ReadConfig
<1>d. SessionInv' /\ ThreadKept' /\ LinksInv' /\ (Busy' <=> Busy)
  <2>1. file' = file \/ \A c \in Sessions : phase[c] = "none"
    BY <1>a DEF ParseArgument, ParseCommandLineOrDie, ReadConfig, LineInv
  <2> QED  BY <1>a, <1>c, <2>1, SessionsFrame DEF Busy, serving
<1>e. /\ i \in Nat /\ i >= 1 /\ i <= Len(args) + 1 /\ state \in {0, 1, 2}
  BY <1>a, <1>b DEF TypeOK
<1>1. app' \in {"args", "config", "logging", "exitFailure", "abort"}
  BY <1>a DEF ParseArgument, ParseCommandLineOrDie, Parsed, ReadConfig
<1>2. TypeOK'
  <2>1. /\ args' \in ArgLists \cup {<< >>}
        /\ i' \in 1..(Len(args') + 1)
        /\ state' \in 0..2
    <3>1. CASE ParseArgument
      BY <1>a, <1>b, <1>e, <3>1 DEF ParseArgument, Parsed, TypeOK
    <3>2. CASE ParseCommandLineOrDie
      BY <3>2 DEF ParseCommandLineOrDie, Parsed
    <3>3. CASE ReadConfig
      BY <1>a, <3>3 DEF ReadConfig, TypeOK, line
    <3> QED  BY <3>1, <3>2, <3>3
  <2>2. app' = "logging" => file' \in DOMAIN Files
    BY <1>a DEF ParseArgument, ParseCommandLineOrDie, Parsed, ReadConfig
  <2> QED  BY <1>a, <1>c, <1>1, <2>1, <2>2 DEF TypeOK, serving
<1>3. StartedInv'
  <2>1. CASE app = "args"
    <3>1. /\ \A s \in Servers : acceptor'[s] = "none"
          /\ ~Busy'
      BY <1>a, <1>c, <2>1 DEF LineInv, Busy, serving
    <3> QED  BY <1>1, <3>1 DEF StartedInv
  <2>2. CASE app # "args"
    <3>1. file' = file
      BY <2>2 DEF ParseArgument, ParseCommandLineOrDie, ReadConfig
    <3> QED  BY <1>a, <1>c, <1>d, <1>1, <3>1, StartedFrame DEF serving
  <2> QED  BY <2>1, <2>2
<1>4. LineInv'
  <2>1. SUFFICES ASSUME app' = "args" PROVE LineInv'
    BY DEF LineInv
  <2>2. /\ app = "args" /\ i <= Len(args) /\ i' = i + 1 /\ args' = args
        /\ \/ state \in {0, 1} /\ args[i] \in Flag /\ state' = 2
           \/ state = 2 /\ file' = args[i] /\ state' = 1
    BY <2>1 DEF ParseArgument, ParseCommandLineOrDie, Parsed, ReadConfig
  <2>3. /\ \A n \in 1..(i - 1) : n % 2 = 1 => args[n] \in Flag
        /\ state = IF i = 1 THEN 0 ELSE IF i % 2 = 0 THEN 2 ELSE 1
        /\ \A s \in Servers : acceptor'[s] = "none"
        /\ \A c \in Sessions : phase'[c] = "none"
    BY <1>a, <1>c, <2>2 DEF LineInv, serving
  <2>4. state' = IF i' = 1 THEN 0 ELSE IF i' % 2 = 0 THEN 2 ELSE 1
    BY <1>e, <2>2, <2>3
  <2>5. ASSUME NEW n \in 1..(i' - 1), n % 2 = 1 PROVE args'[n] \in Flag
    <3>1. n \in 1..(i - 1) \/ n = i
      BY <1>e, <2>2
    <3>2. n = i => args[i] \in Flag
      BY <1>e, <2>2, <2>3, <2>5
    <3> QED  BY <2>2, <2>3, <2>5, <3>1, <3>2
  <2>6. state' = 1 => file' = args'[i' - 1]
    BY <1>e, <2>2
  <2> QED  BY <2>3, <2>4, <2>5, <2>6 DEF LineInv
<1> QED  BY <1>d, <1>2, <1>3, <1>4 DEF IInv

\* What one round of the loop in MainApp::Run comes to.
LEMMA StartServerEffect ==
    ASSUME TypeOK, NEW s \in Servers, StartServer(s)
    PROVE  /\ s \in DOMAIN conf.servers
           /\ \/ app' \in {"exitFailure", "abort"} /\ acceptor' = acceptor
              \/ /\ app' = "setup" /\ ServerOk(conf.servers[s])
                 /\ \/ acceptor' = [acceptor EXCEPT ![s] = "off"]
                    \/ acceptor' = [acceptor EXCEPT ![s] = "accept"]
<1>1. /\ app = "setup" /\ s <= Len(conf.servers)
      /\ \/ \E n \in Failures(conf.servers[s]) :
               /\ app' = ServerChecks(conf.servers[s])[n].how
               /\ acceptor' = acceptor
         \/ /\ Failures(conf.servers[s]) = {}
            /\ \/ app' = "setup" /\ acceptor' = [acceptor EXCEPT ![s] = "off"]
               \/ app' = "abort" /\ acceptor' = acceptor
               \/ app' = "setup" /\ acceptor' = [acceptor EXCEPT ![s] = "accept"]
  BY Zenon DEF StartServer
<1>2. s \in DOMAIN conf.servers /\ conf.servers[s] \in Server
  <2>1. PICK q : q = conf.servers
    OBVIOUS
  <2>2. q \in Seq(Server) /\ s <= Len(q) /\ DOMAIN q = 1..Len(q)
    BY <1>1, <2>1, ConfFacts DEF TypeOK
  <2>3. s \in Nat /\ s >= 1 /\ Len(q) \in Nat
    BY <2>2, MainAppAssumption DEF Servers
  <2>4. s \in DOMAIN q
    BY <2>2, <2>3
  <2>5. q[s] \in Server
    BY <2>2, <2>4
  <2> QED  BY <2>1, <2>4, <2>5
<1>3. /\ Failures(conf.servers[s]) = {} <=> ServerOk(conf.servers[s])
      /\ \A n \in Failures(conf.servers[s]) :
            ServerChecks(conf.servers[s])[n].how \in {"exitFailure", "abort"}
  BY <1>2, ChecksExact, Zenon
<1> QED  BY <1>1, <1>2, <1>3, Zenon

\* The start-up in MainApp::Run.
LEMMA RunSteps ==
    ASSUME IInv, SetUpLoggingOrDie \/ (\E s \in Servers : StartServer(s)) \/ Run
    PROVE  IInv'
<1>a. TypeOK /\ LineInv /\ StartedInv /\ SessionInv /\ ThreadKept /\ LinksInv
  BY DEF IInv
<1>b. /\ UNCHANGED <<line, file, cached, phase, at, shutdowns>>
      /\ app \in {"logging", "setup"} /\ file \in DOMAIN Files
  BY <1>a DEF SetUpLoggingOrDie, StartServer, Run, serving, TypeOK
<1>c. conf' = conf
  BY <1>b DEF conf
<1>d. Busy' <=> Busy
  BY <1>b DEF Busy
<1>e. LogOk' <=> LogOk
  BY <1>c DEF LogOk
<1>f. acceptor' = acceptor => SessionInv' /\ ThreadKept' /\ LinksInv'
  BY <1>a, <1>b, SessionsFrame
<1>1. CASE SetUpLoggingOrDie
  <2>1. app' \in {"setup", "exitFailure"} /\ acceptor' = acceptor
    BY <1>1 DEF SetUpLoggingOrDie, serving
  <2>2. app' = "setup" => LogOk
    BY <1>1 DEF SetUpLoggingOrDie, LogOk, Range
  <2>3. TypeOK' /\ LineInv'
    BY <1>a, <1>b, <2>1 DEF TypeOK, LineInv, line
  <2>4. StartedInv'
    BY <1>a, <1>b, <1>c, <1>d, <1>e, <2>1, <2>2 DEF StartedInv
  <2> QED  BY <1>f, <2>1, <2>3, <2>4 DEF IInv
<1>2. ASSUME NEW s \in Servers, StartServer(s) PROVE IInv'
  <2>1. app = "setup" /\ acceptor[s] = "none"
    BY <1>2 DEF StartServer
  <2>2. s \in DOMAIN conf.servers
    BY <1>a, <1>2, StartServerEffect
  <2>3. \/ app' \in {"exitFailure", "abort"} /\ acceptor' = acceptor
        \/ /\ app' = "setup" /\ ServerOk(conf.servers[s])
           /\ \/ acceptor' = [acceptor EXCEPT ![s] = "off"]
              \/ acceptor' = [acceptor EXCEPT ![s] = "accept"]
    BY <1>a, <1>2, StartServerEffect
  <2>4. CASE app' \in {"exitFailure", "abort"} /\ acceptor' = acceptor
    <3>1. TypeOK' /\ LineInv'
      BY <1>a, <1>b, <2>4 DEF TypeOK, LineInv, line
    <3>2. StartedInv'
      BY <1>a, <1>b, <1>d, <2>4, StartedFrame
    <3> QED  BY <1>f, <2>4, <3>1, <3>2 DEF IInv
  <2>5. CASE /\ app' = "setup" /\ ServerOk(conf.servers[s])
             /\ \/ acceptor' = [acceptor EXCEPT ![s] = "off"]
                \/ acceptor' = [acceptor EXCEPT ![s] = "accept"]
    <3>1. /\ acceptor' \in [Servers -> {"none", "off", "accept", "handshake", "stopped"}]
          /\ \A r \in Servers \ {s} : acceptor'[r] = acceptor[r]
          /\ acceptor'[s] # "none"
      BY <1>a, <2>5 DEF TypeOK
    <3>2. TypeOK'
      BY <1>a, <1>b, <2>5, <3>1 DEF TypeOK, line
    <3>3. LineInv'
      BY <2>5 DEF LineInv
    <3>4. SessionInv' /\ ThreadKept' /\ LinksInv'
      <4>1. SessionInv'
        <5>1. \A c \in Sessions : at[c] # 0 => at[c] \in Servers
          BY <1>a, MainAppAssumption DEF TypeOK, Servers
        <5> QED  BY <1>a, <1>b, <3>1, <5>1 DEF SessionInv
      <4>2. ThreadKept'
        BY <1>a, <1>b DEF ThreadKept
      <4>3. LinksInv'
        BY <1>a, <1>b, <1>c
        DEF LinksInv, LinkInv, TrueToUpstream, There, Linked, Own, up
      <4> QED  BY <4>1, <4>2, <4>3
    <3>5. Busy' => \A r \in DOMAIN conf.servers : acceptor'[r] # "none"
      <4>1. Busy => acceptor[s] # "none"
        BY <1>a, <2>2 DEF StartedInv
      <4> QED  BY <1>d, <2>1, <4>1
    <3>6. ASSUME NEW r \in Servers, acceptor'[r] # "none"
          PROVE  r \in DOMAIN conf.servers /\ ServerOk(conf.servers[r])
      <4>1. CASE r = s
        BY <2>2, <2>5, <4>1
      <4>2. CASE r # s
        BY <1>a, <3>1, <3>6, <4>2 DEF StartedInv
      <4> QED  BY <4>1, <4>2
    <3>7. file' \in DOMAIN Files /\ LogOk'
      BY <1>a, <1>b, <1>e, <2>1 DEF StartedInv
    <3>8. StartedInv'
      BY <1>c, <2>5, <3>5, <3>6, <3>7 DEF StartedInv
    <3> QED  BY <3>2, <3>3, <3>4, <3>8 DEF IInv
  <2> QED  BY <2>3, <2>4, <2>5
<1>3. CASE Run
  <2>1. /\ app = "setup" /\ app' = "running" /\ acceptor' = acceptor
        /\ \A s \in 1..Len(conf.servers) : acceptor[s] # "none"
    BY <1>3 DEF Run, serving
  <2>2. \A s \in DOMAIN conf.servers : acceptor[s] # "none"
    BY <1>b, <2>1, ConfFacts
  <2>3. TypeOK' /\ LineInv'
    BY <1>a, <1>b, <2>1 DEF TypeOK, LineInv, line
  <2>4. StartedInv'
    BY <1>a, <1>b, <1>c, <1>d, <1>e, <2>1, <2>2 DEF StartedInv
  <2> QED  BY <1>f, <2>1, <2>3, <2>4 DEF IInv
<1> QED  BY <1>1, <1>2, <1>3

\* A step of the sessions, by what it does to the phases and the acceptors.
LEMMA ServingFrame ==
    ASSUME IInv, UNCHANGED <<line, file>>,
           app' = app \/ app' \in {"abort", "exitSuccess"},
           app = "running" \/ (app' = app /\ (Busy' => Busy)),
           acceptor' \in [Servers -> {"none", "off", "accept", "handshake", "stopped"}],
           \A s \in Servers : acceptor'[s] = "none" <=> acceptor[s] = "none",
           cached' \in [Servers -> BOOLEAN],
           phase' \in [Sessions -> Phase], at' \in [Sessions -> 0..MaxServers],
           shutdowns' \subseteq Sessions,
           SessionInv', ThreadKept', LinksInv', app # "args"
    PROVE  IInv'
<1>a. TypeOK /\ StartedInv
  BY DEF IInv
<1>1. app' \in {"exitSuccess", "running", "setup", "logging"} => file \in DOMAIN Files
  BY <1>a DEF TypeOK
<1>2. app' \in {"args", "config", "logging", "setup", "running",
                "exitSuccess", "exitFailure", "abort"}
  BY <1>a DEF TypeOK
<1>3. args' \in ArgLists \cup {<< >>} /\ i' \in 1..(Len(args') + 1) /\ state' \in 0..2
  BY <1>a DEF TypeOK, line
<1>4. TypeOK'
  BY <1>1, <1>2, <1>3 DEF TypeOK
<1>5. LineInv'
  BY DEF LineInv
<1>6. StartedInv'
  BY <1>a, StartedFrame
<1> QED  BY <1>4, <1>5, <1>6 DEF IInv

-----------------------------------------------------------------------------
(* Sessions and the one before and after them *)

\* What a move of session c to phase p is to another session: nothing, or a
\* move of the session made for it.
LEMMA ThereMoves ==
    ASSUME TypeOK, NEW c \in Sessions, NEW p,
           phase' = [phase EXCEPT ![c] = p]
    PROVE  /\ phase'[c] = p
           /\ There(c)' = There(c)
           /\ \A d \in Sessions : d # c =>
                 /\ phase'[d] = phase[d]
                 /\ \/ There(d)' = There(d)
                    \/ /\ d[2] < MaxHops /\ After(d) = c
                       /\ There(d) = phase[c] /\ There(d)' = p
<1>1. phase \in [Sessions -> Phase]
  BY DEF TypeOK
<1>2. ASSUME NEW d \in Sessions, d # c PROVE phase'[d] = phase[d]
  BY <1>1, <1>2
<1>3. phase'[c] = p
  BY <1>1
<1>4. There(c)' = There(c)
  BY <1>2, Neighbours DEF There
<1>5. ASSUME NEW d \in Sessions, d # c
      PROVE  \/ There(d)' = There(d)
             \/ /\ d[2] < MaxHops /\ After(d) = c
                /\ There(d) = phase[c] /\ There(d)' = p
  <2>1. CASE d[2] < MaxHops /\ After(d) = c
    BY <1>3, <2>1 DEF There
  <2>2. CASE d[2] < MaxHops /\ After(d) # c
    BY <1>2, <2>2, Neighbours DEF There
  <2>3. CASE ~(d[2] < MaxHops)
    BY <2>3 DEF There
  <2> QED  BY <2>1, <2>2, <2>3
<1> QED  BY <1>2, <1>3, <1>4, <1>5

\* The server a session is at.
LEMMA AtServer ==
    ASSUME TypeOK, SessionInv, NEW c \in Sessions, phase[c] # "none"
    PROVE  at[c] \in Servers /\ at[c] # 0 /\ acceptor[at[c]] # "none"
<1>1. at[c] # 0 /\ at[c] \in 0..MaxServers
  BY DEF TypeOK, SessionInv
<1>2. at[c] \in Servers
  BY <1>1, MainAppAssumption DEF Servers
<1> QED  BY <1>1, <1>2 DEF SessionInv

\* The server that an upstream leads to.
LEMMA UpstreamOf ==
    ASSUME TypeOK, StartedInv, NEW s \in Servers, acceptor[s] # "none",
           app = "running"
    PROVE  up(s).to \in Servers
<1>1. PICK q : q = conf.servers
  OBVIOUS
<1>2. s \in DOMAIN q /\ q \in Seq(Server)
  BY <1>1, ConfFacts DEF StartedInv, TypeOK
<1>3. q[s] \in Server
  BY <1>2
<1>4. q[s].upstream \in Upstream
  BY <1>3 DEF Server
<1>5. q[s].upstream.to \in Servers
  BY <1>4 DEF Upstream
<1> QED  BY <1>1, <1>5 DEF up

\* A session that goes from one phase to another.
Goes(c, p) ==
    /\ phase' = [phase EXCEPT ![c] = p] /\ at' = at
    /\ p \in Phase \ {"none", "queued"}
    /\ Free \/ phase[c] \in Sync
    /\ p \in Sync => ~cached'[at[c]]
    /\ phase[c] \notin Over
    /\ p \in Early => phase[c] \in Early
    /\ phase[c] \in Told => p \in Told
    /\ p \in Asking => up(at[c]).type = "socks"
    /\ Linked(c) =>
          /\ p # "tryTls"
          /\ p = "waiting" => There(c) # "none"
          /\ p \in Told => There(c) \in Told
          /\ p \in Failed => There(c) \in Failed \cup {"none"}

\* A session that connects to a server of this process.
Joins(c, p) ==
    /\ Linked(c) /\ c[2] < MaxHops /\ Listening(up(at[c]).to)
    /\ phase' = [phase EXCEPT ![c] = p, ![After(c)] = "queued"]
    /\ at' = [at EXCEPT ![After(c)] = up(at[c]).to]
    /\ p \in {"tryTls", "waiting"}
    /\ phase[c] \in {"try", "connecting"}
    /\ Free \/ phase[c] \in Sync
    /\ p \in Sync => ~cached'[at[c]]

\* Going on keeps the sessions' servers, the thread and every link.
LEMMA GoesInv ==
    ASSUME TypeOK, SessionInv, ThreadKept, LinksInv, NEW c \in Sessions, NEW p,
           Goes(c, p), file' = file,
           \A s \in Servers : acceptor'[s] = "none" <=> acceptor[s] = "none"
    PROVE  /\ phase' \in [Sessions -> Phase] /\ at' \in [Sessions -> 0..MaxServers]
           /\ SessionInv' /\ ThreadKept' /\ LinksInv'
<1>a. /\ phase \in [Sessions -> Phase] /\ at \in [Sessions -> 0..MaxServers]
      /\ phase' = [phase EXCEPT ![c] = p] /\ at' = at /\ p \in Phase
  BY DEF TypeOK, Goes
<1>b. p \notin {"none", "queued"} /\ phase[c] # "none"
  BY DEF Goes, Over
<1>c. /\ phase'[c] = p /\ There(c)' = There(c)
      /\ \A d \in Sessions : d # c =>
            /\ phase'[d] = phase[d]
            /\ \/ There(d)' = There(d)
               \/ There(d) = phase[c] /\ There(d)' = p
  BY <1>a, ThereMoves
<1>d. \A d \in Sessions : up(at[d])' = up(at[d]) /\ (Linked(d)' <=> Linked(d))
  BY <1>a DEF up, conf, Linked, Own
<1>1. phase' \in [Sessions -> Phase] /\ at' \in [Sessions -> 0..MaxServers]
  BY <1>a
<1>2. SessionInv'
  <2>1. ASSUME NEW d \in Sessions
        PROVE  /\ phase'[d] = "none" <=> at[d] = 0
               /\ at[d] # 0 => acceptor'[at[d]] # "none"
    <3>1. at[d] # 0 => at[d] \in Servers
      BY <1>a, MainAppAssumption DEF Servers
    <3>2. phase'[d] = "none" <=> phase[d] = "none"
      BY <1>b, <1>c
    <3> QED  BY <3>1, <3>2 DEF SessionInv
  <2> QED  BY <1>a, <2>1 DEF SessionInv
<1>3. ThreadKept'
  <2>1. ASSUME NEW d \in Sessions, phase'[d] \in Sync PROVE d = c
    <3>1. Free \/ phase[c] \in Sync
      BY DEF Goes
    <3> QED  BY <1>c, <2>1, <3>1 DEF Free, ThreadKept
  <2>2. p \in Sync => ~cached'[at'[c]]
    BY <1>a DEF Goes
  <2> QED  BY <1>c, <2>1, <2>2 DEF ThreadKept
<1>4. ASSUME NEW d \in Sessions PROVE LinkInv(d)'
  <2>a. LinkInv(d)
    BY DEF LinksInv
  <2>1. CASE d = c
    BY <1>b, <1>c, <1>d, <2>a, <2>1
    DEF LinkInv, TrueToUpstream, Goes, Asking, Early, Told, Failed, Over, Sync
  <2>2. CASE d # c /\ There(d)' = There(d)
    BY <1>c, <1>d, <2>a, <2>2 DEF LinkInv, TrueToUpstream
  <2>3. CASE d # c /\ There(d) = phase[c] /\ There(d)' = p
    <3>1. phase[d] = phase'[d]
      BY <1>c, <2>3
    <3>2. Linked(d) /\ phase[d] \notin Early
      BY <1>b, <2>a, <2>3 DEF LinkInv
    <3>3. phase[d] # "tryTls"
      <4>1. phase[d] = "tryTls" => phase[c] = "queued"
        BY <2>a, <2>3, <3>2 DEF LinkInv
      <4>2. phase[c] = "queued" => Free
        BY DEF Goes, Sync
      <4> QED  BY <4>1, <4>2 DEF Free, Sync
    <3>4. phase[d] \notin Failed
      <4>1. phase[d] \in Failed => phase[c] \in Failed \cup {"none"}
        BY <2>a, <2>3, <3>2 DEF LinkInv, TrueToUpstream
      <4> QED  BY <4>1 DEF Goes, Over
    <3>5. phase[d] \in Told => p \in Told
      BY <2>a, <2>3, <3>2 DEF LinkInv, TrueToUpstream, Goes
    <3> QED
      BY <1>b, <1>d, <2>a, <2>3, <3>1, <3>2, <3>3, <3>4, <3>5
      DEF LinkInv, TrueToUpstream
  <2> QED  BY <1>c, <2>1, <2>2, <2>3
<1> QED  BY <1>1, <1>2, <1>3, <1>4 DEF LinksInv

\* A step in two: the session made is queued, then its maker goes on.
LEMMA JoinsInv ==
    ASSUME TypeOK, StartedInv, SessionInv, ThreadKept, LinksInv, app = "running",
           NEW c \in Sessions, NEW p, Joins(c, p), file' = file, acceptor' = acceptor
    PROVE  /\ phase' \in [Sessions -> Phase] /\ at' \in [Sessions -> 0..MaxServers]
           /\ SessionInv' /\ ThreadKept' /\ LinksInv'
<1> DEFINE n == After(c)
           x == up(at[c]).to
<1>a. /\ phase \in [Sessions -> Phase] /\ at \in [Sessions -> 0..MaxServers]
      /\ phase' = [phase EXCEPT ![c] = p, ![n] = "queued"]
      /\ at' = [at EXCEPT ![n] = x]
      /\ p \in {"tryTls", "waiting"} /\ phase[c] \in {"try", "connecting"}
      /\ Linked(c) /\ c[2] < MaxHops /\ acceptor[x] # "none"
  BY DEF TypeOK, Joins, Listening
<1>b. n \in Sessions /\ n # c /\ \A d \in Sessions : After(d) = n => d = c
  BY <1>a, Neighbours
<1>c. x \in Servers /\ x # 0 /\ x \in 0..MaxServers
  <2>1. at[c] \in Servers /\ acceptor[at[c]] # "none"
    BY <1>a, AtServer
  <2>2. x \in Servers
    BY <2>1, UpstreamOf
  <2> QED  BY <2>2, MainAppAssumption DEF Servers
<1> HIDE DEF n, x
<1>d. /\ phase'[c] = p /\ phase'[n] = "queued" /\ at'[n] = x
      /\ \A d \in Sessions : d # n => at'[d] = at[d]
      /\ \A d \in Sessions : d # n /\ d # c => phase'[d] = phase[d]
  BY <1>a, <1>b
<1>e. There(c) = "none" /\ phase[n] = "none" /\ There(n) = "none"
  <2>1. There(c) = "none" /\ (phase[n] = "none" => There(n) = "none")
    BY <1>a, <1>b DEF LinksInv, LinkInv, Early
  <2>2. There(c) = phase[n]
    BY <1>a DEF There, n
  <2> QED  BY <2>1, <2>2
<1>1. phase' \in [Sessions -> Phase] /\ at' \in [Sessions -> 0..MaxServers]
  <2>1. p \in Phase /\ "queued" \in Phase
    BY <1>a DEF Phase, Sync
  <2> QED  BY <1>a, <1>c, <2>1
<1>2. SessionInv'
  <2>1. ASSUME NEW d \in Sessions
        PROVE  /\ phase'[d] = "none" <=> at'[d] = 0
               /\ at'[d] # 0 => acceptor[at'[d]] # "none"
    <3>1. CASE d = n
      BY <1>a, <1>c, <1>d, <3>1
    <3>2. CASE d # n
      <4>1. at'[d] = at[d] /\ (phase'[d] = "none" <=> phase[d] = "none")
        BY <1>a, <1>d, <3>2
      <4> QED  BY <4>1 DEF SessionInv
    <3> QED  BY <3>1, <3>2
  <2> QED  BY <2>1 DEF SessionInv
<1>3. ThreadKept'
  <2>1. ASSUME NEW d \in Sessions, phase'[d] \in Sync PROVE d = c
    <3>1. Free \/ phase[c] \in Sync
      BY DEF Joins
    <3>2. d # n
      BY <1>d, <2>1 DEF Sync
    <3> QED  BY <1>d, <2>1, <3>1, <3>2 DEF Free, ThreadKept
  <2>2. p \in Sync => ~cached'[at'[c]]
    BY <1>b, <1>d DEF Joins
  <2> QED  BY <1>d, <2>1, <2>2 DEF ThreadKept
<1>4. ASSUME NEW d \in Sessions PROVE LinkInv(d)'
  <2>a. LinkInv(d)
    BY DEF LinksInv
  <2>b. d # n => up(at[d])' = up(at[d]) /\ (Linked(d)' <=> Linked(d))
    BY <1>d DEF up, conf, Linked, Own
  <2>1. CASE d = c
    <3>1. There(c)' = "queued"
      BY <1>a, <1>d DEF There, n
    <3>2. up(at[c]).type = "socks"
      BY <1>a DEF Linked
    <3> QED
      BY <1>a, <1>b, <1>d, <2>b, <2>1, <3>1, <3>2
      DEF LinkInv, TrueToUpstream, Asking, Early, Told, Failed
  <2>2. CASE d = n
    <3>1. There(n)' = "none"
      <4>1. CASE ~(n[2] < MaxHops)
        BY <4>1 DEF There
      <4>2. CASE n[2] < MaxHops
        <5>1. After(n) \in Sessions /\ After(n) # n /\ After(n) # c
          <6>1. c[2] \in Nat /\ n[2] = c[2] + 1 /\ After(n)[2] = n[2] + 1
            BY MainAppAssumption DEF n, After, Sessions, Hops
          <6>2. After(n) # c
            BY <6>1
          <6> QED  BY <1>b, <4>2, <6>2, Neighbours
        <5> QED  BY <1>d, <1>e, <4>2, <5>1 DEF There
      <4> QED  BY <4>1, <4>2
    <3> QED
      BY <1>d, <2>2, <3>1 DEF LinkInv, TrueToUpstream, Asking, Early, Told, Failed
  <2>3. CASE d # c /\ d # n
    <3>1. phase'[d] = phase[d]
      BY <1>d, <2>3
    <3>2. CASE There(d)' = There(d)
      BY <2>a, <2>b, <2>3, <3>1, <3>2 DEF LinkInv, TrueToUpstream
    <3>3. CASE d[2] < MaxHops /\ After(d) = c
      <4>1. There(d) = phase[c] /\ There(d)' = p
        BY <1>d, <3>3 DEF There
      <4>2. /\ Linked(d) /\ phase[d] \notin Early /\ phase[d] # "tryTls"
            /\ phase[d] \notin Told /\ phase[d] \notin Failed
        BY <1>a, <2>a, <4>1 DEF LinkInv, TrueToUpstream, Told, Failed
      <4> QED  BY <1>a, <2>a, <2>b, <2>3, <3>1, <4>1, <4>2 DEF LinkInv, TrueToUpstream
    <3>4. CASE d[2] < MaxHops /\ After(d) # c
      <4>1. After(d) \in Sessions /\ After(d) # n
        BY <1>b, <2>3, <3>4, Neighbours
      <4>2. There(d)' = There(d)
        BY <1>d, <3>4, <4>1 DEF There
      <4> QED  BY <3>2, <4>2
    <3>5. CASE ~(d[2] < MaxHops)
      BY <3>2, <3>5 DEF There
    <3> QED  BY <3>3, <3>4, <3>5
  <2> QED  BY <2>1, <2>2, <2>3
<1> QED  BY <1>1, <1>2, <1>3, <1>4 DEF LinksInv

\* What StartClose leaves outstanding belongs to sessions.
LEMMA ShutdownTyped ==
    ASSUME TypeOK, NEW c \in Sessions, NEW tls, Shutdown(c, tls) \/ shutdowns' = shutdowns
    PROVE  shutdowns' \subseteq Sessions
  BY DEF TypeOK, Shutdown

\* A session whose phase changes in one of its handlers.
LEMMA HandlerGoes ==
    ASSUME IInv, NEW c \in Sessions, acceptor' = acceptor,
           \/ Request(c) \/ Leave(c) \/ DirectResolve(c) \/ DirectConnect(c)
           \/ Resolve(c) \/ UpstreamAnswers(c) \/ RelayStalls(c) \/ RelayEnds(c)
    PROVE  /\ app = "running"
           /\ UNCHANGED <<app, line, file, cached>>
           /\ shutdowns' \subseteq Sessions
           /\ \E p : Goes(c, p)
<1>a. TypeOK /\ SessionInv /\ ThreadKept /\ LinkInv(c)
  BY DEF IInv, LinksInv
<1>b. Linked(c) /\ phase[c] \in Early => There(c) = "none"
  BY <1>a DEF LinkInv
<1>c. at[c] # 0 \/ phase[c] = "none"
  BY <1>a DEF SessionInv
<1>d. shutdowns \subseteq Sessions
  BY <1>a DEF TypeOK
<1> USE DEF Goto, Handle, Refuse, Goes, Early, Asking, Told, Failed, Over, Sync, Phase
<1>1. CASE Request(c)
  BY <1>a, <1>b, <1>d, <1>1 DEF Request, Free
<1>2. CASE Leave(c)
  <2>1. shutdowns' \subseteq Sessions
    BY <1>a, <1>2, ShutdownTyped DEF Leave
  <2> QED  BY <1>a, <1>b, <1>2, <2>1 DEF Leave, Free
<1>3. CASE DirectResolve(c)
  <2>1. shutdowns' \subseteq Sessions
    BY <1>a, <1>3, ShutdownTyped DEF DirectResolve
  <2> QED  BY <1>a, <1>b, <1>3, <2>1 DEF DirectResolve, Free
<1>4. CASE DirectConnect(c)
  <2>1. shutdowns' \subseteq Sessions
    BY <1>a, <1>4, ShutdownTyped DEF DirectConnect
  <2>2. ~Linked(c)
    BY <1>4 DEF DirectConnect, Linked
  <2> QED  BY <1>a, <1>b, <1>4, <2>1, <2>2 DEF DirectConnect, Free
<1>5. CASE Resolve(c)
  <2>1. shutdowns' \subseteq Sessions
    BY <1>a, <1>5, ShutdownTyped DEF Resolve
  <2>2. ~cached[at[c]] /\ up(at[c]).type = "socks"
    BY <1>a, <1>5 DEF Resolve, ThreadKept, LinkInv
  <2> QED  BY <1>a, <1>b, <1>5, <2>1, <2>2 DEF Resolve
<1>6. CASE UpstreamAnswers(c)
  <2>1. shutdowns' \subseteq Sessions
    BY <1>a, <1>6, ShutdownTyped DEF UpstreamAnswers
  <2>2. Linked(c) => Own(at[c])
    BY DEF Linked
  <2> QED  BY <1>a, <1>6, <2>1, <2>2 DEF UpstreamAnswers, Free
<1>7. CASE RelayStalls(c) \/ RelayEnds(c)
  <2>1. shutdowns' \subseteq Sessions
    BY <1>a, <1>7, ShutdownTyped DEF RelayStalls, RelayEnds
  <2>2. PICK p \in {"stuck", "ended"} : Goto(c, p)
    BY <1>7 DEF RelayStalls, RelayEnds
  <2>3. phase[c] \in {"granted", "stuck"} /\ Free
    BY <1>7 DEF RelayStalls, RelayEnds
  <2>4. Linked(c) => There(c) \in Told
    BY <1>a, <2>3 DEF LinkInv, TrueToUpstream
  <2> QED  BY <1>a, <2>1, <2>2, <2>3, <2>4 DEF Free
<1> QED  BY <1>1, <1>2, <1>3, <1>4, <1>5, <1>6, <1>7

\* A session that is connected to its upstream.
LEMMA ConnectedGoes ==
    ASSUME IInv, NEW c \in Sessions, NEW p \in {"tryTls", "waiting"}, Connected(c, p),
           phase[c] \in {"try", "connecting"}, Free \/ phase[c] \in Sync,
           up(at[c]).type = "socks", p \in Sync => ~cached'[at[c]]
    PROVE  Goes(c, p) \/ Joins(c, p)
<1>1. at[c] # 0
  BY DEF IInv, SessionInv
<1>2. CASE Own(at[c])
  <2>1. Linked(c)
    BY <1>1, <1>2 DEF Linked
  <2> QED  BY <1>2, <2>1 DEF Connected, Joins
<1>3. CASE ~Own(at[c])
  <2>1. ~Linked(c)
    BY <1>3 DEF Linked
  <2> QED
    BY <1>3, <2>1 DEF Connected, Goes, Phase, Sync, Over, Failed, Told, Early
<1> QED  BY <1>2, <1>3

\* A session that is told by its upstream factory that there is no upstream.
LEMMA RefuseGoes ==
    ASSUME IInv, NEW c \in Sessions, Refuse(c), Free \/ phase[c] \in Sync,
           phase[c] \notin Over, phase[c] \notin Told,
           Linked(c) => There(c) \in Failed \cup {"none"}
    PROVE  shutdowns' \subseteq Sessions /\ Goes(c, "refused")
<1>1. shutdowns' \subseteq Sessions
  BY ShutdownTyped DEF IInv, Refuse
<1>2. Goes(c, "refused")
  BY DEF Refuse, Goto, Goes, Phase, Sync, Over, Failed, Told, Early, Asking
<1> QED  BY <1>1, <1>2

\* What a step of a session does.
LEMMA SessionEffect ==
    ASSUME IInv, NEW c \in Sessions, SessionStep(c), ~ShutdownDone(c)
    PROVE  /\ app = "running"
           /\ UNCHANGED <<app, line, file>>
           /\ \A r \in Servers : acceptor'[r] = "none" <=> acceptor[r] = "none"
           /\ acceptor' \in [Servers -> {"none", "off", "accept", "handshake", "stopped"}]
           /\ cached' \in [Servers -> BOOLEAN]
           /\ shutdowns' \subseteq Sessions
           /\ \/ \E p : Goes(c, p)
              \/ acceptor' = acceptor /\ \E p : Joins(c, p)
<1>a. TypeOK /\ SessionInv /\ ThreadKept /\ LinkInv(c)
  BY DEF IInv, LinksInv
<1>b. /\ acceptor \in [Servers -> {"none", "off", "accept", "handshake", "stopped"}]
      /\ cached \in [Servers -> BOOLEAN] /\ shutdowns \subseteq Sessions
  BY <1>a, Zenon DEF TypeOK
<1>c. phase[c] # "none" => at[c] \in Servers /\ acceptor[at[c]] # "none"
  BY <1>a, AtServer
<1>d. Linked(c) /\ phase[c] \in Early => There(c) = "none"
  BY <1>a DEF LinkInv
<1>1. CASE Accept(c) \/ Handshake(c)
  <2>1. PICK p \in {"dialog", "tls", "closed"} : Goto(c, p)
    BY <1>1 DEF Accept, Handshake
  <2>2. PICK a \in {"accept", "handshake"} :
           acceptor' = acceptor \/ acceptor' = [acceptor EXCEPT ![at[c]] = a]
    BY <1>1 DEF Accept, Handshake
  <2>3. /\ Free /\ phase[c] \in {"queued", "tls"} /\ shutdowns' = shutdowns
        /\ app = "running"
    BY <1>1 DEF Accept, Handshake, Handle, Free
  <2>4. /\ \A r \in Servers : acceptor'[r] = "none" <=> acceptor[r] = "none"
        /\ acceptor' \in [Servers -> {"none", "off", "accept", "handshake", "stopped"}]
    BY <1>b, <1>c, <2>2, <2>3
  <2>5. Goes(c, p)
    BY <1>d, <2>1, <2>3
    DEF Goto, Goes, Phase, Sync, Over, Failed, Told, Early, Asking
  <2> QED  BY <1>b, <2>1, <2>3, <2>4, <2>5 DEF Goto
<1>2. CASE \/ Request(c) \/ Leave(c) \/ DirectResolve(c) \/ DirectConnect(c)
           \/ Resolve(c) \/ UpstreamAnswers(c) \/ RelayStalls(c) \/ RelayEnds(c)
  <2>1. acceptor' = acceptor
    BY <1>2 DEF Request, Leave, DirectResolve, DirectConnect, Resolve,
                UpstreamAnswers, RelayStalls, RelayEnds
  <2> QED  BY <1>b, <1>2, <2>1, HandlerGoes
<1>3. CASE Try(c)
  <2>1. acceptor' = acceptor /\ app = "running" /\ phase[c] = "try"
    BY <1>3 DEF Try
  <2>2. CASE Refuse(c)
    <3>1. shutdowns' \subseteq Sessions /\ Goes(c, "refused")
      BY <1>d, <2>1, <2>2, RefuseGoes DEF Sync, Over, Failed, Told, Early
    <3> QED  BY <1>b, <2>1, <2>2, <3>1 DEF Refuse, Goto
  <2>3. CASE /\ Connected(c, IF UpTls(c) THEN "tryTls" ELSE "waiting")
             /\ cached' = [cached EXCEPT ![at[c]] = ~UpTls(c)]
             /\ UNCHANGED <<app, line, file, shutdowns>>
    <3>1. cached' \in [Servers -> BOOLEAN]
      BY <1>b, <2>3
    <3>2. PICK p \in {"tryTls", "waiting"} :
             Connected(c, p) /\ (p = "tryTls" => UpTls(c))
      BY <2>3
    <3>3. up(at[c]).type = "socks"
      BY <1>a, <2>1 DEF LinkInv, Asking
    <3>4. p \in Sync => ~cached'[at[c]]
      BY <1>b, <1>c, <2>1, <2>3, <3>2 DEF Sync
    <3>5. Goes(c, p) \/ Joins(c, p)
      BY <2>1, <3>2, <3>3, <3>4, ConnectedGoes DEF Sync
    <3> QED  BY <1>b, <2>1, <2>3, <3>1, <3>5
  <2> QED  BY <1>3, <2>2, <2>3 DEF Try
<1>4. CASE TryHandshake(c)
  <2>1. /\ acceptor' = acceptor /\ app = "running" /\ phase[c] = "tryTls"
        /\ Own(at[c]) => There(c) # "queued"
    BY <1>4 DEF TryHandshake
  <2>2. ~Linked(c)
    BY <1>a, <2>1 DEF LinkInv, Linked
  <2>3. CASE Refuse(c)
    <3>1. shutdowns' \subseteq Sessions /\ Goes(c, "refused")
      BY <2>1, <2>2, <2>3, RefuseGoes DEF Sync, Over, Failed, Told
    <3> QED  BY <1>b, <2>1, <2>3, <3>1 DEF Refuse, Goto
  <2>4. CASE /\ phase' = [phase EXCEPT ![c] = "waiting"]
             /\ cached' = [cached EXCEPT ![at[c]] = TRUE]
             /\ UNCHANGED <<app, line, file, at, shutdowns>>
    <3>1. cached' \in [Servers -> BOOLEAN]
      BY <1>b, <2>4
    <3>2. up(at[c]).type = "socks"
      BY <1>a, <2>1 DEF LinkInv, Asking
    <3>3. Goes(c, "waiting")
      BY <2>1, <2>2, <2>4, <3>2
      DEF Goes, Phase, Sync, Over, Failed, Told, Early, Asking
    <3> QED  BY <1>b, <2>1, <2>4, <3>1, <3>3
  <2> QED  BY <1>4, <2>3, <2>4 DEF TryHandshake
<1>5. CASE StartConnect(c)
  <2>1. /\ acceptor' = acceptor /\ Free /\ app = "running" /\ phase[c] = "connecting"
        /\ up(at[c]).type = "socks"
    BY <1>5 DEF StartConnect, Handle, Free
  <2>2. CASE Refuse(c)
    <3>1. shutdowns' \subseteq Sessions /\ Goes(c, "refused")
      BY <1>d, <2>1, <2>2, RefuseGoes DEF Sync, Over, Failed, Told, Early
    <3> QED  BY <1>b, <2>1, <2>2, <3>1 DEF Refuse, Goto
  <2>3. CASE Connected(c, "waiting") /\ UNCHANGED <<app, line, file, cached, shutdowns>>
    <3>1. Goes(c, "waiting") \/ Joins(c, "waiting")
      BY <2>1, <2>3, ConnectedGoes DEF Sync
    <3> QED  BY <1>b, <2>1, <2>3, <3>1
  <2> QED  BY <1>5, <2>2, <2>3 DEF StartConnect
<1> QED  BY <1>1, <1>2, <1>3, <1>4, <1>5 DEF SessionStep

\* A failed accept resets the sessions of the backlog.
LEMMA AcceptFailsInv ==
    ASSUME TypeOK, SessionInv, ThreadKept, LinksInv, NEW s \in Servers, AcceptFails(s)
    PROVE  /\ phase' \in [Sessions -> Phase]
           /\ SessionInv' /\ ThreadKept' /\ LinksInv'
<1>a. /\ phase \in [Sessions -> Phase] /\ at \in [Sessions -> 0..MaxServers]
      /\ acceptor \in [Servers -> {"none", "off", "accept", "handshake", "stopped"}]
  BY Zenon DEF TypeOK
<1>b. /\ Free /\ acceptor[s] = "accept"
      /\ acceptor' = [acceptor EXCEPT ![s] = "stopped"]
      /\ UNCHANGED <<file, cached, at>>
      /\ phase' = [c \in Sessions |->
                      IF at[c] = s /\ phase[c] = "queued" THEN "reset" ELSE phase[c]]
  BY DEF AcceptFails
<1>c. \A c \in Sessions : phase'[c] = phase[c] \/ (phase[c] = "queued" /\ phase'[c] = "reset")
  BY <1>b
<1>1. phase' \in [Sessions -> Phase]
  BY <1>a, <1>b DEF Phase, Over, Failed
<1>2. SessionInv'
  <2>1. \A r \in Servers : acceptor'[r] = "none" <=> acceptor[r] = "none"
    BY <1>a, <1>b
  <2>2. ASSUME NEW c \in Sessions
        PROVE  /\ phase'[c] = "none" <=> at[c] = 0
               /\ at[c] # 0 => acceptor'[at[c]] # "none"
    <3>1. at[c] # 0 => at[c] \in Servers
      BY <1>a, MainAppAssumption DEF Servers
    <3> QED  BY <1>c, <2>1, <3>1 DEF SessionInv
  <2> QED  BY <1>b, <2>2 DEF SessionInv
<1>3. ThreadKept'
  <2>1. \A c \in Sessions : phase'[c] \notin Sync
    BY <1>b, <1>c DEF Free, Sync
  <2> QED  BY <2>1 DEF ThreadKept
<1>4. ASSUME NEW c \in Sessions PROVE LinkInv(c)'
  <2>1. There(c)' = There(c) \/ (There(c) = "queued" /\ There(c)' = "reset")
    BY <1>c, Neighbours DEF There
  <2>2. up(at[c])' = up(at[c]) /\ (Linked(c)' <=> Linked(c))
    BY <1>b DEF up, conf, Linked, Own
  <2>3. LinkInv(c) /\ phase[c] # "tryTls"
    BY <1>b DEF LinksInv, Free, Sync
  <2>4. phase'[c] = phase[c] \/ (phase[c] = "queued" /\ phase'[c] = "reset")
    BY <1>c
  <2> QED
    BY <2>1, <2>2, <2>3, <2>4
    DEF LinkInv, TrueToUpstream, Asking, Early, Told, Failed
<1> QED  BY <1>1, <1>2, <1>3, <1>4 DEF LinksInv

\* A client connects.
LEMMA ConnectInv ==
    ASSUME TypeOK, SessionInv, ThreadKept, LinksInv, NEW k \in Clients, NEW s \in Servers,
           Connect(k, s)
    PROVE  /\ phase' \in [Sessions -> Phase] /\ at' \in [Sessions -> 0..MaxServers]
           /\ SessionInv' /\ ThreadKept' /\ LinksInv'
           /\ Busy' => Busy
<1> DEFINE c == <<k, 1>>
<1>a. /\ phase \in [Sessions -> Phase] /\ at \in [Sessions -> 0..MaxServers]
      /\ at[c] = 0 /\ acceptor[s] # "none"
      /\ at' = [at EXCEPT ![c] = s] /\ phase' = [phase EXCEPT ![c] = "queued"]
      /\ UNCHANGED <<file, acceptor, cached>>
  BY DEF TypeOK, Connect, Listening
<1>b. c \in Sessions /\ c[2] = 1
  BY MainAppAssumption DEF Sessions, Hops
<1>c. s # 0 /\ s \in 0..MaxServers
  BY MainAppAssumption DEF Servers
<1> HIDE DEF c
<1>d. /\ phase'[c] = "queued" /\ There(c)' = There(c)
      /\ \A d \in Sessions : d # c => phase'[d] = phase[d] /\ There(d)' = There(d)
  <2>1. \A d \in Sessions : After(d) # c
    BY <1>b, Neighbours
  <2>2. /\ phase'[c] = "queued" /\ There(c)' = There(c)
        /\ \A d \in Sessions : d # c =>
              /\ phase'[d] = phase[d]
              /\ There(d)' = There(d) \/ After(d) = c
    BY <1>a, <1>b, ThereMoves
  <2> QED  BY <2>1, <2>2
<1>e. at'[c] = s /\ \A d \in Sessions : d # c => at'[d] = at[d]
  BY <1>a, <1>b
<1>f. phase[c] = "none"
  BY <1>a, <1>b DEF SessionInv
<1>1. phase' \in [Sessions -> Phase] /\ at' \in [Sessions -> 0..MaxServers]
  BY <1>a, <1>c DEF Phase
<1>2. SessionInv'
  BY <1>a, <1>c, <1>d, <1>e DEF SessionInv
<1>3. ThreadKept'
  <2>1. \A d \in Sessions : phase'[d] \in Sync => d # c /\ phase[d] \in Sync /\ at'[d] = at[d]
    BY <1>d, <1>e DEF Sync
  <2> QED  BY <1>a, <2>1 DEF ThreadKept
<1>4. ASSUME NEW d \in Sessions PROVE LinkInv(d)'
  <2>1. CASE d = c
    <3>1. There(c) = "none"
      BY <1>b, <1>f DEF LinksInv, LinkInv, Early
    <3> QED
      BY <1>d, <2>1, <3>1 DEF LinkInv, TrueToUpstream, Asking, Early, Told, Failed
  <2>2. CASE d # c
    <3>1. up(at[d])' = up(at[d]) /\ (Linked(d)' <=> Linked(d))
      BY <1>a, <1>e, <2>2 DEF up, conf, Linked, Own
    <3> QED  BY <1>d, <2>2, <3>1 DEF LinksInv, LinkInv, TrueToUpstream
  <2> QED  BY <2>1, <2>2
<1>5. Busy' => Busy
  BY <1>d DEF Busy
<1> QED  BY <1>1, <1>2, <1>3, <1>4, <1>5 DEF LinksInv

\* Every step preserves the invariant.
LEMMA NextIInv == IInv /\ [Next]_vars => IInv'
<1> SUFFICES ASSUME IInv, [Next]_vars PROVE IInv'
  OBVIOUS
<1>a. /\ TypeOK /\ LineInv /\ StartedInv /\ SessionInv /\ ThreadKept /\ LinksInv
  BY DEF IInv
<1>b. /\ acceptor \in [Servers -> {"none", "off", "accept", "handshake", "stopped"}]
      /\ cached \in [Servers -> BOOLEAN]
      /\ phase \in [Sessions -> Phase]
      /\ at \in [Sessions -> 0..MaxServers]
      /\ shutdowns \subseteq Sessions
  BY <1>a, Zenon DEF TypeOK
<1>1. CASE StartUp
  BY <1>1, LineSteps, RunSteps DEF StartUp
<1>2. ASSUME NEW s \in Servers, AcceptFails(s) PROVE IInv'
  <2>1. /\ app = "running" /\ acceptor[s] = "accept"
        /\ acceptor' = [acceptor EXCEPT ![s] = "stopped"]
        /\ UNCHANGED <<app, line, file, cached, at, shutdowns>>
    BY <1>2 DEF AcceptFails, Free
  <2>2. /\ acceptor' \in [Servers -> {"none", "off", "accept", "handshake", "stopped"}]
        /\ \A r \in Servers : acceptor'[r] = "none" <=> acceptor[r] = "none"
    BY <1>b, <2>1
  <2>3. phase' \in [Sessions -> Phase] /\ SessionInv' /\ ThreadKept' /\ LinksInv'
    BY <1>a, <1>2, AcceptFailsInv
  <2> QED  BY <1>b, <2>1, <2>2, <2>3, ServingFrame
<1>3. ASSUME NEW k \in Clients, NEW s \in Servers, Connect(k, s) PROVE IInv'
  <2>1. /\ app \in {"setup", "running"}
        /\ UNCHANGED <<app, line, file, acceptor, cached, shutdowns>>
    BY <1>3 DEF Connect
  <2>2. /\ phase' \in [Sessions -> Phase] /\ at' \in [Sessions -> 0..MaxServers]
        /\ SessionInv' /\ ThreadKept' /\ LinksInv' /\ (Busy' => Busy)
    BY <1>a, <1>3, ConnectInv
  <2> QED  BY <1>b, <2>1, <2>2, ServingFrame
<1>4. ASSUME NEW c \in Sessions, SessionStep(c), ~ShutdownDone(c) PROVE IInv'
  <2>1. /\ app = "running"
        /\ UNCHANGED <<app, line, file>>
        /\ \A r \in Servers : acceptor'[r] = "none" <=> acceptor[r] = "none"
        /\ acceptor' \in [Servers -> {"none", "off", "accept", "handshake", "stopped"}]
        /\ cached' \in [Servers -> BOOLEAN]
        /\ shutdowns' \subseteq Sessions
        /\ \/ \E p : Goes(c, p)
           \/ acceptor' = acceptor /\ \E p : Joins(c, p)
    BY <1>4, SessionEffect
  <2>2. /\ phase' \in [Sessions -> Phase] /\ at' \in [Sessions -> 0..MaxServers]
        /\ SessionInv' /\ ThreadKept' /\ LinksInv'
    <3>1. ASSUME NEW p, Goes(c, p)
          PROVE  /\ phase' \in [Sessions -> Phase] /\ at' \in [Sessions -> 0..MaxServers]
                 /\ SessionInv' /\ ThreadKept' /\ LinksInv'
      BY <1>a, <2>1, <3>1, GoesInv
    <3>2. ASSUME NEW p, Joins(c, p), acceptor' = acceptor
          PROVE  /\ phase' \in [Sessions -> Phase] /\ at' \in [Sessions -> 0..MaxServers]
                 /\ SessionInv' /\ ThreadKept' /\ LinksInv'
      BY <1>a, <2>1, <3>2, JoinsInv
    <3> QED  BY <2>1, <3>1, <3>2
  <2> QED  BY <2>1, <2>2, ServingFrame
<1>5. ASSUME NEW c \in Sessions, ShutdownDone(c) PROVE IInv'
  <2>1. /\ app = "running" /\ shutdowns' \subseteq Sessions
        /\ UNCHANGED <<app, line, file, acceptor, cached, phase, at>>
    BY <1>b, <1>5 DEF ShutdownDone, Free
  <2>2. SessionInv' /\ ThreadKept' /\ LinksInv'
    BY <1>a, <2>1, SessionsFrame
  <2> QED  BY <1>b, <2>1, <2>2, ServingFrame
<1>6. CASE Dies \/ RunReturns
  <2>1. /\ app = "running" /\ app' \in {"abort", "exitSuccess"}
        /\ UNCHANGED <<line, file, acceptor, cached, phase, at, shutdowns>>
    BY <1>6 DEF Dies, RunReturns, Free, serving
  <2>2. SessionInv' /\ ThreadKept' /\ LinksInv'
    BY <1>a, <2>1, SessionsFrame
  <2> QED  BY <1>b, <2>1, <2>2, ServingFrame
<1>7. CASE UNCHANGED vars
  <2>1. UNCHANGED <<app, args, i, state, file, acceptor, cached, phase, at, shutdowns>>
    BY <1>7 DEF vars, line
  <2>2. TypeOK' /\ SessionInv' /\ ThreadKept' /\ LinksInv'
    BY <1>a, <2>1, SessionsFrame DEF TypeOK
  <2>3. LineInv'
    BY <1>a, <2>1 DEF LineInv
  <2>4. StartedInv'
    BY <1>a, <2>1, StartedFrame DEF Busy
  <2> QED  BY <2>2, <2>3, <2>4 DEF IInv
<1> QED  BY <1>1, <1>2, <1>3, <1>4, <1>5, <1>6, <1>7 DEF Next

\* It holds throughout.
LEMMA Invariance == Spec => []IInv
<1> QED  BY InitIInv, NextIInv, PTL DEF Spec

-----------------------------------------------------------------------------

\* The variables of the process keep their types, whatever the command line
\* and the configuration files are.
THEOREM AppTyping == Spec => []TypeOK
<1>1. IInv => TypeOK
  BY DEF IInv
<1> QED  BY <1>1, Invariance, PTL

\* No session begins before MainApp::Run has been through the whole
\* configuration: every sink and every server of the file is well formed, and
\* every server has been started.
THEOREM AppAllStarted == Spec => []AllStarted
<1>1. IInv => AllStarted
  <2> SUFFICES ASSUME IInv, \E c \in Sessions : phase[c] \notin {"none", "queued"}
               PROVE  /\ \A n \in DOMAIN conf.log : ~BadSink(conf.log[n])
                      /\ \A s \in DOMAIN conf.servers :
                            ServerOk(conf.servers[s]) /\ acceptor[s] # "none"
    BY DEF AllStarted
  <2>1. StartedInv /\ Busy
    BY DEF IInv, Busy
  <2>2. file \in DOMAIN Files /\ LogOk
    BY <2>1 DEF StartedInv
  <2>3. ASSUME NEW s \in DOMAIN conf.servers
        PROVE  ServerOk(conf.servers[s]) /\ acceptor[s] # "none"
    <3>1. s \in Servers
      BY <2>2, ConfFacts
    <3> QED  BY <2>1, <3>1 DEF StartedInv
  <2> QED  BY <2>2, <2>3 DEF LogOk
<1> QED  BY <1>1, Invariance, PTL

\* ParseCommandLineOrDie, for command lines of any length: it accepts the well
\* formed ones, takes the last file name of the line, and exits on the others.
THEOREM AppCommandLine == Spec => CommandLine
<1>1. IInv /\ [Next]_vars =>
         [app = "args" /\ app' # "args" =>
             IF WellFormedLine THEN app' = "config" /\ file' = Last(args)
                               ELSE app' = "exitFailure"]_vars
  <2> SUFFICES ASSUME IInv, Next, app = "args", app' # "args"
               PROVE  IF WellFormedLine THEN app' = "config" /\ file' = Last(args)
                                        ELSE app' = "exitFailure"
    OBVIOUS
  <2>a. TypeOK /\ LineInv
    BY DEF IInv
  <2>b. args \in Seq(STRING) /\ Len(args) \in Nat /\ DOMAIN args = 1..Len(args)
    BY <2>a, ArgsFacts
  <2>c. i \in Nat /\ i >= 1 /\ i <= Len(args) + 1
    BY <2>a, <2>b DEF TypeOK
  <2>d. /\ \A n \in 1..(i - 1) : n % 2 = 1 => args[n] \in Flag
        /\ state = IF i = 1 THEN 0 ELSE IF i % 2 = 0 THEN 2 ELSE 1
        /\ state = 1 => file = args[i - 1]
    BY <2>a DEF LineInv
  <2>1. ParseArgument \/ ParseCommandLineOrDie
    BY DEF Next, StartUp, ReadConfig, SetUpLoggingOrDie, StartServer, Run,
           AcceptFails, Connect, SessionStep, Accept, Handshake, Request, Leave,
           DirectResolve, DirectConnect, Resolve, Try, TryHandshake, StartConnect,
           UpstreamAnswers, RelayStalls, RelayEnds, ShutdownDone, Dies, RunReturns, Handle, Free
  <2>2. CASE ParseArgument
    <3>1. i <= Len(args) /\ state \in {0, 1} /\ args[i] \notin Flag /\ app' = "exitFailure"
      BY <2>2 DEF ParseArgument, Parsed
    <3>2. i \in DOMAIN args /\ i % 2 = 1
      BY <2>b, <2>c, <2>d, <3>1
    <3> QED  BY <3>1, <3>2 DEF WellFormedLine
  <2>3. CASE ParseCommandLineOrDie
    <3>1. /\ i = Len(args) + 1 /\ file' = file
          /\ app' = IF state = 1 THEN "config" ELSE "exitFailure"
      BY <2>c, <2>3 DEF ParseCommandLineOrDie, Parsed
    <3>2. CASE state = 1
      <4>1. Len(args) % 2 = 0 /\ Len(args) # 0
        BY <2>b, <2>d, <3>1, <3>2
      <4>2. WellFormedLine
        BY <2>b, <2>d, <3>1, <4>1 DEF WellFormedLine
      <4>3. file = Last(args)
        BY <2>b, <2>d, <3>1, <3>2 DEF Last
      <4> QED  BY <3>1, <3>2, <4>2, <4>3
    <3>3. CASE state # 1
      <4>1. Len(args) = 0 \/ Len(args) % 2 = 1
        BY <2>b, <2>d, <3>1, <3>3
      <4>2. ~WellFormedLine
        BY <2>b, <4>1 DEF WellFormedLine
      <4> QED  BY <3>1, <3>3, <4>2
    <3> QED  BY <3>2, <3>3
  <2> QED  BY <2>1, <2>2, <2>3
<1> QED  BY <1>1, Invariance, PTL DEF Spec, CommandLine

\* SocksTcpUpstreamFactory::StartRequest stops the process for one session at a
\* time, and never for a server whose endpoint it has cached, however many
\* clients and servers there are.
THEOREM AppThreadKept == Spec => []ThreadKept
<1>1. IInv => ThreadKept
  BY DEF IInv
<1> QED  BY <1>1, Invariance, PTL

\* A session is true to the one made for it at the server of this process that
\* is its upstream, in chains of any length and in circles, whichever session
\* of them fails or ends first: a client is told of success only when the
\* whole chain has been, and nothing still relays for a session that failed.
THEOREM AppChained == Spec => []Chained
<1>1. IInv => Chained
  BY DEF IInv, LinksInv, LinkInv, Chained
<1> QED  BY <1>1, Invariance, PTL
=============================================================================
