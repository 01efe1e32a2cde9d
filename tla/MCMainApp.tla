---------------------------- MODULE MCMainApp ----------------------------
(***************************************************************************)
(* An instance of MainApp for TLC: configuration files with up to three    *)
(* servers, good ones for each way a server reaches its targets, and one   *)
(* for each mistake the start-up looks for.                                *)
(***************************************************************************)
EXTENDS MainApp, TLC

CONSTANTS k1, k2

Tcp == [used |-> FALSE, files |-> "ok", verify |-> "absent"]
Tls == [used |-> TRUE, files |-> "ok", verify |-> "true"]

Direct(ssl) ==
    [type |-> "direct", ssl |-> ssl, where |-> "absent", to |-> 1]
Socks(ssl, where) == [type |-> "socks", ssl |-> ssl, where |-> where, to |-> 1]
ToOwn(n) == [type |-> "socks", ssl |-> Tcp, where |-> "own", to |-> n]

S(address, ssl, upstream) ==
    [type |-> "socks", address |-> address, ssl |-> ssl, upstream |-> upstream]

Stderr == [kind |-> "stderr", level |-> "known", path |-> FALSE, mode |-> "absent"]
File == [kind |-> "file", level |-> "known", path |-> TRUE, mode |-> "truncate"]
Config(servers) == [log |-> <<Stderr, File>>, servers |-> servers]

First == S("a", Tcp, Direct(Tcp))
Second(upstream) == Config(<<First, S("b", Tcp, upstream)>>)
Logs(sink) == [log |-> <<Stderr, sink>>, servers |-> <<First>>]

MCFiles ==
    "chain" :> Config(<<First, S("b", Tcp, ToOwn(1)), S("c", Tcp, ToOwn(2))>>)
    @@ "circle" :> Config(<<S("a", Tcp, ToOwn(2)), S("b", Tcp, ToOwn(1))>>)
    @@ "plainToTls" :> Config(<<S("a", Tls, Direct(Tcp)), S("b", Tcp, ToOwn(1))>>)
    @@ "tlsChain" :> Config(<<S("a", Tls, Direct(Tcp)), S("b", Tcp, Socks(Tls, "own"))>>)
    @@ "remote" :> Config(<<S("a", Tcp, Socks(Tcp, "remote")), S("b", Tcp, ToOwn(1))>>)
    @@ "remoteTls" :> Second(Socks(Tls, "remote"))
    @@ "directTls" :> Second(Direct([Tls EXCEPT !.verify = "absent"]))
    @@ "sameAddress" :> Config(<<First, First>>)
    @@ "noServers" :> Config(<< >>)
    @@ "serverType" :> Config(<<First, [First EXCEPT !.type = "other"]>>)
    @@ "noAddress" :> Config(<<First, S("absent", Tcp, Direct(Tcp))>>)
    @@ "badFiles" :> Config(<<First, S("b", [Tls EXCEPT !.files = "bad"], Direct(Tcp))>>)
    @@ "badVerify" :> Second(Socks([Tls EXCEPT !.verify = "other"], "remote"))
    @@ "noPeerName" :> Second(Direct(Tls))
    @@ "noUpstream" :> Second([Direct(Tcp) EXCEPT !.type = "absent"])
    @@ "upstreamType" :> Second([Direct(Tcp) EXCEPT !.type = "other"])
    @@ "noProxy" :> Second(Socks(Tcp, "absent"))
    @@ "sinkKind" :> Logs([Stderr EXCEPT !.kind = "other"])
    @@ "sinkLevel" :> Logs([Stderr EXCEPT !.level = "unknown"])
    @@ "sinkPath" :> Logs([File EXCEPT !.path = FALSE])
    @@ "sinkMode" :> Logs([File EXCEPT !.mode = "other"])

MCArgLists ==
    {<<"-c", f>> : f \in DOMAIN MCFiles}
        \cup BoundedSeq({"-c", "--config", "chain"}, 4)
=============================================================================
