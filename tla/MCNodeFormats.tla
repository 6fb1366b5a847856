---------------------------- MODULE MCNodeFormats ----------------------------
(* A small instance of NodeFormats for TLC. *)
EXTENDS NodeFormats, SequencesExt

Link == [scheme |-> "vless", ok |-> TRUE, name |-> "n1", cred |-> "c", at |-> "h:1",
         cipher |-> "", aid |-> "0", security |-> "", transport |-> "", path |-> "",
         host |-> "", sni |-> "", flow |-> ""]
Ws(l) == [l EXCEPT !.transport = "ws", !.path = "/p", !.host = "front"]

\* Every scheme, with and without TLS, transport, path and name; a malformed
\* link and one of another scheme.
MCLinks ==
  {Link, [Ws(Link) EXCEPT !.security = "tls", !.sni = "s", !.flow = "f"],
   [Ws(Link) EXCEPT !.path = "", !.name = "", !.flow = "f"],
   [Ws(Link) EXCEPT !.scheme = "vmess", !.security = "tls", !.sni = "s", !.aid = "1"],
   [Link EXCEPT !.scheme = "vmess", !.cipher = "none", !.transport = "grpc"],
   [Link EXCEPT !.scheme = "ss", !.cipher = "m", !.name = "n2"],
   [Ws(Link) EXCEPT !.scheme = "trojan", !.sni = "s"],
   [Link EXCEPT !.ok = FALSE], [Link EXCEPT !.scheme = "http"]}
MCContents == BoundedSeq(MCLinks, 2)

Value(t, v) == [t |-> t, v |-> v]
Raw(p, e) == [name |-> "a1", protocol |-> p, at |-> "h:2", extra |-> e, raw |-> <<>>]

\* What an agent may send: an unsupported protocol, settings of the wrong type,
\* a WebSocket host without a path.
MCReported ==
  {Raw("hysteria2", NoExtra),
   Raw("vmess", [NoExtra EXCEPT !["uuid"] = Str("c"), !["alterId"] = Value("float", "4"),
                                !["tls"] = Value("string", "true"), !["sni"] = Str("s")]),
   Raw("trojan", [NoExtra EXCEPT !["password"] = Value("float", "7"),
                                 !["transport"] = Str("grpc")]),
   Raw("vless", [NoExtra EXCEPT !["uuid"] = Str("c"), !["transport"] = Str("ws"),
                                !["host"] = Str("front")])}

MCQueries == {"", "yaml", "json", "raw", "surge"}
MCUserAgents == {{}, {"clash"}, {"sfa"}, {"clash", "sing-box"}}
=============================================================================
