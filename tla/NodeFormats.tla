----------------------------- MODULE NodeFormats -----------------------------
(***************************************************************************)
(* What becomes of a node on its way to a client: parsed from a share link *)
(* or reported by an agent, stored in node_cache, loaded again, and        *)
(* written as a Clash or sing-box document or as the list of raw links.    *)
(*                                                                         *)
(* Text is abstracted to what was decided about it: a link is a record of  *)
(* its parts and a document the record of its entries.  A setting that is  *)
(* not there, or not written, is "".  No handler calls the parser: the     *)
(* subscription refresh that should is a stub, so Import stands for the    *)
(* service functions ParseSubscriptionContent and ToNodeCache themselves.  *)
(***************************************************************************)
EXTENDS Integers, Sequences

CONSTANTS
  Contents,      \* subscription contents, decoded: sequences of links
  Reported,      \* nodes that agents report; their settings are arbitrary JSON
  Queries, UserAgents,   \* ?format= values; sets of names found in User-Agents
  Drivers,       \* what the SQL driver hands to Scan for a JSON column (external)
  MaxNodes       \* bound on the rows of node_cache before another import

Keys == {"uuid", "password", "method", "security", "alterId",
         "transport", "path", "host", "sni", "tls", "flow"}

\* A share link, taken apart, and a node as the panel keeps it; a JSON value is
\* a kind and the text it prints as.  (The words of the code are strings like
\* any other; they are named because no prover knows that a literal is one.)
Words == {"", "none", "string", "bool", "true", "int", "float", "auto",
          "vless", "vmess", "shadowsocks", "trojan"}
Text == STRING \union Words
ShareLink == [scheme : Text, ok : BOOLEAN, name : Text, cred : Text, at : Text,
              cipher : Text, aid : Text, security : Text, transport : Text,
              path : Text, host : Text, sni : Text, flow : Text]
Json == [t : Text, v : Text]
ParsedNode == [name : Text, protocol : Text, at : Text,
               extra : [Keys -> Json], raw : Seq(ShareLink)]

ASSUME LinkAssumption == \A ls \in Contents : ls \in Seq(ShareLink)
ASSUME ReportAssumption == \A n \in Reported : n \in ParsedNode
ASSUME DriverAssumption == Drivers \subseteq {"bytes", "text"} /\ MaxNodes \in Nat

VARIABLES
  driver,        \* the driver of this installation
  cache,         \* node_cache rows in order of id: the node, and where it came from
  answer         \* the last answer of GET /sub/:token

vars == <<driver, cache, answer>>

-----------------------------------------------------------------------------
(* Extra: a map from keys to JSON values.                                  *)

Missing == [t |-> "none", v |-> ""]
Str(s) == [t |-> "string", v |-> s]
Flag(b) == IF b THEN [t |-> "bool", v |-> "true"] ELSE Missing
Nonempty(s) == IF s = "" THEN Missing ELSE Str(s)
NoExtra == [k \in Keys |-> Missing]

getStr(e, k) == IF e[k].t = "string" THEN e[k].v ELSE ""
getBool(e, k) == e[k].t = "bool" /\ e[k].v = "true"
\* (A plausible mistake, not part of the specification: only Go ints count.)
getIntOnly(e, k) == IF e[k].t = "int" THEN e[k].v ELSE "0"
getInt(e, k) == IF e[k].t \in {"int", "float"} THEN e[k].v ELSE "0"

-----------------------------------------------------------------------------
(* The loops that skip some elements of a list with `continue`.            *)

\* What is left of s: the elements at the positions in `at`, in order.
Only(s, at) ==
  LET kept[n \in 0 .. Len(s)] ==
        IF n = 0 THEN <<>>
        ELSE IF n \in at THEN Append(kept[n - 1], s[n]) ELSE kept[n - 1]
  IN  kept[Len(s)]

-----------------------------------------------------------------------------
(* Plausible mistakes: none is part of the specification.                  *)

\* The row is built without the link.
ToNodeCacheLinkless(n) == [n EXCEPT !.raw = <<>>]

-----------------------------------------------------------------------------
(* service/subscription.go: the parser.                                    *)

\* A link without a name gets one made of its protocol and endpoint.
NameOf(l) == IF l.name = "" THEN l.at ELSE l.name
Node(l, protocol, extra) ==
  [name |-> NameOf(l), protocol |-> protocol, at |-> l.at, extra |-> extra, raw |-> <<l>>]

parseVLESS(l) == Node(l, "vless", [NoExtra EXCEPT
  !["uuid"] = Str(l.cred), !["transport"] = Nonempty(l.transport),
  !["path"] = Nonempty(l.path), !["host"] = Nonempty(l.host), !["sni"] = Nonempty(l.sni),
  !["tls"] = Flag(l.security = "tls"), !["flow"] = Nonempty(l.flow)])

\* net is stored even when it is empty; aid may be a number or a string.
parseVMess(l) == Node(l, "vmess", [NoExtra EXCEPT
  !["uuid"] = Str(l.cred), !["transport"] = Str(l.transport),
  !["security"] = Str(IF l.cipher = "" THEN "auto" ELSE l.cipher),
  !["path"] = Nonempty(l.path), !["host"] = Nonempty(l.host), !["sni"] = Nonempty(l.sni),
  !["tls"] = Flag(l.security = "tls"), !["alterId"] = [t |-> "int", v |-> l.aid]])

\* (Not part of the specification: the method is stored under another key.)
parseShadowsocksCipher(l) == Node(l, "shadowsocks",
  [k \in (Keys \ {"method"}) \union {"cipher"} |->
     CASE k = "cipher" -> Str(l.cipher) [] k = "password" -> Str(l.cred) [] OTHER -> Missing])

parseShadowsocks(l) == Node(l, "shadowsocks", [NoExtra EXCEPT
  !["method"] = Str(l.cipher), !["password"] = Str(l.cred)])

\* security= is not looked at: trojan is always TLS.
parseTrojan(l) == Node(l, "trojan", [NoExtra EXCEPT
  !["password"] = Str(l.cred), !["sni"] = Nonempty(l.sni),
  !["transport"] = Nonempty(l.transport), !["path"] = Nonempty(l.path),
  !["host"] = Nonempty(l.host)])

Schemes == {"vless", "vmess", "ss", "trojan"}
ParseProxyLink(l) == CASE l.scheme = "vless"  -> parseVLESS(l)
                       [] l.scheme = "vmess"  -> parseVMess(l)
                       [] l.scheme = "ss"     -> parseShadowsocks(l)
                       [] l.scheme = "trojan" -> parseTrojan(l)

\* Lines that are no link, or no well-formed one, are skipped.
Parses(l) == l.scheme \in Schemes /\ l.ok
ParseSubscriptionContent(ls) ==
  LET good == Only(ls, {i \in DOMAIN ls : Parses(ls[i])}) IN
    [i \in DOMAIN good |-> ParseProxyLink(good[i])]

-----------------------------------------------------------------------------
(* The node_cache row and back.                                            *)

ToNodeCache(n) == n

\* JSON knows one kind of number.  Scan accepts nothing but []byte and leaves
\* the map empty without an error otherwise.
Scan(e) ==
  IF driver = "text" THEN NoExtra
  ELSE [k \in Keys |-> IF e[k].t = "int" THEN [e[k] EXCEPT !.t = "float"] ELSE e[k]]
nodeCacheToParsedNode(row) == [row EXCEPT !.extra = Scan(row.extra)]
Loaded(rows) == [i \in DOMAIN rows |-> nodeCacheToParsedNode(rows[i].node)]

-----------------------------------------------------------------------------
(* The converters.  `nested` says whether an entry's ws-opts are indented  *)
(* under a ws-opts key.                                                    *)

Entry(n) == [tag |-> n.name, type |-> n.protocol, at |-> n.at, secret |-> "", cipher |-> "",
             alterId |-> "", tls |-> FALSE, sni |-> "", flow |-> "",
             network |-> "", path |-> "", host |-> "", nested |-> TRUE]
Network(e) == LET t == getStr(e, "transport") IN IF t \in {"ws", "grpc"} THEN t ELSE ""
IfWs(e, k) == IF Network(e) = "ws" THEN getStr(e, k) ELSE ""
IfTls(e, k) == IF getBool(e, "tls") THEN getStr(e, k) ELSE ""

\* The Host header is written under ws-opts only when there is a path.
clashVLESS(n) == LET e == n.extra IN [Entry(n) EXCEPT
  !.secret = getStr(e, "uuid"), !.tls = getBool(e, "tls"),
  !.sni = IfTls(e, "sni"), !.flow = IfTls(e, "flow"),
  !.network = Network(e), !.path = IfWs(e, "path"), !.host = IfWs(e, "host"),
  !.nested = IfWs(e, "host") # "" => IfWs(e, "path") # ""]

\* (Not part of the specification: the branch for TLS is forgotten.)
clashVMessPlain(n) == LET e == n.extra IN [Entry(n) EXCEPT
  !.secret = getStr(e, "uuid"), !.alterId = getInt(e, "alterId"),
  !.cipher = getStr(e, "security"),
  !.network = Network(e), !.path = IfWs(e, "path"), !.host = IfWs(e, "host")]

clashVMess(n) == LET e == n.extra IN [Entry(n) EXCEPT
  !.secret = getStr(e, "uuid"), !.alterId = getInt(e, "alterId"),
  !.cipher = getStr(e, "security"), !.tls = getBool(e, "tls"), !.sni = IfTls(e, "sni"),
  !.network = Network(e), !.path = IfWs(e, "path"), !.host = IfWs(e, "host")]

clashSS(n) == [Entry(n) EXCEPT
  !.cipher = getStr(n.extra, "method"), !.secret = getStr(n.extra, "password")]

\* TLS is implied by the type; the Host header is not written.
clashTrojan(n) == LET e == n.extra IN [Entry(n) EXCEPT
  !.secret = getStr(e, "password"), !.tls = TRUE, !.sni = getStr(e, "sni"),
  !.network = Network(e), !.path = IfWs(e, "path")]

addTransport(n, out) == [out EXCEPT !.network = Network(n.extra),
  !.path = IfWs(n.extra, "path"), !.host = IfWs(n.extra, "host")]

singboxVLESS(n) == LET e == n.extra IN addTransport(n, [Entry(n) EXCEPT
  !.secret = getStr(e, "uuid"), !.tls = getBool(e, "tls"), !.sni = IfTls(e, "sni"),
  !.flow = getStr(e, "flow")])
singboxVMess(n) == LET e == n.extra IN addTransport(n, [Entry(n) EXCEPT
  !.secret = getStr(e, "uuid"), !.alterId = getInt(e, "alterId"),
  !.cipher = getStr(e, "security"), !.tls = getBool(e, "tls"), !.sni = IfTls(e, "sni")])
singboxSS(n) == [Entry(n) EXCEPT
  !.cipher = getStr(n.extra, "method"), !.secret = getStr(n.extra, "password")]
singboxTrojan(n) == addTransport(n, [Entry(n) EXCEPT
  !.secret = getStr(n.extra, "password"), !.tls = TRUE, !.sni = getStr(n.extra, "sni")])

Clash(n) == CASE n.protocol = "vless"       -> clashVLESS(n)
              [] n.protocol = "vmess"       -> clashVMess(n)
              [] n.protocol = "shadowsocks" -> clashSS(n)
              [] n.protocol = "trojan"      -> clashTrojan(n)
Singbox(n) == CASE n.protocol = "vless"       -> singboxVLESS(n)
                [] n.protocol = "vmess"       -> singboxVMess(n)
                [] n.protocol = "shadowsocks" -> singboxSS(n)
                [] n.protocol = "trojan"      -> singboxTrojan(n)

Supported(n) == n.protocol \in {"vless", "vmess", "shadowsocks", "trojan"}
Known(ns) == Only(ns, {i \in DOMAIN ns : Supported(ns[i])})
Each(ns, Conv(_)) == [i \in DOMAIN Known(ns) |-> Conv(Known(ns)[i])]
Names(ns) == [i \in DOMAIN ns |-> ns[i].name]

\* The proxy group names every node, whatever its protocol.
ConvertToClashYAML(ns) == [entries |-> Each(ns, Clash), members |-> Names(ns)]
\* (Not part of the specification: the tag is taken before the protocol is known.)
ConvertToSingboxJSONLoose(ns) == [entries |-> Each(ns, Singbox), members |-> Names(ns)]
ConvertToSingboxJSON(ns) ==
  [entries |-> Each(ns, Singbox), members |-> Names(Known(ns))]

\* ConvertToRaw; ConvertToBase64 encodes the same lines, one for every node:
\* an empty line for a node without a link, which no parser takes for one.
Blank == [scheme |-> "", ok |-> FALSE, name |-> "", cred |-> "", at |-> "", cipher |-> "",
          aid |-> "", security |-> "", transport |-> "", path |-> "", host |-> "",
          sni |-> "", flow |-> ""]
RawLinks(ns) == [i \in DOMAIN ns |-> IF ns[i].raw = <<>> THEN Blank ELSE ns[i].raw[1]]

\* A query, if there is one, decides alone; an unknown one means base64.
detectFormat(query, ua) ==
  IF query # ""
    THEN CASE query \in {"clash", "yaml"}               -> "clash"
           [] query \in {"singbox", "sing-box", "json"} -> "singbox"
           [] query = "raw"                             -> "raw"
           [] OTHER                                     -> "base64"
    ELSE CASE "clash" \in ua                                      -> "clash"
           [] "clash" \notin ua
              /\ ua \cap {"sing-box", "singbox", "sfi", "sfa"} # {} -> "singbox"
           [] OTHER                                               -> "base64"

-----------------------------------------------------------------------------
(* The system.                                                             *)

Nothing == [format |-> "none", of |-> <<>>]

\* An answer without nodes is the line "# No nodes available".
Answer(format, rows) ==
  LET ns == Loaded(rows) IN
    CASE rows = <<>>          -> Nothing
      [] rows # <<>> /\ format = "clash" ->
           [format |-> format, of |-> rows, doc |-> ConvertToClashYAML(ns)]
      [] rows # <<>> /\ format = "singbox" ->
           [format |-> format, of |-> rows, doc |-> ConvertToSingboxJSON(ns)]
      [] OTHER -> [format |-> format, of |-> rows, links |-> RawLinks(ns)]

Init == driver \in Drivers /\ cache = <<>> /\ answer = Nothing

\* Content without any valid link is an error and stores nothing.
Import(ls) ==
  /\ Len(cache) < MaxNodes
  /\ LET ns == ParseSubscriptionContent(ls) IN
       /\ ns # <<>>
       /\ cache' = cache \o [i \in DOMAIN ns |-> [node |-> ToNodeCache(ns[i]), by |-> "import"]]
  /\ UNCHANGED <<driver, answer>>

\* The insert of AgentReportHandler: the node as the agent sent it.
Report(n) ==
  /\ Len(cache) < MaxNodes
  /\ cache' = Append(cache, [node |-> n, by |-> "agent"])
  /\ UNCHANGED <<driver, answer>>

Fetch(query, ua) ==
  /\ answer' = Answer(detectFormat(query, ua), cache)
  /\ UNCHANGED <<driver, cache>>

Next == \/ \E ls \in Contents : Import(ls)
        \/ \E n \in Reported : Report(n)
        \/ \E q \in Queries, ua \in UserAgents : Fetch(q, ua)

Spec == Init /\ [][Next]_vars

-----------------------------------------------------------------------------
(* Properties.                                                             *)

\* Only the fields every document has are written, in the types they have.
TypeOK ==
  /\ driver \in Drivers
  /\ \A i \in DOMAIN cache : /\ DOMAIN cache[i].node.extra = Keys
                             /\ cache[i].by \in {"import", "agent"}
  /\ answer.format \in {"none", "clash", "singbox", "base64", "raw"}

Document(format) == answer.format = format

\* Clash and sing-box clients are told the same of a node, although the two
\* converters are written apart: endpoint, credentials, cipher, TLS, server
\* name and transport.  What differs is only this: Clash gets no flow without
\* TLS and no Host header for trojan, and its entry for a vless node with a
\* WebSocket host and no path, and no other entry, has that header outside
\* ws-opts, where no client looks for it.
SameNode(c, s) ==
  /\ \A f \in DOMAIN c \ {"flow", "host", "nested"} : c[f] = s[f]
  /\ c.flow = IF c.tls THEN s.flow ELSE ""
  /\ c.host = IF c.type = "trojan" THEN "" ELSE s.host
  /\ c.nested = (c.type = "vless" /\ c.host # "" => c.path # "")
FormatsAgree ==
  \A i \in DOMAIN cache :
    LET n == nodeCacheToParsedNode(cache[i].node) IN
      Supported(n) => SameNode(Clash(n), Singbox(n))

\* The selector of a sing-box document names exactly its outbounds, in order,
\* even when an agent reported a node of a protocol that is not supported.  The
\* group of a Clash document names such nodes too, for which it has no proxy,
\* but it never names anything else that is not there.
Tags(doc) == {doc.entries[i].tag : i \in DOMAIN doc.entries}
NamesOutbounds(doc) ==
  /\ DOMAIN doc.members = DOMAIN doc.entries
  /\ \A i \in DOMAIN doc.members : doc.members[i] = doc.entries[i].tag
NamesNodes(doc, rows) ==
  \A i \in DOMAIN doc.members :
    \/ doc.members[i] \in Tags(doc)
    \/ ~Supported(rows[i].node) /\ doc.members[i] = rows[i].node.name
SelectorIsClosed ==
  /\ Document("singbox") => NamesOutbounds(answer.doc)
  /\ Document("clash") => NamesNodes(answer.doc, answer.of)

\* The list of raw links, read as a subscription by another panel, yields the
\* nodes that were imported here, whatever the database did to their settings.
LinksReimport ==
  (\/ Document("raw") \/ Document("base64")) =>
    LET rows == answer.of IN
      (\A i \in DOMAIN rows : rows[i].by = "import")
        => ParseSubscriptionContent(answer.links) = [i \in DOMAIN rows |-> rows[i].node]

\* Storing a node and loading it changes what clients are told of it in one
\* way only.  A driver that hands JSON columns to Scan as bytes loses nothing:
\* numbers come back as another Go type, and the converters do not mind.  One
\* that hands them over as text, SQLite's, loses all settings of the node and
\* nothing else: no client ever sees some of a node's settings without the rest.
Written(n) == <<Clash(n), Singbox(n)>>
Bare(n) == [n EXCEPT !.extra = NoExtra]
AllOrNothing ==
  \A i \in DOMAIN cache :
    LET n == cache[i].node
        m == nodeCacheToParsedNode(n)
    IN  Supported(n) => Written(m) = Written(IF driver = "bytes" THEN n ELSE Bare(n))

\* What the comment of JSONMap says, that it stores a map[string]any as JSON,
\* and PLAN.md of the column: it holds the protocol's settings.  A client is
\* told of a cached node what it was told of the node before it was cached.
SettingsSurvive ==
  \A i \in DOMAIN cache :
    LET n == cache[i].node IN Supported(n) => Written(nodeCacheToParsedNode(n)) = Written(n)
=============================================================================
