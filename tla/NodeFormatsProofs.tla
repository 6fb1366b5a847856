--------------------------- MODULE NodeFormatsProofs ---------------------------
(***************************************************************************)
(* The two converters agree on every node there is, not only on those of   *)
(* the model, whatever its settings are and whatever is missing; and the   *)
(* database keeps all of its settings or none.                             *)
(***************************************************************************)
EXTENDS NodeFormats, Inductions, TLAPS

\* The one entry where a setting depends on another one: Clash is told the
\* flow only under TLS.
LEMMA VLESSAgrees ==
  ASSUME NEW n, n.protocol = "vless"
  PROVE  SameNode(clashVLESS(n), singboxVLESS(n))
<1> DEFINE e == n.extra
           c == clashVLESS(n)
           s == singboxVLESS(n)
<1>1. \A f \in DOMAIN c \ {"flow", "host", "nested"} : c[f] = s[f]
  BY DEF clashVLESS, singboxVLESS, addTransport, Entry
<1>2. /\ c.tls = getBool(e, "tls") /\ c.flow = IfTls(e, "flow")
      /\ c.host = IfWs(e, "host") /\ c.type = "vless"
  BY DEF clashVLESS, Entry
<1>3. s.flow = getStr(e, "flow") /\ s.host = IfWs(e, "host")
  BY DEF singboxVLESS, addTransport, Entry
<1>4. c.flow = IF c.tls THEN s.flow ELSE ""
  BY <1>2, <1>3, Zenon DEF IfTls
<1>5. c.host = IF c.type = "trojan" THEN "" ELSE s.host
  BY <1>2, <1>3
<1>6. c.nested = (IfWs(e, "host") # "" => IfWs(e, "path") # "") /\ c.path = IfWs(e, "path")
  BY DEF clashVLESS, Entry
<1>7. c.nested = (c.type = "vless" /\ c.host # "" => c.path # "")
  BY <1>2, <1>6
<1> QED BY <1>1, <1>4, <1>5, <1>7 DEF SameNode

LEMMA VMessAgrees ==
  ASSUME NEW n, n.protocol = "vmess"
  PROVE  SameNode(clashVMess(n), singboxVMess(n))
BY DEF SameNode, clashVMess, singboxVMess, addTransport, Entry, IfTls, IfWs

LEMMA SSAgrees ==
  ASSUME NEW n, n.protocol = "shadowsocks"
  PROVE  SameNode(clashSS(n), singboxSS(n))
BY DEF SameNode, clashSS, singboxSS, Entry

LEMMA TrojanAgrees ==
  ASSUME NEW n, n.protocol = "trojan"
  PROVE  SameNode(clashTrojan(n), singboxTrojan(n))
BY DEF SameNode, clashTrojan, singboxTrojan, addTransport, Entry, IfTls, IfWs

\* Whatever node_cache holds, a Clash client and a sing-box client are told
\* the same of a node: the four pairs of converters (converter_clash.go and
\* converter_singbox.go) agree on every node of their protocol.
LEMMA ConvertersAgree ==
  ASSUME NEW n, Supported(n)
  PROVE  SameNode(Clash(n), Singbox(n))
<1>1. CASE n.protocol = "vless"
  <2>1. Clash(n) = clashVLESS(n) /\ Singbox(n) = singboxVLESS(n)
    BY <1>1 DEF Clash, Singbox
  <2> QED BY <1>1, <2>1, VLESSAgrees
<1>2. CASE n.protocol = "vmess"
  <2>1. Clash(n) = clashVMess(n) /\ Singbox(n) = singboxVMess(n)
    BY <1>2 DEF Clash, Singbox
  <2> QED BY <1>2, <2>1, VMessAgrees
<1>3. CASE n.protocol = "shadowsocks"
  <2>1. Clash(n) = clashSS(n) /\ Singbox(n) = singboxSS(n)
    BY <1>3 DEF Clash, Singbox
  <2> QED BY <1>3, <2>1, SSAgrees
<1>4. CASE n.protocol = "trojan"
  <2>1. Clash(n) = clashTrojan(n) /\ Singbox(n) = singboxTrojan(n)
    BY <1>4 DEF Clash, Singbox
  <2> QED BY <1>4, <2>1, TrojanAgrees
<1> QED BY <1>1, <1>2, <1>3, <1>4 DEF Supported

\* FormatsAgree for any links, any reported nodes and any driver.
THEOREM FormatsAlwaysAgree == Spec => []FormatsAgree
<1>1. FormatsAgree
  BY ConvertersAgree DEF FormatsAgree
<1> QED BY <1>1, PTL

-----------------------------------------------------------------------------
\* One step of a loop with `continue`, and the function behind `Only`.
Grow(s, at, f, n) ==
  IF n = 0 THEN <<>> ELSE IF n \in at THEN Append(f[n - 1], s[n]) ELSE f[n - 1]
Keeps(s, at, f, N) == f = [n \in 0 .. N |-> Grow(s, at, f, n)]

LEMMA KeepsExists ==
  ASSUME NEW s, NEW at, NEW N \in Nat
  PROVE  \E f : Keeps(s, at, f, N)
  <1> DEFINE T == {n \in Nat : \E f : Keeps(s, at, f, n)}
  <1>1. 0 \in T
    <2>1. Keeps(s, at, [n \in 0 .. 0 |-> <<>>], 0)
      BY DEF Keeps, Grow
    <2> QED BY <2>1
  <1>2. ASSUME NEW m \in Nat, m \in T PROVE m + 1 \in T
    <2>1. PICK f : Keeps(s, at, f, m)
      BY <1>2
    <2> DEFINE g == [n \in 0 .. m + 1 |-> IF n = m + 1 THEN Grow(s, at, f, m + 1) ELSE f[n]]
    <2>2. \A n \in 0 .. m : f[n] = Grow(s, at, f, n) /\ g[n] = f[n]
      BY <2>1 DEF Keeps
    <2>3. \A n \in 0 .. m + 1 : Grow(s, at, g, n) = Grow(s, at, f, n)
      BY <2>2 DEF Grow
    <2>4. \A n \in 0 .. m + 1 : g[n] = Grow(s, at, g, n)
      <3> SUFFICES ASSUME NEW n \in 0 .. m + 1 PROVE g[n] = Grow(s, at, f, n)
        BY <2>3
      <3>1. CASE n = m + 1
        BY <3>1
      <3>2. CASE n # m + 1
        <4>1. n \in 0 .. m
          BY <3>2
        <4> QED BY <2>2, <4>1
      <3> QED BY <3>1, <3>2
    <2>5. Keeps(s, at, g, m + 1)
      BY <2>4 DEF Keeps
    <2> QED BY <2>5
  <1> HIDE DEF T
  <1>3. N \in T
    BY <1>1, <1>2, NumberInduction
  <1> QED BY <1>3 DEF T

LEMMA OnlyIs ==
  ASSUME NEW s, Len(s) \in Nat, NEW at
  PROVE  \E f : Keeps(s, at, f, Len(s)) /\ Only(s, at) = f[Len(s)]
  <1> DEFINE f == CHOOSE f : Keeps(s, at, f, Len(s))
  <1>1. Keeps(s, at, f, Len(s))
    BY KeepsExists
  <1>2. Only(s, at) = f[Len(s)]
    BY DEF Only, Keeps, Grow
  <1> QED BY <1>1, <1>2

\* What is left of a sequence is a sequence of its elements at the positions
\* asked for, all of them; where nothing is skipped it is the sequence itself.
LEMMA OnlyFacts ==
  ASSUME NEW X, NEW s \in Seq(X), NEW at
  PROVE  /\ Only(s, at) \in Seq(X)
         /\ \A i \in DOMAIN Only(s, at) : \E j \in at \cap DOMAIN s : Only(s, at)[i] = s[j]
         /\ \A j \in at \cap DOMAIN s : \E i \in DOMAIN Only(s, at) : Only(s, at)[i] = s[j]
         /\ DOMAIN s \subseteq at => Only(s, at) = s
  <1>1. Len(s) \in Nat /\ DOMAIN s = 1 .. Len(s)
    OBVIOUS
  <1>2. PICK f : Keeps(s, at, f, Len(s)) /\ Only(s, at) = f[Len(s)]
    BY <1>1, OnlyIs
  <1>3. \A n \in 0 .. Len(s) : f[n] = Grow(s, at, f, n)
    BY <1>2 DEF Keeps
  <1> DEFINE Kept(n) == /\ f[n] \in Seq(X)
                        /\ \A i \in DOMAIN f[n] : \E j \in at \cap DOMAIN s : f[n][i] = s[j]
                        /\ \A j \in at \cap (1 .. n) : \E i \in DOMAIN f[n] : f[n][i] = s[j]
                        /\ DOMAIN s \subseteq at => f[n] = SubSeq(s, 1, n)
             T == {n \in Nat : n <= Len(s) => Kept(n)}
  <1>4. 0 \in T
    <2>1. f[0] = <<>>
      BY <1>1, <1>3 DEF Grow
    <2>2. SubSeq(s, 1, 0) = <<>>
      OBVIOUS
    <2>3. Kept(0)
      BY <2>1, <2>2
    <2> QED BY <2>3
  <1>5. ASSUME NEW n \in Nat, n \in T PROVE n + 1 \in T
    <2> SUFFICES ASSUME n + 1 <= Len(s) PROVE Kept(n + 1)
      OBVIOUS
    <2>1. Kept(n) /\ n + 1 \in DOMAIN s /\ s[n + 1] \in X
      BY <1>1, <1>5
    <2>2. f[n + 1] = IF n + 1 \in at THEN Append(f[n], s[n + 1]) ELSE f[n]
      BY <1>1, <1>3 DEF Grow
    <2>3. CASE n + 1 \in at
      <3>1. f[n + 1] = Append(f[n], s[n + 1])
        BY <2>2, <2>3
      <3>2. f[n + 1] \in Seq(X)
        BY <2>1, <3>1
      <3>3. ASSUME NEW i \in DOMAIN f[n + 1]
            PROVE  \E j \in at \cap DOMAIN s : f[n + 1][i] = s[j]
        <4>1. CASE i \in DOMAIN f[n]
          <5>1. f[n + 1][i] = f[n][i]
            BY <2>1, <3>1, <4>1
          <5> QED BY <2>1, <4>1, <5>1
        <4>2. CASE i \notin DOMAIN f[n]
          <5>1. f[n + 1][i] = s[n + 1]
            BY <2>1, <3>1, <4>2
          <5> QED BY <2>1, <2>3, <5>1
        <4> QED BY <4>1, <4>2
      <3>4. SubSeq(s, 1, n + 1) = Append(SubSeq(s, 1, n), s[n + 1])
        BY <1>1
      <3>5. ASSUME NEW j \in at \cap (1 .. n + 1)
            PROVE  \E i \in DOMAIN f[n + 1] : f[n + 1][i] = s[j]
        <4>1. /\ DOMAIN f[n] \subseteq DOMAIN f[n + 1]
              /\ \A i \in DOMAIN f[n] : f[n + 1][i] = f[n][i]
              /\ Len(f[n]) + 1 \in DOMAIN f[n + 1] /\ f[n + 1][Len(f[n]) + 1] = s[n + 1]
          BY <2>1, <3>1
        <4>2. CASE j = n + 1
          BY <4>1, <4>2
        <4>3. CASE j # n + 1
          <5>1. j \in at \cap (1 .. n)
            BY <4>3
          <5> QED BY <2>1, <4>1, <5>1
        <4> QED BY <4>2, <4>3
      <3> QED BY <2>1, <3>1, <3>2, <3>3, <3>4, <3>5
    <2>4. CASE n + 1 \notin at
      <3>1. f[n + 1] = f[n]
        BY <2>2, <2>4
      <3>2. at \cap (1 .. n + 1) = at \cap (1 .. n)
        BY <2>4
      <3>3. DOMAIN s \subseteq at => f[n + 1] = SubSeq(s, 1, n + 1)
        BY <2>1, <2>4
      <3> QED BY <2>1, <3>1, <3>2, <3>3
    <2> QED BY <2>3, <2>4
  <1> HIDE DEF T
  <1>6. Len(s) \in T
    BY <1>1, <1>4, <1>5, NumberInduction
  <1>7. Kept(Len(s))
    BY <1>1, <1>6 DEF T
  <1>8. SubSeq(s, 1, Len(s)) = s
    OBVIOUS
  <1> QED BY <1>2, <1>7, <1>8

-----------------------------------------------------------------------------
\* What node_cache holds: nodes, and those that were imported come from a link.
Row == [node : ParsedNode, by : {"import", "agent"}]
FromLink(n) == \E l \in ShareLink : Parses(l) /\ n = ParseProxyLink(l)
RowsOK(rows) == /\ rows \in Seq(Row)
                /\ \A i \in DOMAIN rows : rows[i].by = "import" => FromLink(rows[i].node)

LEMMA ValueTypes ==
  /\ NoExtra \in [Keys -> Json]
  /\ \A s \in Text : Str(s) \in Json /\ Nonempty(s) \in Json
  /\ \A b : Flag(b) \in Json
  <1>1. Words \subseteq Text
    BY DEF Text
  <1>2. \A s \in Text : Str(s) \in Json
    BY <1>1 DEF Str, Json, Words
  <1>3. Missing \in Json /\ [t |-> "bool", v |-> "true"] \in Json
    BY <1>1 DEF Missing, Json, Words
  <1>4. \A s \in Text : Nonempty(s) \in Json
    BY <1>2, <1>3 DEF Nonempty
  <1>5. \A b : Flag(b) \in Json
    BY <1>3 DEF Flag
  <1>6. NoExtra \in [Keys -> Json]
    BY <1>3 DEF NoExtra
  <1> QED BY <1>2, <1>4, <1>5, <1>6

LEMMA NodeType ==
  ASSUME NEW l \in ShareLink, NEW p \in Text, NEW e \in [Keys -> Json]
  PROVE  Node(l, p, e) \in ParsedNode /\ Node(l, p, e).raw = <<l>>
  <1>1. NameOf(l) \in Text /\ l.at \in Text
    BY DEF NameOf, ShareLink
  <1>2. <<l>> \in Seq(ShareLink)
    OBVIOUS
  <1> QED BY <1>1, <1>2 DEF Node, ParsedNode

\* The four parsers make nodes, each of which keeps its link.
LEMMA ParsedType ==
  ASSUME NEW l \in ShareLink, Parses(l)
  PROVE  ParseProxyLink(l) \in ParsedNode /\ ParseProxyLink(l).raw = <<l>>
  <1>0. Words \subseteq Text
    BY DEF Text
  <1>w. /\ "vless" \in Text /\ "vmess" \in Text /\ "shadowsocks" \in Text
        /\ "trojan" \in Text /\ "auto" \in Text /\ "int" \in Text
    BY <1>0 DEF Words
  <1>l. /\ l.cred \in Text /\ l.cipher \in Text /\ l.transport \in Text
        /\ l.path \in Text /\ l.host \in Text /\ l.sni \in Text /\ l.flow \in Text
        /\ l.aid \in Text
    BY DEF ShareLink
  <1>v. /\ NoExtra \in [Keys -> Json]
        /\ Str(l.cred) \in Json /\ Str(l.cipher) \in Json /\ Str(l.transport) \in Json
        /\ Str(IF l.cipher = "" THEN "auto" ELSE l.cipher) \in Json
        /\ Nonempty(l.transport) \in Json /\ Nonempty(l.path) \in Json
        /\ Nonempty(l.host) \in Json /\ Nonempty(l.sni) \in Json /\ Nonempty(l.flow) \in Json
        /\ Flag(l.security = "tls") \in Json /\ [t |-> "int", v |-> l.aid] \in Json
    <2>1. [t |-> "int", v |-> l.aid] \in Json
      BY <1>w, <1>l DEF Json
    <2> QED BY <1>w, <1>l, <2>1, ValueTypes
  <1>1. CASE l.scheme = "vless"
    <2> DEFINE e == [NoExtra EXCEPT
             !["uuid"] = Str(l.cred), !["transport"] = Nonempty(l.transport),
             !["path"] = Nonempty(l.path), !["host"] = Nonempty(l.host), !["sni"] = Nonempty(l.sni),
             !["tls"] = Flag(l.security = "tls"), !["flow"] = Nonempty(l.flow)]
    <2>1. ParseProxyLink(l) = Node(l, "vless", e)
      BY <1>1 DEF ParseProxyLink, parseVLESS
    <2>2. e \in [Keys -> Json]
      BY <1>v
    <2> HIDE DEF e
    <2> QED BY <1>w, <2>1, <2>2, NodeType
  <1>2. CASE l.scheme = "vmess"
    <2> DEFINE e == [NoExtra EXCEPT
             !["uuid"] = Str(l.cred), !["transport"] = Str(l.transport),
             !["security"] = Str(IF l.cipher = "" THEN "auto" ELSE l.cipher),
             !["path"] = Nonempty(l.path), !["host"] = Nonempty(l.host), !["sni"] = Nonempty(l.sni),
             !["tls"] = Flag(l.security = "tls"), !["alterId"] = [t |-> "int", v |-> l.aid]]
    <2>1. ParseProxyLink(l) = Node(l, "vmess", e)
      BY <1>2 DEF ParseProxyLink, parseVMess
    <2>2. e \in [Keys -> Json]
      BY <1>v
    <2> HIDE DEF e
    <2> QED BY <1>w, <2>1, <2>2, NodeType
  <1>3. CASE l.scheme = "ss"
    <2> DEFINE e == [NoExtra EXCEPT
             !["method"] = Str(l.cipher), !["password"] = Str(l.cred)]
    <2>1. ParseProxyLink(l) = Node(l, "shadowsocks", e)
      BY <1>3 DEF ParseProxyLink, parseShadowsocks
    <2>2. e \in [Keys -> Json]
      BY <1>v
    <2> HIDE DEF e
    <2> QED BY <1>w, <2>1, <2>2, NodeType
  <1>4. CASE l.scheme = "trojan"
    <2> DEFINE e == [NoExtra EXCEPT
             !["password"] = Str(l.cred), !["sni"] = Nonempty(l.sni),
             !["transport"] = Nonempty(l.transport), !["path"] = Nonempty(l.path),
             !["host"] = Nonempty(l.host)]
    <2>1. ParseProxyLink(l) = Node(l, "trojan", e)
      BY <1>4 DEF ParseProxyLink, parseTrojan
    <2>2. e \in [Keys -> Json]
      BY <1>v
    <2> HIDE DEF e
    <2> QED BY <1>w, <2>1, <2>2, NodeType
  <1> QED BY <1>1, <1>2, <1>3, <1>4 DEF Parses, Schemes

\* A content yields the nodes of its links in order, the ill-formed left out.
LEMMA ContentFacts ==
  ASSUME NEW ls \in Seq(ShareLink)
  PROVE  LET ns == ParseSubscriptionContent(ls) IN
           /\ ns \in Seq(ParsedNode)
           /\ \A i \in DOMAIN ns : FromLink(ns[i])
           /\ (\A i \in DOMAIN ls : Parses(ls[i])) =>
                ns = [i \in DOMAIN ls |-> ParseProxyLink(ls[i])]
  <1> DEFINE at == {i \in DOMAIN ls : Parses(ls[i])}
             good == Only(ls, at)
             ns == ParseSubscriptionContent(ls)
  <1> HIDE DEF at
  <1>1. /\ good \in Seq(ShareLink)
        /\ \A i \in DOMAIN good : \E j \in at \cap DOMAIN ls : good[i] = ls[j]
        /\ DOMAIN ls \subseteq at => good = ls
    BY OnlyFacts
  <1> USE DEF at
  <1>2. ns = [i \in DOMAIN good |-> ParseProxyLink(good[i])]
    BY DEF ParseSubscriptionContent
  <1>3. \A i \in DOMAIN good : good[i] \in ShareLink /\ Parses(good[i])
    BY <1>1
  <1>4. (\A i \in DOMAIN ls : Parses(ls[i])) => good = ls
    BY <1>1
  <1>5. DOMAIN good = 1 .. Len(good) /\ Len(good) \in Nat
    BY <1>1
  <1> HIDE DEF good, ns
  <1>6. \A i \in DOMAIN good : ParseProxyLink(good[i]) \in ParsedNode
    BY <1>3, ParsedType
  <1>7. ns \in Seq(ParsedNode)
    BY <1>2, <1>5, <1>6
  <1>8. \A i \in DOMAIN ns : FromLink(ns[i])
    BY <1>2, <1>3 DEF FromLink
  <1> QED BY <1>2, <1>4, <1>7, <1>8 DEF ns

-----------------------------------------------------------------------------
\* Loading a row changes the settings only, and none of them with bytes.
LEMMA LoadedNode ==
  ASSUME NEW n \in ParsedNode
  PROVE  LET m == nodeCacheToParsedNode(n) IN
           /\ m \in ParsedNode
           /\ m.name = n.name /\ m.protocol = n.protocol /\ m.at = n.at /\ m.raw = n.raw
           /\ m.extra = Scan(n.extra)
  <1>1. Scan(n.extra) \in [Keys -> Json]
    <2>1. \A k \in Keys : n.extra[k] \in Json
      BY DEF ParsedNode
    <2>2. "float" \in Text
      BY DEF Text, Words
    <2>3. \A k \in Keys : [n.extra[k] EXCEPT !.t = "float"] \in Json
      BY <2>1, <2>2 DEF Json
    <2> QED BY <2>1, <2>3, ValueTypes DEF Scan
  <1> QED BY <1>1 DEF nodeCacheToParsedNode, ParsedNode

LEMMA LoadedRows ==
  ASSUME NEW rows \in Seq(Row)
  PROVE  /\ Loaded(rows) \in Seq(ParsedNode) /\ DOMAIN Loaded(rows) = DOMAIN rows
         /\ \A i \in DOMAIN rows : /\ Loaded(rows)[i].raw = rows[i].node.raw
                                  /\ Loaded(rows)[i].name = rows[i].node.name
                                  /\ Loaded(rows)[i].protocol = rows[i].node.protocol
  <1>0. \A i \in DOMAIN rows : rows[i] \in Row
    OBVIOUS
  <1>1. \A i \in DOMAIN rows : rows[i].node \in ParsedNode
    BY <1>0 DEF Row
  <1>2. /\ Loaded(rows) = [i \in DOMAIN rows |-> nodeCacheToParsedNode(rows[i].node)]
        /\ DOMAIN rows = 1 .. Len(rows) /\ Len(rows) \in Nat
    BY DEF Loaded
  <1>3. \A i \in DOMAIN rows : /\ nodeCacheToParsedNode(rows[i].node) \in ParsedNode
                               /\ nodeCacheToParsedNode(rows[i].node).raw = rows[i].node.raw
                               /\ nodeCacheToParsedNode(rows[i].node).name = rows[i].node.name
                               /\ nodeCacheToParsedNode(rows[i].node).protocol = rows[i].node.protocol
    BY <1>1, LoadedNode
  <1> QED BY <1>2, <1>3

LEMMA BytesScan ==
  ASSUME NEW e \in [Keys -> Json], driver = "bytes", NEW k \in Keys
  PROVE  /\ getStr(Scan(e), k) = getStr(e, k)
         /\ getBool(Scan(e), k) = getBool(e, k)
         /\ getInt(Scan(e), k) = getInt(e, k)
  <1>1. Scan(e)[k] = IF e[k].t = "int" THEN [e[k] EXCEPT !.t = "float"] ELSE e[k]
    BY DEF Scan
  <1>2. e[k] \in Json
    OBVIOUS
  <1> QED BY <1>1, <1>2 DEF getStr, getBool, getInt, Json

\* What the converters write of a node depends on what the three getters read.
LEMMA WrittenAlike ==
  ASSUME NEW m, NEW n, m.name = n.name, m.protocol = n.protocol, m.at = n.at,
         \A k \in Keys : /\ getStr(m.extra, k) = getStr(n.extra, k)
                        /\ getBool(m.extra, k) = getBool(n.extra, k)
                        /\ getInt(m.extra, k) = getInt(n.extra, k)
  PROVE  Written(m) = Written(n)
  <1> DEFINE e == n.extra
             f == m.extra
  <1>3. Entry(m) = Entry(n)
    BY DEF Entry
  <1>4. Network(f) = Network(e)
    BY DEF Network, Keys
  <1>5. \A k \in Keys : IfWs(f, k) = IfWs(e, k) /\ IfTls(f, k) = IfTls(e, k)
    BY <1>4 DEF IfWs, IfTls, Keys
  <1>6. clashVLESS(m) = clashVLESS(n) /\ singboxVLESS(m) = singboxVLESS(n)
    BY <1>3, <1>4, <1>5 DEF clashVLESS, singboxVLESS, addTransport, Keys
  <1>7. clashVMess(m) = clashVMess(n) /\ singboxVMess(m) = singboxVMess(n)
    BY <1>3, <1>4, <1>5 DEF clashVMess, singboxVMess, addTransport, Keys
  <1>8. clashSS(m) = clashSS(n) /\ singboxSS(m) = singboxSS(n)
    BY <1>3 DEF clashSS, singboxSS, Keys
  <1>9. clashTrojan(m) = clashTrojan(n) /\ singboxTrojan(m) = singboxTrojan(n)
    BY <1>3, <1>4, <1>5 DEF clashTrojan, singboxTrojan, addTransport, Keys
  <1>10. Clash(m) = Clash(n) /\ Singbox(m) = Singbox(n)
    BY <1>6, <1>7, <1>8, <1>9 DEF Clash, Singbox
  <1> QED BY <1>10 DEF Written

\* Storing and loading a node leaves what either converter writes as it was,
\* or as it is for a node without settings.
LEMMA LoadedWritten ==
  ASSUME NEW n \in ParsedNode, driver \in Drivers
  PROVE  Written(nodeCacheToParsedNode(n)) = Written(IF driver = "bytes" THEN n ELSE Bare(n))
  <1> DEFINE m == nodeCacheToParsedNode(n)
  <1>1. /\ m.name = n.name /\ m.protocol = n.protocol /\ m.at = n.at
        /\ m.extra = Scan(n.extra) /\ n.extra \in [Keys -> Json]
    BY LoadedNode DEF ParsedNode
  <1> HIDE DEF m
  <1>2. CASE driver = "bytes"
    <2>1. \A k \in Keys : /\ getStr(m.extra, k) = getStr(n.extra, k)
                          /\ getBool(m.extra, k) = getBool(n.extra, k)
                          /\ getInt(m.extra, k) = getInt(n.extra, k)
      BY <1>1, <1>2, BytesScan
    <2>2. Written(m) = Written(n)
      BY <1>1, <2>1, WrittenAlike
    <2> QED BY <1>2, <2>2 DEF m
  <1>3. CASE driver = "text"
    <2> DEFINE b == Bare(n)
    <2>1. m.extra = NoExtra
      BY <1>1, <1>3 DEF Scan
    <2>2. b.name = n.name /\ b.protocol = n.protocol /\ b.at = n.at /\ b.extra = NoExtra
      BY DEF Bare, ParsedNode
    <2> HIDE DEF b
    <2>3. Written(m) = Written(b)
      BY <1>1, <2>1, <2>2, WrittenAlike
    <2> QED BY <1>3, <2>3 DEF m, b
  <1> QED BY <1>2, <1>3, DriverAssumption

-----------------------------------------------------------------------------
\* The outbounds of a sing-box document are the supported nodes, under their
\* names: an entry is tagged with the name of its node.
LEMMA SingboxTag ==
  ASSUME NEW n, Supported(n)
  PROVE  Singbox(n).tag = n.name
  <1>1. CASE n.protocol = "vless"
    BY <1>1 DEF Singbox, singboxVLESS, addTransport, Entry
  <1>2. CASE n.protocol = "vmess"
    BY <1>2 DEF Singbox, singboxVMess, addTransport, Entry
  <1>3. CASE n.protocol = "shadowsocks"
    BY <1>3 DEF Singbox, singboxSS, Entry
  <1>4. CASE n.protocol = "trojan"
    BY <1>4 DEF Singbox, singboxTrojan, addTransport, Entry
  <1> QED BY <1>1, <1>2, <1>3, <1>4 DEF Supported

LEMMA MembersAreEntries ==
  ASSUME NEW ns \in Seq(ParsedNode)
  PROVE  NamesOutbounds(ConvertToSingboxJSON(ns))
  <1> DEFINE known == Known(ns)
  <1>1. \A i \in DOMAIN known : Supported(known[i])
    BY OnlyFacts DEF Known
  <1>2. /\ ConvertToSingboxJSON(ns).entries = [i \in DOMAIN known |-> Singbox(known[i])]
        /\ ConvertToSingboxJSON(ns).members = [i \in DOMAIN known |-> known[i].name]
    BY DEF ConvertToSingboxJSON, Each, Names
  <1> HIDE DEF known
  <1> QED BY <1>1, <1>2, SingboxTag DEF NamesOutbounds

LEMMA ClashTag ==
  ASSUME NEW n, Supported(n)
  PROVE  Clash(n).tag = n.name
  <1>1. CASE n.protocol = "vless"
    BY <1>1 DEF Clash, clashVLESS, Entry
  <1>2. CASE n.protocol = "vmess"
    BY <1>2 DEF Clash, clashVMess, Entry
  <1>3. CASE n.protocol = "shadowsocks"
    BY <1>3 DEF Clash, clashSS, Entry
  <1>4. CASE n.protocol = "trojan"
    BY <1>4 DEF Clash, clashTrojan, Entry
  <1> QED BY <1>1, <1>2, <1>3, <1>4 DEF Supported

\* The group names every node: one there is an entry for, or an unsupported one.
LEMMA GroupNamesNodes ==
  ASSUME NEW rows \in Seq(Row)
  PROVE  NamesNodes(ConvertToClashYAML(Loaded(rows)), rows)
  <1> DEFINE ns == Loaded(rows)
             known == Known(ns)
             doc == ConvertToClashYAML(ns)
  <1>1. /\ ns \in Seq(ParsedNode) /\ DOMAIN ns = DOMAIN rows
        /\ \A i \in DOMAIN rows : /\ ns[i].name = rows[i].node.name
                                 /\ ns[i].protocol = rows[i].node.protocol
    BY LoadedRows
  <1> HIDE DEF ns
  <1>2. /\ \A i \in DOMAIN known : Supported(known[i])
        /\ \A i \in DOMAIN ns : Supported(ns[i]) => \E j \in DOMAIN known : known[j] = ns[i]
    <2> DEFINE at == {i \in DOMAIN ns : Supported(ns[i])}
    <2>1. known = Only(ns, at)
      BY DEF Known
    <2> HIDE DEF at
    <2>2. /\ \A i \in DOMAIN known : \E j \in at \cap DOMAIN ns : known[i] = ns[j]
          /\ \A j \in at \cap DOMAIN ns : \E i \in DOMAIN known : known[i] = ns[j]
      BY <1>1, <2>1, OnlyFacts
    <2> QED BY <2>2 DEF at
  <1>3. /\ doc.entries = [i \in DOMAIN known |-> Clash(known[i])]
        /\ doc.members = [i \in DOMAIN ns |-> ns[i].name]
    BY DEF ConvertToClashYAML, Each, Names
  <1> HIDE DEF known, doc
  <1>4. ASSUME NEW i \in DOMAIN rows
        PROVE  \/ ns[i].name \in Tags(doc)
               \/ ~Supported(rows[i].node) /\ ns[i].name = rows[i].node.name
    <2>1. CASE Supported(ns[i])
      <3>1. PICK j \in DOMAIN known : known[j] = ns[i]
        BY <1>1, <1>2, <2>1
      <3>2. doc.entries[j].tag = ns[i].name /\ j \in DOMAIN doc.entries
        BY <1>3, <2>1, <3>1, ClashTag
      <3> QED BY <3>2 DEF Tags
    <2>2. CASE ~Supported(ns[i])
      BY <1>1, <2>2 DEF Supported
    <2> QED BY <2>1, <2>2
  <1>5. NamesNodes(doc, rows)
    BY <1>1, <1>3, <1>4 DEF NamesNodes
  <1> QED BY <1>5 DEF doc, ns

\* The raw list of imported rows is the list of their links.
LEMMA RawOfImported ==
  ASSUME NEW rows, RowsOK(rows), \A i \in DOMAIN rows : rows[i].by = "import"
  PROVE  ParseSubscriptionContent(RawLinks(Loaded(rows))) = [i \in DOMAIN rows |-> rows[i].node]
  <1> DEFINE ns == Loaded(rows)
             links == RawLinks(ns)
  <1>1. /\ ns \in Seq(ParsedNode) /\ DOMAIN ns = DOMAIN rows
        /\ \A i \in DOMAIN rows : ns[i].raw = rows[i].node.raw
    BY LoadedRows DEF RowsOK
  <1>2. ASSUME NEW i \in DOMAIN rows
        PROVE  \E l \in ShareLink : /\ Parses(l) /\ rows[i].node = ParseProxyLink(l)
                                    /\ ns[i].raw = <<l>>
    BY <1>1, ParsedType DEF RowsOK, FromLink
  <1> HIDE DEF ns
  <1>3. \A i \in DOMAIN rows : ns[i].raw # <<>>
    BY <1>2
  <1>5. links = [i \in DOMAIN rows |-> ns[i].raw[1]]
    BY <1>1, <1>3 DEF RawLinks
  <1>6. DOMAIN rows = 1 .. Len(rows) /\ Len(rows) \in Nat
    BY DEF RowsOK
  <1> HIDE DEF links
  <1>7. \A i \in DOMAIN rows : /\ links[i] \in ShareLink /\ Parses(links[i])
                               /\ rows[i].node = ParseProxyLink(links[i])
    BY <1>2, <1>5
  <1>8. links \in Seq(ShareLink) /\ DOMAIN links = DOMAIN rows
    BY <1>5, <1>6, <1>7
  <1>9. ParseSubscriptionContent(links) = [i \in DOMAIN rows |-> ParseProxyLink(links[i])]
    BY <1>7, <1>8, ContentFacts
  <1> QED BY <1>7, <1>9 DEF links, ns

LEMMA Formats == \A q, ua : detectFormat(q, ua) \in {"clash", "singbox", "base64", "raw"}
  BY DEF detectFormat

\* What is true of an answer however it came about.
AnswerOK(a) ==
  /\ a.format \in {"none", "clash", "singbox", "base64", "raw"}
  /\ a.format = "singbox" => NamesOutbounds(a.doc)
  /\ a.format = "clash" => NamesNodes(a.doc, a.of)
  /\ a.format \in {"raw", "base64"} /\ (\A i \in DOMAIN a.of : a.of[i].by = "import") =>
       ParseSubscriptionContent(a.links) = [i \in DOMAIN a.of |-> a.of[i].node]

LEMMA AnswerRight ==
  ASSUME NEW rows, RowsOK(rows), NEW format \in {"clash", "singbox", "base64", "raw"}
  PROVE  AnswerOK(Answer(format, rows))
  <1>1. Loaded(rows) \in Seq(ParsedNode)
    BY LoadedRows DEF RowsOK
  <1>2. CASE rows = <<>>
    BY <1>2 DEF Answer, Nothing, AnswerOK
  <1>3. CASE rows # <<>> /\ format = "clash"
    <2>1. Answer(format, rows) =
            [format |-> format, of |-> rows, doc |-> ConvertToClashYAML(Loaded(rows))]
      BY <1>3 DEF Answer
    <2> QED BY <1>3, <2>1, GroupNamesNodes DEF AnswerOK, RowsOK
  <1>4. CASE rows # <<>> /\ format = "singbox"
    <2>1. Answer(format, rows) =
            [format |-> format, of |-> rows, doc |-> ConvertToSingboxJSON(Loaded(rows))]
      BY <1>4 DEF Answer
    <2> QED BY <1>1, <1>4, <2>1, MembersAreEntries DEF AnswerOK
  <1>5. CASE rows # <<>> /\ format \in {"raw", "base64"}
    <2>1. Answer(format, rows) =
            [format |-> format, of |-> rows, links |-> RawLinks(Loaded(rows))]
      BY <1>5 DEF Answer
    <2> QED BY <1>5, <2>1, RawOfImported DEF AnswerOK
  <1> QED BY <1>2, <1>3, <1>4, <1>5

-----------------------------------------------------------------------------
\* The rows are well formed and the answer, given before the rows changed
\* again, was right when it was given.
NodeInv == RowsOK(cache) /\ AnswerOK(answer)

LEMMA InitNodeInv == Init => NodeInv
  <1> SUFFICES ASSUME Init PROVE NodeInv
    OBVIOUS
  <1>1. cache = <<>> /\ answer = Nothing
    BY DEF Init
  <1>2. RowsOK(cache)
    BY <1>1 DEF RowsOK
  <1>3. AnswerOK(answer)
    BY <1>1 DEF AnswerOK, Nothing
  <1> QED BY <1>2, <1>3 DEF NodeInv

LEMMA ImportRows ==
  ASSUME RowsOK(cache), NEW ls \in Contents, Import(ls)
  PROVE  RowsOK(cache')
  <1> DEFINE ns == ParseSubscriptionContent(ls)
             new == [i \in DOMAIN ns |-> [node |-> ns[i], by |-> "import"]]
  <1>1. ns \in Seq(ParsedNode) /\ \A i \in DOMAIN ns : FromLink(ns[i])
    BY LinkAssumption, ContentFacts
  <1>2. cache' = cache \o new
    BY DEF Import, ToNodeCache
  <1> HIDE DEF ns
  <1>3. \A i \in DOMAIN ns : [node |-> ns[i], by |-> "import"] \in Row
    BY <1>1 DEF Row
  <1>4. new \in Seq(Row) /\ \A i \in DOMAIN new : FromLink(new[i].node)
    BY <1>1, <1>3
  <1> HIDE DEF new
  <1>5. cache \in Seq(Row) /\ cache' \in Seq(Row)
    BY <1>2, <1>4 DEF RowsOK
  <1>6. ASSUME NEW i \in DOMAIN cache', cache'[i].by = "import" PROVE FromLink(cache'[i].node)
    <2>1. CASE i \in DOMAIN cache
      BY <1>2, <1>4, <1>5, <1>6, <2>1 DEF RowsOK
    <2>2. CASE i \notin DOMAIN cache
      <3>1. i - Len(cache) \in DOMAIN new /\ cache'[i] = new[i - Len(cache)]
        BY <1>2, <1>4, <1>5, <2>2
      <3> QED BY <1>4, <3>1
    <2> QED BY <2>1, <2>2
  <1> QED BY <1>5, <1>6 DEF RowsOK

LEMMA ReportRows ==
  ASSUME RowsOK(cache), NEW n \in Reported, Report(n)
  PROVE  RowsOK(cache')
  <1> DEFINE row == [node |-> n, by |-> "agent"]
  <1>1. row \in Row /\ row.by # "import"
    BY ReportAssumption DEF Row
  <1>2. cache' = Append(cache, row) /\ cache \in Seq(Row)
    BY DEF Report, RowsOK
  <1> HIDE DEF row
  <1>3. cache' \in Seq(Row)
    BY <1>1, <1>2
  <1>4. ASSUME NEW i \in DOMAIN cache', cache'[i].by = "import" PROVE FromLink(cache'[i].node)
    <2>1. i \in DOMAIN cache /\ cache'[i] = cache[i]
      BY <1>1, <1>2, <1>4
    <2> QED BY <1>4, <2>1 DEF RowsOK
  <1> QED BY <1>3, <1>4 DEF RowsOK

LEMMA NextNodeInv == NodeInv /\ [Next]_vars => NodeInv'
  <1> SUFFICES ASSUME NodeInv, [Next]_vars PROVE NodeInv'
    OBVIOUS
  <1>1. CASE \E ls \in Contents : Import(ls)
    <2>1. answer' = answer
      BY <1>1 DEF Import
    <2> QED BY <1>1, <2>1, ImportRows DEF NodeInv
  <1>2. CASE \E n \in Reported : Report(n)
    <2>1. answer' = answer
      BY <1>2 DEF Report
    <2> QED BY <1>2, <2>1, ReportRows DEF NodeInv
  <1>3. CASE \E q \in Queries, ua \in UserAgents : Fetch(q, ua)
    <2>1. PICK q, ua : answer' = Answer(detectFormat(q, ua), cache) /\ cache' = cache
      BY <1>3 DEF Fetch
    <2> QED BY <2>1, AnswerRight, Formats DEF NodeInv
  <1>4. CASE UNCHANGED vars
    BY <1>4 DEF vars, NodeInv
  <1> QED BY <1>1, <1>2, <1>3, <1>4 DEF Next

LEMMA NodeInvariant == Spec => []NodeInv
  BY InitNodeInv, NextNodeInv, PTL DEF Spec

LEMMA DriverStays == Spec => [](driver \in Drivers)
  <1>1. Init => driver \in Drivers
    BY DEF Init
  <1>2. driver \in Drivers /\ [Next]_vars => (driver \in Drivers)'
    BY DEF Next, Import, Report, Fetch, vars
  <1> QED BY <1>1, <1>2, PTL DEF Spec

\* Rows and answers have their fields, whatever links and nodes come in.
THEOREM NodesTypeCorrect == Spec => []TypeOK
  <1>1. NodeInv /\ driver \in Drivers => TypeOK
    <2> SUFFICES ASSUME NodeInv, driver \in Drivers PROVE TypeOK
      OBVIOUS
    <2>1. \A i \in DOMAIN cache : cache[i] \in Row
      BY DEF NodeInv, RowsOK
    <2>2. \A i \in DOMAIN cache : /\ DOMAIN cache[i].node.extra = Keys
                                  /\ cache[i].by \in {"import", "agent"}
      BY <2>1 DEF Row, ParsedNode
    <2> QED BY <2>2 DEF TypeOK, NodeInv, AnswerOK
  <1> QED BY <1>1, NodeInvariant, DriverStays, PTL

\* The selector of every sing-box document names exactly its outbounds, and the
\* group of every Clash document its proxies and the unsupported nodes.
THEOREM SelectorAlwaysClosed == Spec => []SelectorIsClosed
  <1>1. NodeInv => SelectorIsClosed
    BY DEF NodeInv, AnswerOK, SelectorIsClosed, Document
  <1> QED BY <1>1, NodeInvariant, PTL

\* A raw list, imported elsewhere, yields the nodes it was made of: the parsers
\* keep the link of a node, and storage keeps it whatever the driver does.
THEOREM RawListsReimport == Spec => []LinksReimport
  <1>1. NodeInv => LinksReimport
    BY DEF NodeInv, AnswerOK, LinksReimport, Document
  <1> QED BY <1>1, NodeInvariant, PTL

\* Whatever a node's settings are, imported or reported, storage keeps all of
\* them (a driver that hands over bytes) or none (SQLite's, that hands over text).
THEOREM SettingsKeptOrLost == Spec => []AllOrNothing
  <1>1. NodeInv /\ driver \in Drivers => AllOrNothing
    <2> SUFFICES ASSUME NodeInv, driver \in Drivers, NEW i \in DOMAIN cache
                 PROVE  Written(nodeCacheToParsedNode(cache[i].node)) =
                          Written(IF driver = "bytes" THEN cache[i].node ELSE Bare(cache[i].node))
      BY DEF AllOrNothing
    <2>1. cache[i] \in Row
      BY DEF NodeInv, RowsOK
    <2>2. cache[i].node \in ParsedNode
      BY <2>1 DEF Row
    <2> QED BY <2>2, LoadedWritten
  <1> QED BY <1>1, NodeInvariant, DriverStays, PTL
================================================================================
