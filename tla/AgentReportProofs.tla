------------------------- MODULE AgentReportProofs -------------------------
(***************************************************************************)
(* Theorems about AgentReport, for every number of agents, users and       *)
(* deliveries, every body, and any number of crashes and failing           *)
(* statements.                                                             *)
(***************************************************************************)
EXTENDS AgentReport, Inductions, TLAPS

\* A handler in flight has passed the token check and bound its body, and its
\* loop over the usage entries is inside the list.
HandlerOK ==
  \A d \in Deliveries : InFlight(d) =>
    /\ req[d].agent \in Agents
    /\ Body(d) \in Bodies
    /\ req[d].pc \in {"charge", "log"} => req[d].at \in DOMAIN Body(d).traffic

\* The entries a handler has charged lie behind the statement it executes
\* next: this is why no entry is charged twice.
ChargedBehind ==
  \A x \in charged :
    LET h == req[x[1]] IN
      /\ h.pc \notin {"idle", "refused", "register", "stamp", "volume"}
      /\ h.pc = "charge" => x[2] < h.at
      /\ h.pc = "log" => x[2] <= h.at

IInv == TypeOK /\ HandlerOK /\ ChargedBehind /\ AuditTrail

-----------------------------------------------------------------------------
\* A body that is an element of Bodies has the fields the handler reads.
LEMMA BodyType ==
  ASSUME NEW b \in Bodies
  PROVE  /\ b.kind \in {"report", "register"} /\ b.status \in STRING
         /\ b.up \in Int /\ b.down \in Int /\ b.traffic \in Seq(Entry) /\ b.nodes \in Nat
  BY BodyAssumption DEF IsBody

\* The statement after a given one is a later one of the same handler.
LEMMA NextStatement ==
  ASSUME NEW b \in Bodies
  PROVE  /\ FirstStatement(b) \in {"register", "stamp"}
         /\ AfterTraffic(b) \in {"clear", "done"}
         /\ AfterVolume(b) \in {"charge", "clear", "done"}
         /\ AfterStamp(b) \in {"volume", "charge", "clear", "done"}
         /\ AfterStamp(b) = "charge" => 1 \in DOMAIN b.traffic
         /\ AfterVolume(b) = "charge" => 1 \in DOMAIN b.traffic
  <1>1. b.traffic # <<>> => 1 \in DOMAIN b.traffic
    BY BodyType
  <1> QED BY <1>1 DEF FirstStatement, AfterTraffic, AfterVolume, AfterStamp

\* The initial state satisfies the inductive invariant.
LEMMA InitInv == Init => IInv
  <1> SUFFICES ASSUME Init PROVE IInv
    OBVIOUS
  <1>1. FreshAgent \in AgentRow /\ NoAgent \in AgentRow
    <2>1. 0 \in Int /\ 1 \in Nat
      OBVIOUS
    <2>2. "unknown" \in Statuses
      BY DEF Statuses
    <2>3. FreshAgent \in AgentRow
      BY <2>1, <2>2 DEF FreshAgent, AgentRow
    <2> QED BY <2>3 DEF FreshAgent, NoAgent, AgentRow
  <1>2. Idle \in Handler
    BY DEF Idle, Handler, Pcs
  <1>3. TypeOK
    BY <1>1, <1>2 DEF Init, TypeOK, UserRow
  <1>4. HandlerOK
    BY DEF Init, HandlerOK, InFlight, Steps, Idle
  <1> QED
    BY <1>3, <1>4 DEF Init, IInv, ChargedBehind, AuditTrail

-----------------------------------------------------------------------------
\* A statement on the agents table keeps its rows well formed and, failing or
\* not, forgets no earlier failure.
LEMMA UpdateRowType ==
  ASSUME TypeOK, NEW a \in Agents, NEW new \in AgentRow, NEW stmt, UpdateRow(a, new, stmt)
  PROVE  agents' \in [Agents -> AgentRow] /\ failed \subseteq failed'
  BY DEF UpdateRow, Fails, Works, TypeOK

\* A step that leaves the handlers, the charges and the audit log alone keeps
\* what relates them.
LEMMA QuietStep ==
  ASSUME HandlerOK, ChargedBehind, AuditTrail,
         UNCHANGED <<req, charged, log>>, failed \subseteq failed'
  PROVE  HandlerOK' /\ ChargedBehind' /\ AuditTrail'
  <1>1. HandlerOK'
    BY DEF HandlerOK, InFlight, Body
  <1>2. ChargedBehind' /\ AuditTrail'
    BY DEF ChargedBehind, AuditTrail
  <1> QED BY <1>1, <1>2

\* Goto changes the program counter and the position of one handler, and
\* nothing else of it.
LEMMA GotoType ==
  ASSUME TypeOK, NEW d \in Deliveries, NEW pc, NEW at, Goto(d, pc, at)
  PROVE  /\ pc \in Pcs /\ at \in Nat \ {0} => req' \in [Deliveries -> Handler]
         /\ \A e \in Deliveries : e # d => req'[e] = req[e]
         /\ req'[d].pc = pc /\ req'[d].at = at
         /\ req'[d].agent = req[d].agent /\ req'[d].body = req[d].body
  <1> DEFINE new == [req[d] EXCEPT !.pc = pc, !.at = at]
  <1>1. /\ new.pc = pc /\ new.at = at
        /\ new.agent = req[d].agent /\ new.body = req[d].body
        /\ pc \in Pcs /\ at \in Nat \ {0} => new \in Handler
    BY DEF TypeOK, Handler
  <1>2. req' = [req EXCEPT ![d] = new]
    BY DEF Goto
  <1> HIDE DEF new
  <1> QED BY <1>1, <1>2 DEF TypeOK

\* A step of handler d that charges nothing and writes no audit row moves it
\* from one statement to a later one.
LEMMA ForwardStep ==
  ASSUME IInv, NEW d \in Deliveries, NEW pc, Goto(d, pc, 1), InFlight(d),
         req[d].pc \notin {"charge", "log"},
         pc \in {"volume", "charge", "clear", "done", "insert"},
         pc \in {"volume", "charge"} => req[d].pc \in {"register", "stamp", "volume"},
         pc = "charge" => 1 \in DOMAIN Body(d).traffic,
         UNCHANGED <<charged, log>>, failed \subseteq failed'
  PROVE  req' \in [Deliveries -> Handler] /\ HandlerOK' /\ ChargedBehind' /\ AuditTrail'
  <1> USE DEF IInv
  <1>1. req' \in [Deliveries -> Handler]
    BY GotoType DEF Pcs, Steps
  <1>2. \A e \in Deliveries : e # d => req'[e] = req[e]
    BY GotoType
  <1>3. /\ req'[d].pc = pc /\ req'[d].at = 1
        /\ req'[d].agent = req[d].agent /\ req'[d].body = req[d].body
    BY GotoType
  <1>4. HandlerOK'
    BY <1>2, <1>3 DEF HandlerOK, InFlight, Body
  <1>5. \A x \in charged : x[1] \in Deliveries
    BY DEF TypeOK
  <1>6. ChargedBehind'
    BY <1>2, <1>3, <1>5 DEF ChargedBehind, InFlight, Steps
  <1>7. AuditTrail'
    BY <1>2, <1>3, <1>5 DEF AuditTrail, InFlight, Steps
  <1> QED BY <1>1, <1>4, <1>6, <1>7

-----------------------------------------------------------------------------
\* The token check: a handler starts, with nothing charged, or ends at once.
LEMMA AuthInv ==
  ASSUME IInv, NEW d \in Deliveries, NEW a \in Agents, NEW t,
         Refuse(d, a, t) \/ \E b \in Bodies : Admit(d, a, t, b)
  PROVE  IInv'
  <1> USE DEF IInv
  <1>1. req[d].pc = "idle" /\ UNCHANGED <<tables, removing, history>>
    BY DEF Refuse, Admit
  <1>2. /\ req' \in [Deliveries -> Handler]
        /\ \A e \in Deliveries : e # d => req'[e] = req[e]
        /\ \/ req'[d].pc = "refused"
           \/ /\ req'[d].pc \in {"register", "stamp"}
              /\ req'[d].agent \in Agents /\ req'[d].body \in Bodies
    <2>1. CASE Refuse(d, a, t)
      BY <2>1, GotoType DEF Refuse, Pcs
    <2>2. CASE \E b \in Bodies : Admit(d, a, t, b)
      <3>1. PICK b \in Bodies : Admit(d, a, t, b)
        BY <2>2
      <3> DEFINE h == [pc |-> FirstStatement(b), agent |-> a, body |-> b,
                       at |-> 1, age |-> 0]
      <3>2. h \in Handler /\ h.pc \in {"register", "stamp"}
            /\ h.agent \in Agents /\ h.body \in Bodies
        BY NextStatement DEF Handler, Pcs, Steps
      <3>3. req' = [req EXCEPT ![d] = h]
        BY <3>1 DEF Admit
      <3> HIDE DEF h
      <3> QED BY <3>2, <3>3 DEF TypeOK
    <2> QED BY <2>1, <2>2
  <1>3. TypeOK'
    BY <1>1, <1>2 DEF TypeOK, tables, history, bill, published
  <1>4. HandlerOK'
    BY <1>2 DEF HandlerOK, InFlight, Body, Steps
  <1>5. \A x \in charged : x[1] \in Deliveries /\ x[1] # d
    BY <1>1 DEF TypeOK, ChargedBehind
  <1>6. ChargedBehind' /\ AuditTrail'
    BY <1>1, <1>2, <1>5 DEF ChargedBehind, AuditTrail, tables, history, bill
  <1> QED BY <1>3, <1>4, <1>6

\* The statements on the agents table and on the node cache.
LEMMA PlainStepInv ==
  ASSUME IInv, NEW d \in Deliveries,
         RegisterAgent(d) \/ Stamp(d) \/ AddVolume(d) \/ ClearNodes(d)
  PROVE  IInv'
  <1> USE DEF IInv
  <1>1. InFlight(d) /\ req[d].agent \in Agents /\ Body(d) \in Bodies
    BY DEF RegisterAgent, Stamp, AddVolume, ClearNodes, HandlerOK, InFlight, Steps
  <1> DEFINE a == req[d].agent
  <1>row. a \in Agents /\ agents[a] \in AgentRow /\ req[d].age \in Nat
    BY <1>1 DEF TypeOK, Handler
  <1>body. Body(d).status \in Statuses /\ Body(d).up \in Int /\ Body(d).down \in Int
    BY <1>1, BodyType DEF Statuses
  <1>2. CASE RegisterAgent(d)
    <2>1. [agents[a] EXCEPT !.status = "online"] \in AgentRow
      BY <1>row DEF AgentRow, Statuses
    <2>2. agents' \in [Agents -> AgentRow] /\ failed \subseteq failed'
      BY <1>1, <1>2, <2>1, UpdateRowType DEF RegisterAgent
    <2>3. req' \in [Deliveries -> Handler] /\ HandlerOK' /\ ChargedBehind' /\ AuditTrail'
      BY <1>1, <1>2, <2>2, ForwardStep DEF RegisterAgent, bill
    <2> QED BY <1>2, <2>2, <2>3 DEF RegisterAgent, TypeOK, bill, published
  <1>3. CASE Stamp(d)
    <2>1. [agents[a] EXCEPT !.status = Body(d).status, !.seen = req[d].age] \in AgentRow
      BY <1>row, <1>body DEF AgentRow
    <2>2. agents' \in [Agents -> AgentRow] /\ failed \subseteq failed'
      BY <1>1, <1>3, <2>1, UpdateRowType DEF Stamp
    <2>3. req' \in [Deliveries -> Handler] /\ HandlerOK' /\ ChargedBehind' /\ AuditTrail'
      BY <1>1, <1>3, <2>2, ForwardStep, NextStatement DEF Stamp, bill
    <2> QED BY <1>3, <2>2, <2>3 DEF Stamp, TypeOK, bill, published
  <1>4. CASE AddVolume(d)
    <2>1. [agents[a] EXCEPT !.used = @ + Body(d).up + Body(d).down] \in AgentRow
      BY <1>row, <1>body DEF AgentRow
    <2>2. agents' \in [Agents -> AgentRow] /\ failed \subseteq failed'
      BY <1>1, <1>4, <2>1, UpdateRowType DEF AddVolume
    <2>3. req' \in [Deliveries -> Handler] /\ HandlerOK' /\ ChargedBehind' /\ AuditTrail'
      BY <1>1, <1>4, <2>2, ForwardStep, NextStatement DEF AddVolume, bill
    <2> QED BY <1>4, <2>2, <2>3 DEF AddVolume, TypeOK, bill, published
  <1>5. CASE ClearNodes(d)
    <2>1. failed \subseteq failed' /\ cache' \subseteq cache
      BY <1>5 DEF ClearNodes, Fails, Works, RowsOf
    <2>2. req' \in [Deliveries -> Handler] /\ HandlerOK' /\ ChargedBehind' /\ AuditTrail'
      BY <1>1, <1>5, <2>1, ForwardStep DEF ClearNodes, bill
    <2>3. publisher' \in [Agents -> Deliveries \union {None}]
      BY <1>5 DEF ClearNodes, TypeOK
    <2> QED BY <1>5, <2>1, <2>2, <2>3 DEF ClearNodes, TypeOK, bill
  <1> QED BY <1>2, <1>3, <1>4, <1>5

\* Charging an entry puts it at the handler's position, where nothing has been
\* charged before, and takes the handler to the audit row of that entry.
LEMMA ChargeInv ==
  ASSUME IInv, NEW d \in Deliveries, Charge(d)
  PROVE  IInv'
  <1> USE DEF IInv
  <1>1. InFlight(d) /\ Body(d) \in Bodies /\ req[d].at \in DOMAIN Body(d).traffic
    BY DEF Charge, HandlerOK, InFlight, Steps
  <1>2. EntryOf(d).user \in Users /\ EntryOf(d).bytes \in Int
    <2>1. Body(d).traffic \in Seq(Entry)
      BY <1>1, BodyType
    <2>2. EntryOf(d) \in Entry
      BY <1>1, <2>1 DEF EntryOf
    <2> QED BY <2>2 DEF Entry
  <1>3. req[d].at \in Nat \ {0}
    BY DEF TypeOK, Handler
  <1>4. /\ req' \in [Deliveries -> Handler]
        /\ \A e \in Deliveries : e # d => req'[e] = req[e]
        /\ req'[d].pc = "log" /\ req'[d].at = req[d].at
        /\ req'[d].agent = req[d].agent /\ req'[d].body = req[d].body
    BY <1>3, GotoType DEF Charge, Pcs, Steps
  <1>5. charged' \subseteq charged \union {Position(d)} /\ failed \subseteq failed'
        /\ log' = log
    BY DEF Charge, Fails, Works
  <1>6. users' \in [Users -> UserRow]
    BY <1>2 DEF Charge, TypeOK, UserRow
  <1>7. TypeOK'
    BY <1>3, <1>4, <1>5, <1>6 DEF TypeOK, Charge, Position, published
  <1>8. HandlerOK'
    BY <1>1, <1>4 DEF HandlerOK, InFlight, Body
  <1>9. \A x \in charged : x \in Deliveries \X Nat
    BY DEF TypeOK
  <1>10. ChargedBehind' /\ AuditTrail'
    <2> SUFFICES ASSUME NEW x \in charged'
                 PROVE  /\ req'[x[1]].pc \notin {"idle", "refused", "register",
                                                 "stamp", "volume"}
                        /\ req'[x[1]].pc = "charge" => x[2] < req'[x[1]].at
                        /\ req'[x[1]].pc = "log" => x[2] <= req'[x[1]].at
                        /\ x \notin log' =>
                             \/ req'[x[1]].pc \in {"log", "lost"} /\ req'[x[1]].at = x[2]
                             \/ <<x[1], "log", x[2]>> \in failed'
      BY DEF ChargedBehind, AuditTrail
    <2>1. CASE x = Position(d)
      BY <2>1, <1>3, <1>4 DEF Position
    <2>2. CASE x \in charged /\ x[1] = d
      BY <2>2, <1>3, <1>4, <1>5, <1>9 DEF ChargedBehind, AuditTrail, Charge
    <2>3. CASE x \in charged /\ x[1] # d
      BY <2>3, <1>4, <1>5, <1>9 DEF ChargedBehind, AuditTrail
    <2> QED BY <1>5, <2>1, <2>2, <2>3
  <1> QED BY <1>7, <1>8, <1>10

\* Writing the audit row, or failing to, settles the entry in hand; the loop
\* then leaves it behind for good.
LEMMA WriteLogInv ==
  ASSUME IInv, NEW d \in Deliveries, WriteLog(d)
  PROVE  IInv'
  <1> USE DEF IInv
  <1>1. InFlight(d) /\ Body(d) \in Bodies /\ req[d].at \in DOMAIN Body(d).traffic
    BY DEF WriteLog, HandlerOK, InFlight, Steps
  <1>2. req[d].at \in Nat \ {0} /\ Len(Body(d).traffic) \in Nat
        /\ DOMAIN Body(d).traffic = 1 .. Len(Body(d).traffic)
    BY <1>1, BodyType DEF TypeOK, Handler
  <1>3. PICK pc, at : /\ Goto(d, pc, at)
                      /\ \/ pc = "charge" /\ at = req[d].at + 1
                            /\ req[d].at < Len(Body(d).traffic)
                         \/ pc \in {"clear", "done"} /\ at = 1
    BY <1>1, NextStatement DEF WriteLog
  <1>4. /\ req' \in [Deliveries -> Handler]
        /\ \A e \in Deliveries : e # d => req'[e] = req[e]
        /\ req'[d].pc = pc /\ req'[d].at = at
        /\ req'[d].agent = req[d].agent /\ req'[d].body = req[d].body
    BY <1>2, <1>3, GotoType DEF Pcs, Steps
  <1>5. /\ failed \subseteq failed' /\ log \subseteq log' /\ charged' = charged
        /\ log' \subseteq log \union {Position(d)}
        /\ Position(d) \in log' \/ <<d, "log", req[d].at>> \in failed'
    BY DEF WriteLog, Fails, Works, bill
  <1>6. TypeOK'
    BY <1>2, <1>4, <1>5 DEF TypeOK, WriteLog, Position, bill, published
  <1>7. HandlerOK'
    BY <1>1, <1>2, <1>3, <1>4 DEF HandlerOK, InFlight, Body
  <1>8. \A x \in charged : x \in Deliveries \X Nat
    BY DEF TypeOK
  <1>9. ChargedBehind' /\ AuditTrail'
    <2> SUFFICES ASSUME NEW x \in charged
                 PROVE  /\ req'[x[1]].pc \notin {"idle", "refused", "register",
                                                 "stamp", "volume"}
                        /\ req'[x[1]].pc = "charge" => x[2] < req'[x[1]].at
                        /\ req'[x[1]].pc = "log" => x[2] <= req'[x[1]].at
                        /\ x \notin log' =>
                             \/ req'[x[1]].pc \in {"log", "lost"} /\ req'[x[1]].at = x[2]
                             \/ <<x[1], "log", x[2]>> \in failed'
      BY <1>5 DEF ChargedBehind, AuditTrail
    <2>1. CASE x[1] = d
      <3>1. x = <<d, x[2]>> /\ x[2] \in Nat /\ x[2] <= req[d].at
        BY <1>8, <2>1 DEF ChargedBehind, WriteLog
      <3>2. x \notin log' => <<d, "log", x[2]>> \in failed'
        BY <1>5, <2>1, <3>1 DEF AuditTrail, WriteLog, Position
      <3> QED BY <1>2, <1>3, <1>4, <2>1, <3>1, <3>2
    <2>2. CASE x[1] # d
      BY <2>2, <1>4, <1>5, <1>8 DEF ChargedBehind, AuditTrail
    <2> QED BY <2>1, <2>2
  <1> QED BY <1>6, <1>7, <1>9

\* Inserting a node changes the cache and moves the handler on.
LEMMA InsertNodeInv ==
  ASSUME IInv, NEW d \in Deliveries, InsertNode(d)
  PROVE  IInv'
  <1> USE DEF IInv
  <1>1. InFlight(d) /\ req[d].agent \in Agents /\ Body(d) \in Bodies /\ req[d].at \in Nat \ {0}
    BY DEF InsertNode, HandlerOK, InFlight, Steps, TypeOK, Handler
  <1>2. PICK pc \in {"insert", "done"}, at \in Nat \ {0} : Goto(d, pc, at)
    BY <1>1 DEF InsertNode
  <1>3. /\ req' \in [Deliveries -> Handler]
        /\ \A e \in Deliveries : e # d => req'[e] = req[e]
        /\ req'[d].pc = pc
        /\ req'[d].agent = req[d].agent /\ req'[d].body = req[d].body
    BY <1>2, GotoType DEF Pcs, Steps
  <1>4. /\ failed \subseteq failed' /\ log' = log /\ charged' = charged
        /\ cache' \subseteq cache \union {Position(d)}
    BY DEF InsertNode, Fails, Works, bill
  <1>5. TypeOK'
    BY <1>1, <1>3, <1>4 DEF TypeOK, InsertNode, Position, bill, published
  <1>6. HandlerOK'
    BY <1>1, <1>3 DEF HandlerOK, InFlight, Body
  <1>7. \A x \in charged : x[1] \in Deliveries
    BY DEF TypeOK
  <1>8. ChargedBehind' /\ AuditTrail'
    BY <1>3, <1>4, <1>7 DEF ChargedBehind, AuditTrail, InsertNode
  <1> QED BY <1>5, <1>6, <1>8

-----------------------------------------------------------------------------
\* The administrator's operations: none touches a handler, a charge or an
\* audit row.
LEMMA AdministerInv ==
  ASSUME IInv, Administer
  PROVE  IInv'
  <1> USE DEF IInv
  <1>1. /\ UNCHANGED <<req, charged, log>> /\ failed \subseteq failed'
        /\ UNCHANGED crashes
    BY DEF Administer, CreateAgent, ResetToken, SetEnabled, DropNodes, DropLinks, DropRow,
           ResetTraffic, DeleteUser, UpdateRow, Fails, Works, tables, history, bill
  <1>2. HandlerOK' /\ ChargedBehind' /\ AuditTrail'
    BY <1>1, QuietStep
  <1>3. TypeOK'
    <2>1. ASSUME NEW a \in Agents, CreateAgent(a) PROVE TypeOK'
      <3>1. FreshAgent \in AgentRow
        BY DEF FreshAgent, AgentRow, Statuses
      <3> QED BY <2>1, <3>1 DEF CreateAgent, TypeOK, history, bill, published
    <2>2. ASSUME NEW a \in Agents, ResetToken(a) PROVE TypeOK'
      <3>1. [agents[a] EXCEPT !.token = issued[a] + 1] \in AgentRow /\ agents[a].token \in Nat
        BY DEF TypeOK, AgentRow
      <3>2. agents' \in [Agents -> AgentRow]
        BY <2>2, <3>1, UpdateRowType DEF ResetToken
      <3>3. issued' \in [Agents -> Nat]
        BY <2>2, <3>1 DEF ResetToken, TypeOK
      <3> QED BY <1>1, <2>2, <3>2, <3>3 DEF ResetToken, TypeOK, bill, published
    <2>3. ASSUME NEW a \in Agents, NEW on \in BOOLEAN, SetEnabled(a, on) PROVE TypeOK'
      <3>1. [agents[a] EXCEPT !.enabled = on] \in AgentRow
        BY DEF TypeOK, AgentRow
      <3>2. agents' \in [Agents -> AgentRow]
        BY <2>3, <3>1, UpdateRowType DEF SetEnabled
      <3> QED BY <1>1, <2>3, <3>2 DEF SetEnabled, TypeOK, bill, published
    <2>4. ASSUME NEW a \in Agents, DropNodes(a) PROVE TypeOK'
      <3>1. cache' \subseteq cache /\ dropped' \subseteq Deliveries
        BY <2>4 DEF DropNodes, RowsOf, TypeOK
      <3> QED BY <1>1, <2>4, <3>1 DEF DropNodes, TypeOK, bill
    <2>5. ASSUME NEW a \in Agents, DropLinks(a) PROVE TypeOK'
      BY <2>5 DEF DropLinks, TypeOK, tables, history, bill, published
    <2>6. ASSUME NEW a \in Agents, DropRow(a) PROVE TypeOK'
      <3>1. [agents[a] EXCEPT !.row = "deleted"] \in AgentRow
        BY DEF TypeOK, AgentRow
      <3>2. agents' \in [Agents -> AgentRow]
        BY <2>6, <3>1, UpdateRowType DEF DropRow
      <3> QED BY <1>1, <2>6, <3>2 DEF DropRow, TypeOK, bill, published
    <2>7. ASSUME NEW u \in Users, ResetTraffic(u) PROVE TypeOK'
      BY <2>7 DEF ResetTraffic, ChargesOf, TypeOK, UserRow, published
    <2>8. ASSUME NEW u \in Users, DeleteUser(u) PROVE TypeOK'
      BY <2>8 DEF DeleteUser, TypeOK, UserRow, history, bill, published
    <2> QED BY <2>1, <2>2, <2>3, <2>4, <2>5, <2>6, <2>7, <2>8 DEF Administer
  <1> QED BY <1>2, <1>3

\* A crash stops the handlers where they are: what they had charged and not
\* yet logged stays without its audit row.
LEMMA CrashInv ==
  ASSUME IInv, Crash
  PROVE  IInv'
  <1> USE DEF IInv
  <1>1. /\ req' \in [Deliveries -> Handler]
        /\ \A d \in Deliveries : /\ ~InFlight(d) => req'[d] = req[d]
                                 /\ InFlight(d) => /\ req'[d].pc = "lost"
                                                   /\ req'[d].at = req[d].at
    BY DEF Crash, TypeOK, Handler, Pcs
  <1>2. TypeOK'
    BY <1>1 DEF Crash, TypeOK, tables, bill, published
  <1>3. HandlerOK'
    BY <1>1 DEF HandlerOK, InFlight, Steps, Body
  <1>4. \A x \in charged : x[1] \in Deliveries
    BY DEF TypeOK
  <1>5. ChargedBehind' /\ AuditTrail'
    BY <1>1, <1>4 DEF ChargedBehind, AuditTrail, InFlight, Steps, Crash, tables, bill
  <1> QED BY <1>2, <1>3, <1>5

\* A tick only ages what carries a time.
LEMMA TickInv ==
  ASSUME IInv, Tick
  PROVE  IInv'
  <1> USE DEF IInv
  <1>1. \A age \in Nat : Older(age) \in Nat
    BY ClockAssumption DEF Older
  <1>2. /\ req' \in [Deliveries -> Handler]
        /\ \A d \in Deliveries : /\ req'[d].pc = req[d].pc /\ req'[d].at = req[d].at
                                 /\ req'[d].agent = req[d].agent
                                 /\ req'[d].body = req[d].body
    <2> SUFFICES ASSUME NEW d \in Deliveries
                 PROVE  LET h == IF InFlight(d) THEN [req[d] EXCEPT !.age = Older(@)]
                                                ELSE req[d]
                        IN  /\ h \in Handler /\ h.pc = req[d].pc /\ h.at = req[d].at
                            /\ h.agent = req[d].agent /\ h.body = req[d].body
      BY DEF Tick
    <2> QED BY <1>1 DEF TypeOK, Handler
  <1>3. agents' \in [Agents -> AgentRow]
    <2> SUFFICES ASSUME NEW a \in Agents, agents[a].seen # Never
                 PROVE  [agents[a] EXCEPT !.seen = Older(@)] \in AgentRow
      BY DEF Tick, TypeOK
    <2> QED BY <1>1 DEF TypeOK, AgentRow
  <1>4. TypeOK'
    BY <1>2, <1>3 DEF Tick, TypeOK, history, bill, published
  <1>5. HandlerOK'
    BY <1>2 DEF HandlerOK, InFlight, Body
  <1>6. \A x \in charged : x[1] \in Deliveries
    BY DEF TypeOK
  <1>7. ChargedBehind' /\ AuditTrail'
    BY <1>2, <1>6 DEF ChargedBehind, AuditTrail, Tick, history, bill
  <1> QED BY <1>4, <1>5, <1>7

-----------------------------------------------------------------------------
\* Every step of the panel keeps the inductive invariant.
LEMMA NextInv == IInv /\ [Next]_vars => IInv'
  <1> SUFFICES ASSUME IInv, [Next]_vars PROVE IInv'
    OBVIOUS
  <1>1. CASE \E d \in Deliveries, a \in Agents, t \in 1 .. MaxTokens :
               Refuse(d, a, t) \/ \E b \in Bodies : Admit(d, a, t, b)
    BY <1>1, AuthInv
  <1>2. CASE \E d \in Deliveries : Step(d)
    <2> SUFFICES ASSUME NEW d \in Deliveries, Step(d) PROVE IInv'
      BY <1>2
    <2> QED BY PlainStepInv, ChargeInv, WriteLogInv, InsertNodeInv DEF Step
  <1>3. CASE Administer
    BY <1>3, AdministerInv
  <1>4. CASE Crash
    BY <1>4, CrashInv
  <1>5. CASE Tick
    BY <1>5, TickInv
  <1>6. CASE UNCHANGED vars
    BY <1>6 DEF vars, tables, history, bill, published, IInv, TypeOK, HandlerOK,
                ChargedBehind, AuditTrail, InFlight, Body
  <1> QED BY <1>1, <1>2, <1>3, <1>4, <1>5, <1>6 DEF Next, Running

\* The tables and the handlers keep their shape (TypeOK) whatever fails.
THEOREM TypeCorrect == Spec => []TypeOK
  <1>1. Spec => []IInv
    BY InitInv, NextInv, PTL DEF Spec
  <1>2. IInv => TypeOK
    BY DEF IInv
  <1> QED BY <1>1, <1>2, PTL

\* A charged usage entry lacks its audit row only while its handler stands
\* between the two statements, if it died there, or if the INSERT failed.
THEOREM AuditTrailHolds == Spec => []AuditTrail
  <1>1. Spec => []IInv
    BY InitInv, NextInv, PTL DEF Spec
  <1>2. IInv => AuditTrail
    BY DEF IInv
  <1> QED BY <1>1, <1>2, PTL

-----------------------------------------------------------------------------
\* Every step of the panel is a step of the ledger, or leaves it alone.
LEMMA LedgerStep ==
  ASSUME IInv, [Next]_vars
  PROVE  [Ledger!Next]_(Ledger!vars)
  <1> USE DEF IInv, Ledger!vars, Ledger!Next
  <1>1. CASE ~UNCHANGED <<users, charged>> /\ \E d \in Deliveries : Charge(d)
    <2>1. PICK d \in Deliveries : Charge(d)
      BY <1>1
    <2> DEFINE u == EntryOf(d).user
               n == EntryOf(d).bytes
    <2>2. /\ users' = [users EXCEPT ![u].used = @ + n]
          /\ charged' = charged \union {Position(d)}
      BY <1>1, <2>1 DEF Charge
    <2>3. Body(d) \in Bodies /\ req[d].at \in DOMAIN Body(d).traffic
      BY <2>1 DEF Charge, HandlerOK, InFlight, Steps
    <2>4. Position(d) \in Entries /\ n \in Amounts
      BY <2>3 DEF Position, Entries, Amounts, EntryOf
    <2>5. u \in Users
      <3>1. Body(d).traffic \in Seq(Entry)
        BY <2>3, BodyType
      <3>2. EntryOf(d) \in Entry
        BY <2>3, <3>1 DEF EntryOf
      <3> QED BY <3>2 DEF Entry
    <2>6. Position(d) \notin charged
      <3>1. req[d].pc = "charge" /\ req[d].at \in Nat
        BY <2>1 DEF Charge, TypeOK, Handler
      <3> QED BY <3>1 DEF ChargedBehind, Position
    <2>7. Used' = [Used EXCEPT ![u] = @ + n]
      BY <2>2, <2>5 DEF TypeOK, UserRow, Used
    <2>8. Ledger!Charge(u, Position(d), n)
      BY <2>2, <2>6, <2>7 DEF Ledger!Charge
    <2> QED BY <2>4, <2>5, <2>8
  <1>2. CASE \E u \in Users : ResetTraffic(u)
    <2>1. PICK u \in Users : ResetTraffic(u)
      BY <1>2
    <2>2. Used' = [Used EXCEPT ![u] = 0] /\ UNCHANGED charged
      BY <2>1 DEF ResetTraffic, TypeOK, UserRow, Used
    <2> QED BY <2>2 DEF Ledger!Reset
  <1>3. CASE \E u \in Users : DeleteUser(u)
    BY <1>3 DEF DeleteUser, TypeOK, UserRow, Used, history, bill
  <1>4. CASE UNCHANGED <<users, charged>>
    BY <1>4 DEF Used
  <1>5. ASSUME NEW d \in Deliveries, Step(d), ~Charge(d) PROVE UNCHANGED <<users, charged>>
    BY <1>5 DEF Step, RegisterAgent, Stamp, AddVolume, WriteLog, ClearNodes, InsertNode, bill
  <1>6. ASSUME Administer,
               ~ \E u \in Users : ResetTraffic(u) \/ DeleteUser(u)
        PROVE  UNCHANGED <<users, charged>>
    BY <1>6 DEF Administer, CreateAgent, SetEnabled, ResetToken, DropNodes, DropLinks,
                DropRow, tables, history, bill
  <1>7. ASSUME Crash \/ Tick \/ UNCHANGED vars PROVE UNCHANGED <<users, charged>>
    BY <1>7 DEF Crash, Tick, vars, tables, history, bill
  <1>8. ASSUME NEW d \in Deliveries, NEW a \in Agents, NEW t,
               Refuse(d, a, t) \/ \E b \in Bodies : Admit(d, a, t, b)
        PROVE  UNCHANGED <<users, charged>>
    BY <1>8 DEF Refuse, Admit, tables, history, bill
  <1> QED BY <1>1, <1>2, <1>3, <1>4, <1>5, <1>6, <1>7, <1>8 DEF Next, Running

\* The statement-by-statement accounting of the panel implements the ledger:
\* no usage entry is added twice, none is added in part, and only a reset by
\* an administrator takes anything away.
THEOREM LedgerImplemented == Spec => ImplementsLedger
  <1>1. Init => Ledger!Init
    BY DEF Init, Ledger!Init, Used
  <1>2. IInv /\ [Next]_vars => [Ledger!Next]_(Ledger!vars)
    BY LedgerStep
  <1> QED BY <1>1, <1>2, InitInv, NextInv, PTL DEF Spec, ImplementsLedger, Ledger!Spec

-----------------------------------------------------------------------------
\* A row holds one of the tokens issued for it, and every token issued after
\* that one was lost in an UPDATE that failed.
TokenInv ==
  \A a \in Agents :
    /\ issued[a] \in Nat \ {0} /\ agents[a].token \in 1 .. issued[a]
    /\ agents[a].row = "absent" => issued[a] = 1
    /\ \A n \in agents[a].token .. issued[a] - 1 : <<a, "token", n>> \in failed

\* A step that issues no token, changes none and forgets no failure keeps that.
SameTokens == /\ issued' = issued /\ failed \subseteq failed'
              /\ \A a \in Agents : /\ agents'[a].token = agents[a].token
                                   /\ agents'[a].row = "absent" => agents[a].row = "absent"
LEMMA TokensKept == ASSUME TokenInv, SameTokens PROVE TokenInv'
  BY DEF TokenInv, SameTokens

\* An UPDATE of other columns leaves the token alone, whether it fails or not.
LEMMA UpdateKeepsTokens ==
  ASSUME TypeOK, NEW a \in Agents, NEW new \in AgentRow, NEW stmt,
         UpdateRow(a, new, stmt), issued' = issued,
         new.token = agents[a].token, new.row # "absent"
  PROVE  SameTokens
  <1>1. CASE UNCHANGED agents /\ failed \subseteq failed'
    BY <1>1 DEF SameTokens
  <1>2. CASE agents' = [agents EXCEPT ![a] = new] /\ failed \subseteq failed'
    <2>1. agents'[a] = new /\ \A b \in Agents : b # a => agents'[b] = agents[b]
      BY <1>2 DEF TypeOK
    <2> QED BY <1>2, <2>1 DEF SameTokens
  <1> QED BY <1>1, <1>2 DEF UpdateRow, Fails, Works

LEMMA StepKeepsTokens ==
  ASSUME IInv, NEW d \in Deliveries, Step(d)
  PROVE  SameTokens
  <1> USE DEF IInv
  <1> DEFINE a == req[d].agent
  <1>1. InFlight(d) /\ a \in Agents /\ Body(d) \in Bodies
    <2>1. InFlight(d)
      BY DEF Step, RegisterAgent, Stamp, AddVolume, Charge, WriteLog, ClearNodes,
             InsertNode, InFlight, Steps
    <2> QED BY <2>1 DEF HandlerOK
  <1>2. agents[a] \in AgentRow
    BY <1>1 DEF TypeOK
  <1>3. CASE RegisterAgent(d) /\ Live(a)
    <2> DEFINE new == [agents[a] EXCEPT !.status = "online"]
    <2>1. new \in AgentRow /\ new.token = agents[a].token /\ new.row # "absent"
      BY <1>2, <1>3 DEF AgentRow, Statuses, Live
    <2>2. UpdateRow(a, new, <<d, "register">>) /\ issued' = issued
      BY <1>3 DEF RegisterAgent
    <2> HIDE DEF new
    <2> QED BY <1>1, <2>1, <2>2, UpdateKeepsTokens
  <1>4. CASE Stamp(d) /\ Live(a)
    <2> DEFINE new == [agents[a] EXCEPT !.status = Body(d).status, !.seen = req[d].age]
    <2>1. new \in AgentRow /\ new.token = agents[a].token /\ new.row # "absent"
      BY <1>1, <1>2, <1>4 DEF AgentRow, Statuses, Live, TypeOK, Handler
    <2>2. UpdateRow(a, new, <<d, "stamp">>) /\ issued' = issued
      BY <1>4 DEF Stamp
    <2> HIDE DEF new
    <2> QED BY <1>1, <2>1, <2>2, UpdateKeepsTokens
  <1>5. CASE AddVolume(d) /\ Live(a)
    <2> DEFINE new == [agents[a] EXCEPT !.used = @ + Body(d).up + Body(d).down]
    <2>0. agents[a].used + Body(d).up + Body(d).down \in Int
      <3>1. Body(d).up \in Int /\ Body(d).down \in Int
        BY <1>1, BodyType DEF TypeOK, Handler, Body, NoBody
      <3>2. agents[a].used \in Int
        BY <1>2 DEF AgentRow
      <3> QED BY <3>1, <3>2
    <2>1. new \in AgentRow /\ new.token = agents[a].token /\ new.row # "absent"
      BY <1>2, <1>5, <2>0 DEF AgentRow, Live
    <2>2. UpdateRow(a, new, <<d, "volume">>) /\ issued' = issued
      BY <1>5 DEF AddVolume
    <2> HIDE DEF new
    <2> QED BY <1>1, <2>1, <2>2, UpdateKeepsTokens
  <1>6. CASE RegisterAgent(d) \/ Stamp(d) \/ AddVolume(d)
    <2>1. CASE ~Live(a)
      BY <1>6, <2>1 DEF RegisterAgent, Stamp, AddVolume, UpdateRow, Fails, Works, SameTokens
    <2> QED BY <1>3, <1>4, <1>5, <1>6, <2>1
  <1>7. CASE Charge(d) \/ WriteLog(d) \/ ClearNodes(d) \/ InsertNode(d)
    BY <1>7 DEF Charge, WriteLog, ClearNodes, InsertNode, Fails, Works, SameTokens
  <1> QED BY <1>6, <1>7 DEF Step

\* A reset: the new token is stored, or its UPDATE has failed.
LEMMA ResetTokenInv ==
  ASSUME TypeOK, TokenInv, NEW a \in Agents, ResetToken(a)
  PROVE  TokenInv'
  <1> DEFINE n == issued[a]
  <1>1. /\ Live(a) /\ n \in Nat \ {0} /\ issued' = [issued EXCEPT ![a] = n + 1]
        /\ issued'[a] = n + 1 /\ \A b \in Agents : b # a => issued'[b] = issued[b]
    BY DEF ResetToken, TokenInv, TypeOK
  <1>2. CASE failed' = failed \union {<<a, "token", n>>} /\ UNCHANGED agents
    <2>1. \A b \in Agents : b # a =>
            /\ issued'[b] = issued[b] /\ agents'[b] = agents[b] /\ failed \subseteq failed'
      BY <1>1, <1>2
    <2>2. \A k \in agents[a].token .. n : <<a, "token", k>> \in failed'
      BY <1>1, <1>2 DEF TokenInv
    <2>3. agents[a].row # "absent"
      BY <1>1 DEF Live
    <2>4. agents[a].token \in 1 .. n + 1
      BY <1>1 DEF TokenInv
    <2> QED BY <1>1, <1>2, <2>1, <2>2, <2>3, <2>4 DEF TokenInv
  <1>3. CASE agents' = [agents EXCEPT ![a] = [agents[a] EXCEPT !.token = n + 1]]
             /\ failed' = failed
    <2>1. agents[a] \in AgentRow
      BY DEF TypeOK
    <2>2. agents'[a].token = n + 1 /\ agents'[a].row # "absent"
      BY <1>1, <1>3, <2>1 DEF TypeOK, Live, AgentRow
    <2>3. \A b \in Agents : b # a => agents'[b] = agents[b]
      BY <1>3 DEF TypeOK
    <2> QED BY <1>1, <1>3, <2>2, <2>3 DEF TokenInv
  <1> QED BY <1>1, <1>2, <1>3 DEF ResetToken, UpdateRow, Fails, Works

\* The administrator's other requests.
LEMMA AdministerKeepsTokens ==
  ASSUME TypeOK, TokenInv, Administer, ~ \E a \in Agents : ResetToken(a)
  PROVE  SameTokens
  <1>1. ASSUME NEW a \in Agents, CreateAgent(a) PROVE SameTokens
    <2>1. agents[a].token = 1
      BY <1>1 DEF CreateAgent, TokenInv
    <2>2. /\ agents'[a] = FreshAgent /\ \A b \in Agents : b # a => agents'[b] = agents[b]
          /\ UNCHANGED <<issued, failed>>
      BY <1>1 DEF CreateAgent, TypeOK, history
    <2> QED BY <2>1, <2>2 DEF SameTokens, FreshAgent
  <1>2. ASSUME NEW a \in Agents, NEW on \in BOOLEAN, SetEnabled(a, on) PROVE SameTokens
    <2> DEFINE new == [agents[a] EXCEPT !.enabled = on]
    <2>1. agents[a] \in AgentRow
      BY DEF TypeOK
    <2>2. new \in AgentRow /\ new.token = agents[a].token /\ new.row # "absent"
      BY <1>2, <2>1 DEF AgentRow, SetEnabled, Live
    <2>3. UpdateRow(a, new, <<a, "enabled">>) /\ issued' = issued
      BY <1>2 DEF SetEnabled
    <2> HIDE DEF new
    <2> QED BY <2>2, <2>3, UpdateKeepsTokens
  <1>3. ASSUME NEW a \in Agents, DropRow(a) PROVE SameTokens
    <2> DEFINE new == [agents[a] EXCEPT !.row = "deleted"]
    <2>1. agents[a] \in AgentRow
      BY DEF TypeOK
    <2>2. new \in AgentRow /\ new.token = agents[a].token /\ new.row # "absent"
      BY <2>1 DEF AgentRow
    <2>3. UpdateRow(a, new, <<a, "row">>) /\ issued' = issued
      BY <1>3 DEF DropRow
    <2> HIDE DEF new
    <2> QED BY <2>2, <2>3, UpdateKeepsTokens
  <1>4. ASSUME NEW a \in Agents, DropNodes(a) \/ DropLinks(a) PROVE SameTokens
    BY <1>4 DEF DropNodes, DropLinks, Fails, Works, tables, history, SameTokens
  <1>5. ASSUME NEW u \in Users, ResetTraffic(u) \/ DeleteUser(u) PROVE SameTokens
    BY <1>5 DEF ResetTraffic, DeleteUser, history, SameTokens
  <1> QED BY <1>1, <1>2, <1>3, <1>4, <1>5 DEF Administer

LEMMA NextTokens == IInv /\ TokenInv /\ [Next]_vars => TokenInv'
  <1> SUFFICES ASSUME IInv, TokenInv, [Next]_vars PROVE TokenInv'
    OBVIOUS
  <1>0. TypeOK
    BY DEF IInv
  <1>1. ASSUME NEW d \in Deliveries, Step(d) PROVE TokenInv'
    BY <1>1, StepKeepsTokens, TokensKept
  <1>2. ASSUME NEW d \in Deliveries, NEW a \in Agents, NEW t \in 1 .. MaxTokens,
               Refuse(d, a, t) \/ \E b \in Bodies : Admit(d, a, t, b)
        PROVE  TokenInv'
    <2>1. SameTokens
      BY <1>2 DEF Refuse, Admit, tables, history, SameTokens
    <2> QED BY <2>1, TokensKept
  <1>3. CASE Administer
    BY <1>0, <1>3, ResetTokenInv, AdministerKeepsTokens, TokensKept
  <1>4. CASE Crash \/ UNCHANGED vars
    <2>1. SameTokens
      BY <1>4 DEF Crash, vars, tables, history, SameTokens
    <2> QED BY <2>1, TokensKept
  <1>5. CASE Tick
    <2>1. \A a \in Agents : agents'[a].token = agents[a].token /\ agents'[a].row = agents[a].row
      <3> TAKE a \in Agents
      <3>1. agents[a] \in AgentRow
        BY <1>0 DEF TypeOK
      <3> QED BY <1>5, <3>1 DEF Tick, AgentRow
    <2>2. SameTokens
      BY <1>5, <2>1 DEF Tick, history, SameTokens
    <2> QED BY <2>2, TokensKept
  <1> QED BY <1>1, <1>2, <1>3, <1>4, <1>5 DEF Next, Running

\* A token that a reset has replaced is refused from then on, for any number
\* of resets, crashes and failing statements, unless the UPDATE that was to
\* store its successor failed.
THEOREM OldTokensStayRefused == Spec => []OldTokensAreRefused
  <1>1. Init => TokenInv
    <2> SUFFICES ASSUME Init, NEW a \in Agents
                 PROVE  /\ issued[a] = 1 /\ agents[a].token = 1
      BY DEF TokenInv
    <2> QED BY DEF Init, FreshAgent, NoAgent
  <1>2. TokenInv => OldTokensAreRefused
    BY DEF TokenInv, OldTokensAreRefused, Accepts
  <1> QED BY <1>1, <1>2, InitInv, NextInv, NextTokens, PTL DEF Spec
-----------------------------------------------------------------------------
\* What a charge has to be for the sums to follow it: there are finitely many,
\* each names an entry of its delivery's body, and only charges are wiped.
ChargesOK ==
  /\ IsFiniteSet(charged)
  /\ wiped \subseteq charged
  /\ \A x \in charged : Body(x[1]) \in Bodies /\ x[2] \in DOMAIN Body(x[1]).traffic

UsageInv == ChargesOK /\ UsageMatches

\* The entry a charge names belongs to a user and has a number of bytes.
LEMMA ChargedEntry ==
  ASSUME ChargesOK, NEW x \in charged
  PROVE  /\ Body(x[1]).traffic[x[2]].user \in Users
         /\ BytesOf[x] \in Int /\ BytesOf[x] = Body(x[1]).traffic[x[2]].bytes
  <1>1. Body(x[1]).traffic \in Seq(Entry) /\ x[2] \in DOMAIN Body(x[1]).traffic
    BY BodyType DEF ChargesOK
  <1>2. Body(x[1]).traffic[x[2]] \in Entry
    BY <1>1
  <1> QED BY <1>2 DEF BytesOf, Entry

\* A delivery that has charged keeps its body: only an idle handler binds one.
LEMMA StepKeepsBodies ==
  ASSUME IInv, NEW d \in Deliveries, Step(d), NEW e \in Deliveries
  PROVE  req'[e].body = req[e].body
  <1>1. PICK pc, at : Goto(d, pc, at)
    BY DEF Step, RegisterAgent, Stamp, AddVolume, Charge, WriteLog, ClearNodes, InsertNode
  <1> QED BY <1>1, GotoType DEF IInv

LEMMA BodiesStay ==
  ASSUME IInv, [Next]_vars, NEW x \in charged
  PROVE  Body(x[1])' = Body(x[1])
  <1> DEFINE e == x[1]
  <1>1. e \in Deliveries /\ req[e].pc # "idle"
    BY DEF IInv, TypeOK, ChargedBehind
  <1>2. CASE \E d \in Deliveries, a \in Agents, t \in 1 .. MaxTokens :
               Refuse(d, a, t) \/ \E b \in Bodies : Admit(d, a, t, b)
    <2>1. PICK d \in Deliveries : /\ req[d].pc = "idle"
                                  /\ \E h : req' = [req EXCEPT ![d] = h]
      BY <1>2 DEF Refuse, Admit, Goto
    <2> QED BY <1>1, <2>1 DEF Body, IInv, TypeOK
  <1>3. CASE \E d \in Deliveries : Step(d)
    BY <1>1, <1>3, StepKeepsBodies DEF Body
  <1>4. CASE Administer
    <2>1. UNCHANGED req
      BY <1>4 DEF Administer, CreateAgent, ResetToken, SetEnabled, DropNodes, DropLinks,
                  DropRow, ResetTraffic, DeleteUser
    <2> QED BY <2>1 DEF Body
  <1>5. CASE Crash
    <2>1. req'[e].body = req[e].body
      BY <1>1, <1>5 DEF Crash, IInv, TypeOK, Handler
    <2> QED BY <2>1 DEF Body
  <1>6. CASE Tick
    <2>1. req'[e].body = req[e].body
      BY <1>1, <1>6 DEF Tick, IInv, TypeOK, Handler
    <2> QED BY <2>1 DEF Body
  <1>7. CASE UNCHANGED vars
    BY <1>7 DEF vars, Body
  <1> QED BY <1>2, <1>3, <1>4, <1>5, <1>6, <1>7 DEF Next, Running

\* A step charges one entry, resets one user, or does neither.
Charges(d) == /\ Charge(d)
              /\ users' = [users EXCEPT ![EntryOf(d).user].used = @ + EntryOf(d).bytes]
              /\ charged' = charged \union {Position(d)} /\ wiped' = wiped
LeavesUsage == /\ UNCHANGED bill
               /\ \A u \in Users : users'[u].used = users[u].used

LEMMA UsageCases ==
  ASSUME TypeOK, [Next]_vars
  PROVE  \/ LeavesUsage
         \/ \E d \in Deliveries : Charges(d)
         \/ \E u \in Users : ResetTraffic(u)
  <1>1. CASE \E d \in Deliveries, a \in Agents, t \in 1 .. MaxTokens :
               Refuse(d, a, t) \/ \E b \in Bodies : Admit(d, a, t, b)
    BY <1>1 DEF Refuse, Admit, tables, history, LeavesUsage
  <1>2. CASE \E d \in Deliveries : Step(d)
    <2>1. PICK d \in Deliveries : Step(d)
      BY <1>2
    <2>2. CASE Charge(d)
      BY <2>2 DEF Charge, Charges, LeavesUsage, bill
    <2>3. CASE ~Charge(d)
      BY <2>1, <2>3 DEF Step, RegisterAgent, Stamp, AddVolume, WriteLog, ClearNodes,
                        InsertNode, LeavesUsage
    <2> QED BY <2>2, <2>3
  <1>3. CASE Administer
    <2>1. ASSUME NEW u \in Users, DeleteUser(u) PROVE LeavesUsage
      BY <2>1 DEF DeleteUser, history, LeavesUsage, TypeOK, UserRow
    <2>2. ASSUME NEW a \in Agents,
                 \/ CreateAgent(a) \/ ResetToken(a) \/ \E on \in BOOLEAN : SetEnabled(a, on)
                 \/ DropNodes(a) \/ DropLinks(a) \/ DropRow(a)
          PROVE  LeavesUsage
      BY <2>2 DEF CreateAgent, ResetToken, SetEnabled, DropNodes, DropLinks, DropRow,
                  tables, history, LeavesUsage
    <2> QED BY <1>3, <2>1, <2>2 DEF Administer
  <1>4. CASE Crash \/ Tick \/ UNCHANGED vars
    BY <1>4 DEF Crash, Tick, vars, tables, history, LeavesUsage
  <1> QED BY <1>1, <1>2, <1>3, <1>4 DEF Next, Running

LEMMA InitUsage == Init => UsageInv
  <1> SUFFICES ASSUME Init PROVE UsageInv
    OBVIOUS
  <1>1. charged = {} /\ wiped = {} /\ \A u \in Users : users[u].used = 0
    BY DEF Init
  <1>2. ChargesOK
    BY <1>1, FS_EmptySet DEF ChargesOK
  <1>3. \A u \in Users : ChargesOf(u) \ wiped = {}
    BY <1>1 DEF ChargesOf
  <1> QED BY <1>1, <1>2, <1>3, SumEmpty DEF UsageInv, UsageMatches

\* Nobody's sum changes if nobody's charges do.
LEMMA SumStays ==
  ASSUME IInv, ChargesOK, [Next]_vars, NEW u \in Users,
         charged \subseteq charged', ChargesOf(u)' \ wiped' = ChargesOf(u) \ wiped
  PROVE  SumFunctionOnSet(BytesOf', ChargesOf(u)' \ wiped')
           = SumFunctionOnSet(BytesOf, ChargesOf(u) \ wiped)
  <1> DEFINE S == ChargesOf(u) \ wiped
  <1>1. S \subseteq charged
    BY DEF ChargesOf
  <1>2. IsFiniteSet(S)
    BY <1>1, FS_Subset DEF ChargesOK
  <1>3. ASSUME NEW x \in S PROVE BytesOf[x] \in Int /\ BytesOf'[x] = BytesOf[x]
    BY <1>1, ChargedEntry, BodiesStay DEF BytesOf
  <1> HIDE DEF S
  <1>4. SumFunctionOnSet(BytesOf', S) = SumFunctionOnSet(BytesOf, S)
    BY <1>2, <1>3, SumSame
  <1> QED BY <1>4 DEF S

\* The UPDATE of an entry adds its bytes to the counter of its user, and the
\* entry to the charges of that user alone.
LEMMA ChargeUsage ==
  ASSUME IInv, UsageInv, NEW d \in Deliveries, Charges(d), [Next]_vars
  PROVE  UsageInv'
  <1> DEFINE p == Position(d)
             v == EntryOf(d).user
             n == EntryOf(d).bytes
  <1>1. /\ Body(d) \in Bodies /\ req[d].at \in DOMAIN Body(d).traffic
        /\ req[d].pc = "charge" /\ req[d].at \in Nat
    BY DEF Charges, Charge, IInv, HandlerOK, InFlight, Steps, TypeOK, Handler
  <1>2. v \in Users /\ n \in Int
    <2>1. Body(d).traffic \in Seq(Entry)
      BY <1>1, BodyType
    <2>2. EntryOf(d) \in Entry
      BY <1>1, <2>1 DEF EntryOf
    <2> QED BY <2>2 DEF Entry
  <1>3. p \notin charged
    BY <1>1 DEF IInv, ChargedBehind, Position
  <1>4. charged' = charged \union {p} /\ wiped' = wiped
    BY DEF Charges
  <1>5. Body(d)' = Body(d)
    BY StepKeepsBodies DEF Charges, Step, Body
  <1>6. \A x \in charged : Body(x[1])' = Body(x[1])
    BY BodiesStay
  <1>7. p[1] = d /\ p[2] = req[d].at
    BY DEF Position
  <1>8. ChargesOK'
    <2>1. IsFiniteSet(charged')
      BY <1>4, FS_AddElement DEF UsageInv, ChargesOK
    <2>2. ASSUME NEW x \in charged'
          PROVE  Body(x[1])' \in Bodies /\ x[2] \in DOMAIN Body(x[1])'.traffic
      BY <1>1, <1>4, <1>5, <1>6, <1>7 DEF UsageInv, ChargesOK
    <2> QED BY <1>4, <2>1, <2>2 DEF UsageInv, ChargesOK
  <1>9. \A u \in Users : ChargesOf(u)' = IF u = v THEN ChargesOf(u) \union {p} ELSE ChargesOf(u)
    BY <1>4, <1>5, <1>6, <1>7 DEF ChargesOf, EntryOf
  <1> HIDE DEF p
  <1>10. ASSUME NEW u \in Users
         PROVE  users'[u].used = SumFunctionOnSet(BytesOf', ChargesOf(u)' \ wiped')
    <2>1. users'[u].used = IF u = v THEN users[u].used + n ELSE users[u].used
      BY <1>2 DEF Charges, IInv, TypeOK, UserRow
    <2>2. users[u].used = SumFunctionOnSet(BytesOf, ChargesOf(u) \ wiped)
      BY DEF UsageInv, UsageMatches
    <2>3. CASE u # v
      <3>1. ChargesOf(u)' \ wiped' = ChargesOf(u) \ wiped
        BY <1>4, <1>9, <2>3
      <3> QED BY <1>4, <2>1, <2>2, <2>3, <3>1, SumStays DEF UsageInv
    <2>4. CASE u = v
      <3> DEFINE S == ChargesOf(u) \ wiped
                 w == BytesOf'
      <3>1. S \subseteq charged /\ p \notin S
        BY <1>3 DEF ChargesOf
      <3>2. IsFiniteSet(S)
        BY <3>1, FS_Subset DEF UsageInv, ChargesOK
      <3>3. ChargesOf(u)' \ wiped' = S \union {p}
        BY <1>3, <1>4, <1>9, <2>4 DEF UsageInv, ChargesOK
      <3>4. w[p] = n
        BY <1>4, <1>5, <1>7 DEF BytesOf, EntryOf
      <3>5. ASSUME NEW x \in S PROVE BytesOf[x] \in Int /\ w[x] = BytesOf[x]
        BY <1>4, <1>6, <3>1, ChargedEntry DEF BytesOf, UsageInv
      <3> HIDE DEF S, w
      <3>6. SumFunctionOnSet(w, S) = SumFunctionOnSet(BytesOf, S)
        BY <3>2, <3>5, SumSame
      <3>7. \A x \in S \union {p} : w[x] \in Int
        BY <1>2, <3>4, <3>5
      <3>8. /\ SumFunctionOnSet(w, S) \in Int
            /\ SumFunctionOnSet(w, S \union {p}) = w[p] + SumFunctionOnSet(w, S)
        BY <3>1, <3>2, <3>7, SumAdd DEF S
      <3>9. users'[u].used = SumFunctionOnSet(w, S) + n
        BY <2>1, <2>2, <2>4, <3>6 DEF S
      <3>10. users'[u].used = SumFunctionOnSet(w, S \union {p})
        BY <1>2, <3>4, <3>8, <3>9
      <3> QED BY <3>3, <3>10 DEF w
    <2> QED BY <2>3, <2>4
  <1> QED BY <1>8, <1>10 DEF UsageInv, UsageMatches

\* A reset clears one counter and wipes exactly the charges behind it.
LEMMA ResetUsage ==
  ASSUME IInv, UsageInv, NEW v \in Users, ResetTraffic(v), [Next]_vars
  PROVE  UsageInv'
  <1>1. /\ UNCHANGED <<req, charged>> /\ wiped' = wiped \union ChargesOf(v)
        /\ users' = [users EXCEPT ![v].used = 0]
    BY DEF ResetTraffic
  <1>2. ChargesOK'
    BY <1>1 DEF UsageInv, ChargesOK, ChargesOf, Body
  <1>3. \A u \in Users : ChargesOf(u)' = ChargesOf(u)
    BY <1>1 DEF ChargesOf, Body
  <1>4. ASSUME NEW u \in Users
        PROVE  users'[u].used = SumFunctionOnSet(BytesOf', ChargesOf(u)' \ wiped')
    <2>1. CASE u = v
      <3>1. ChargesOf(u)' \ wiped' = {}
        BY <1>1, <1>3, <2>1
      <3>2. users'[u].used = 0
        BY <1>1, <2>1 DEF IInv, TypeOK, UserRow
      <3> QED BY <3>1, <3>2, SumEmpty
    <2>2. CASE u # v
      <3>1. ChargesOf(u) \cap ChargesOf(v) = {}
        BY <2>2 DEF ChargesOf
      <3>2. ChargesOf(u)' \ wiped' = ChargesOf(u) \ wiped
        BY <1>1, <1>3, <3>1
      <3>3. users'[u].used = users[u].used
        BY <1>1, <2>2 DEF IInv, TypeOK, UserRow
      <3> QED BY <1>1, <3>2, <3>3, SumStays DEF UsageInv, UsageMatches
    <2> QED BY <2>1, <2>2
  <1> QED BY <1>2, <1>4 DEF UsageInv, UsageMatches

LEMMA NextUsage == IInv /\ UsageInv /\ [Next]_vars => UsageInv'
  <1> SUFFICES ASSUME IInv, UsageInv, [Next]_vars PROVE UsageInv'
    OBVIOUS
  <1>1. CASE LeavesUsage
    <2>1. charged' = charged /\ wiped' = wiped /\ \A u \in Users : users'[u].used = users[u].used
      BY <1>1 DEF LeavesUsage, bill
    <2>2. \A x \in charged : Body(x[1])' = Body(x[1])
      BY BodiesStay
    <2>3. ChargesOK'
      BY <2>1, <2>2 DEF UsageInv, ChargesOK
    <2>4. \A u \in Users : ChargesOf(u)' \ wiped' = ChargesOf(u) \ wiped
      BY <2>1, <2>2 DEF ChargesOf
    <2>5. UsageMatches'
      BY <2>1, <2>4, SumStays DEF UsageInv, UsageMatches
    <2> QED BY <2>3, <2>5 DEF UsageInv
  <1>2. CASE \E d \in Deliveries : Charges(d)
    BY <1>2, ChargeUsage
  <1>3. CASE \E u \in Users : ResetTraffic(u)
    BY <1>3, ResetUsage
  <1> QED BY <1>1, <1>2, <1>3, UsageCases DEF IInv

\* A user's counter is the sum of the entries charged to it since its last
\* reset, whatever overlaps, fails or crashes.
THEOREM UsageAlwaysMatches == Spec => []UsageMatches
  <1>1. UsageInv => UsageMatches
    BY DEF UsageInv
  <1> QED BY <1>1, InitInv, NextInv, InitUsage, NextUsage, PTL DEF Spec

=============================================================================
