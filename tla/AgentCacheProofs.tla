--------------------------- MODULE AgentCacheProofs ---------------------------
(***************************************************************************)
(* Theorems about AgentReport: what the node cache holds of the reports    *)
(* that wrote it, and what becomes of an agent that is shut out.           *)
(***************************************************************************)
EXTENDS AgentReportProofs

\* Where a handler may stand: it deletes nodes only if it has nodes to insert,
\* inserts one of them at a time, and its agent was in the table when it came.
PlaceOK ==
  \A d \in Deliveries :
    /\ req[d].pc = "clear" => Body(d).nodes \in Nat \ {0}
    /\ req[d].pc = "insert" => req[d].at \in 1 .. Body(d).nodes
    /\ InFlight(d) => agents[req[d].agent].row # "absent"

\* A cached node was inserted by its handler, which has gone no further back
\* since; its agent exists.
RowsHaveOrigin ==
  \A x \in cache :
    LET h == req[x[1]] IN
      /\ h.pc \in {"insert", "done", "lost"} /\ h.agent \in Agents
      /\ x[2] \in 1 .. h.body.nodes

\* An agent that has no row yet has used nothing.
NewAgentsUnused == \A a \in Agents : agents[a].row = "absent" => agents[a].used = 0

PlaceInv == PlaceOK /\ RowsHaveOrigin /\ NewAgentsUnused

-----------------------------------------------------------------------------
\* A statement moves its own handler on and leaves the others where they are.
LEMMA StepMoves ==
  ASSUME IInv, NEW d \in Deliveries, Step(d)
  PROVE  /\ InFlight(d) /\ req[d].agent \in Agents /\ Body(d) \in Bodies
         /\ \A e \in Deliveries : e # d => req'[e] = req[e]
         /\ req'[d].agent = req[d].agent /\ req'[d].body = req[d].body
         /\ failed \subseteq failed'
  <1> USE DEF IInv
  <1>1. InFlight(d)
    BY DEF Step, RegisterAgent, Stamp, AddVolume, Charge, WriteLog, ClearNodes,
           InsertNode, InFlight, Steps
  <1>2. PICK pc, at : Goto(d, pc, at)
    BY DEF Step, RegisterAgent, Stamp, AddVolume, Charge, WriteLog, ClearNodes, InsertNode
  <1>3. failed \subseteq failed'
    BY DEF Step, RegisterAgent, Stamp, AddVolume, Charge, WriteLog, ClearNodes,
           InsertNode, UpdateRow, Fails, Works
  <1> QED BY <1>1, <1>2, <1>3, GotoType DEF HandlerOK

\* Where a statement takes its handler: to "clear" only with nodes to insert,
\* and to "insert" only from there or from the node before.
LEMMA StepPlaces ==
  ASSUME IInv, PlaceOK, NEW d \in Deliveries, Step(d)
  PROVE  /\ req[d].pc \in {"clear", "insert"} =>
              req'[d].pc \in {"insert", "done"} /\ UNCHANGED <<agents, users, log, charged>>
         /\ req[d].pc \notin {"clear", "insert"} =>
              /\ req'[d].pc \notin {"idle", "refused", "insert"}
              /\ UNCHANGED <<cache, publisher>>
         /\ req'[d].pc = "clear" => Body(d).nodes \in Nat \ {0}
         /\ req'[d].pc = "insert" => req'[d].at \in 1 .. Body(d).nodes
         /\ req[d].pc = "insert" /\ req'[d].pc = "insert" => req'[d].at = req[d].at + 1
         /\ req[d].pc = "insert" /\ req'[d].pc = "done" => req[d].at = Body(d).nodes
         /\ req[d].pc = "clear" => req'[d].pc = "insert" /\ req'[d].at = 1
         /\ UNCHANGED <<removing, issued, dropped, crashes>>
  <1>1. Body(d) \in Bodies /\ Body(d).nodes \in Nat /\ TypeOK
    BY StepMoves, BodyType DEF IInv
  <1>2. \A pc, at : Goto(d, pc, at) => req'[d].pc = pc /\ req'[d].at = at
    BY <1>1, GotoType
  <1>3. AfterTraffic(Body(d)) = "clear" => Body(d).nodes \in Nat \ {0}
    BY <1>1 DEF AfterTraffic
  <1>4. AfterVolume(Body(d)) = "clear" => Body(d).nodes \in Nat \ {0}
    BY <1>3 DEF AfterVolume
  <1>5. AfterStamp(Body(d)) = "clear" => Body(d).nodes \in Nat \ {0}
    BY <1>4 DEF AfterStamp
  <1>6. CASE RegisterAgent(d)
    BY <1>2, <1>6 DEF RegisterAgent, bill, published
  <1>7. CASE Stamp(d)
    BY <1>1, <1>2, <1>5, <1>7, NextStatement DEF Stamp, bill, published
  <1>8. CASE AddVolume(d)
    BY <1>1, <1>2, <1>4, <1>8, NextStatement DEF AddVolume, bill, published
  <1>9. CASE Charge(d)
    BY <1>2, <1>9 DEF Charge, published
  <1>10. CASE WriteLog(d)
    BY <1>1, <1>2, <1>3, <1>10, NextStatement DEF WriteLog, bill, published
  <1>11. CASE ClearNodes(d)
    BY <1>1, <1>2, <1>11 DEF ClearNodes, bill, PlaceOK
  <1>12. CASE InsertNode(d)
    BY <1>1, <1>2, <1>12 DEF InsertNode, bill, published, PlaceOK
  <1> QED BY <1>6, <1>7, <1>8, <1>9, <1>10, <1>11, <1>12 DEF Step

\* A step that moves no handler onto or off the node statements, adds no row to
\* the cache, and takes no agent's row away, keeps what was said of them.
LEMMA PlaceKept ==
  ASSUME IInv, PlaceOK, RowsHaveOrigin, cache' \subseteq cache,
         \A d \in Deliveries :
           /\ req'[d].pc \in {"clear", "insert"} =>
                req'[d].pc = req[d].pc /\ req'[d].at = req[d].at
           /\ req[d].pc \in {"insert", "done", "lost"} =>
                req'[d].pc \in {"insert", "done", "lost"}
           /\ req[d].pc # "idle" =>
                req'[d].agent = req[d].agent /\ req'[d].body = req[d].body
           /\ InFlight(d)' => InFlight(d) \/ Live(req'[d].agent)
           /\ InFlight(d)' => req'[d].agent \in Agents,
         \A a \in Agents : agents'[a].row = "absent" => agents[a].row = "absent"
  PROVE  PlaceOK' /\ RowsHaveOrigin'
  <1>1. PlaceOK'
    <2> SUFFICES ASSUME NEW d \in Deliveries
                 PROVE  /\ req'[d].pc = "clear" => Body(d)'.nodes \in Nat \ {0}
                        /\ req'[d].pc = "insert" => req'[d].at \in 1 .. Body(d)'.nodes
                        /\ InFlight(d)' => agents'[req'[d].agent].row # "absent"
      BY DEF PlaceOK
    <2>1. req'[d].pc \in {"clear", "insert"} => req'[d].body = req[d].body
      OBVIOUS
    <2>2. InFlight(d) => req[d].pc # "idle" /\ agents[req[d].agent].row # "absent"
      BY DEF PlaceOK, InFlight, Steps
    <2>3. InFlight(d)' => agents'[req'[d].agent].row # "absent"
      BY <2>2 DEF Live
    <2> QED BY <2>1, <2>3 DEF PlaceOK, Body
  <1>2. RowsHaveOrigin'
    <2>1. \A x \in cache : x[1] \in Deliveries
      BY DEF IInv, TypeOK
    <2> QED BY <2>1 DEF RowsHaveOrigin
  <1> QED BY <1>1, <1>2

\* An UPDATE of a live row leaves it a row.
LEMMA UpdateKeepsRows ==
  ASSUME TypeOK, NEW a \in Agents, NEW new, NEW stmt, UpdateRow(a, new, stmt),
         new.row # "absent"
  PROVE  \A b \in Agents : agents'[b].row = "absent" <=> agents[b].row = "absent"
  <1>1. CASE agents' = agents
    BY <1>1
  <1>2. CASE Live(a) /\ agents' = [agents EXCEPT ![a] = new]
    BY <1>2 DEF TypeOK, Live
  <1> QED BY <1>1, <1>2 DEF UpdateRow

\* No statement of a handler makes a row, or unmakes one.
LEMMA StepKeepsRows ==
  ASSUME IInv, PlaceOK, NEW d \in Deliveries, Step(d)
  PROVE  \A b \in Agents : agents'[b].row = "absent" <=> agents[b].row = "absent"
  <1> DEFINE a == req[d].agent
  <1>1. TypeOK /\ a \in Agents /\ agents[a] \in AgentRow /\ agents[a].row # "absent"
    BY StepMoves DEF IInv, TypeOK, PlaceOK
  <1>2. CASE RegisterAgent(d)
    <2> DEFINE new == [agents[a] EXCEPT !.status = "online"]
    <2>1. new.row # "absent" /\ UpdateRow(a, new, <<d, "register">>)
      BY <1>1, <1>2 DEF RegisterAgent, AgentRow
    <2> HIDE DEF new
    <2> QED BY <1>1, <2>1, UpdateKeepsRows
  <1>3. CASE Stamp(d)
    <2> DEFINE new == [agents[a] EXCEPT !.status = Body(d).status, !.seen = req[d].age]
    <2>1. new.row # "absent" /\ UpdateRow(a, new, <<d, "stamp">>)
      BY <1>1, <1>3 DEF Stamp, AgentRow
    <2> HIDE DEF new
    <2> QED BY <1>1, <2>1, UpdateKeepsRows
  <1>4. CASE AddVolume(d)
    <2> DEFINE new == [agents[a] EXCEPT !.used = @ + Body(d).up + Body(d).down]
    <2>1. new.row # "absent" /\ UpdateRow(a, new, <<d, "volume">>)
      BY <1>1, <1>4 DEF AddVolume, AgentRow
    <2> HIDE DEF new
    <2> QED BY <1>1, <2>1, UpdateKeepsRows
  <1>5. CASE Charge(d) \/ WriteLog(d) \/ ClearNodes(d) \/ InsertNode(d)
    BY <1>5 DEF Charge, WriteLog, ClearNodes, InsertNode
  <1> QED BY <1>2, <1>3, <1>4, <1>5 DEF Step

\* An UPDATE that finds no row changes none.
LEMMA UpdateMissesAbsent ==
  ASSUME TypeOK, NEW a \in Agents, NEW new, NEW stmt, UpdateRow(a, new, stmt)
  PROVE  \A b \in Agents : ~Live(b) => agents'[b] = agents[b]
  BY DEF UpdateRow, Works, Live, TypeOK

LEMMA StepPlaceInv ==
  ASSUME IInv, PlaceInv, NEW d \in Deliveries, Step(d)
  PROVE  PlaceInv'
  <1> USE DEF PlaceInv
  <1>1. NewAgentsUnused'
    <2>1. \A b \in Agents : ~Live(b) => agents'[b] = agents[b]
      <3>1. req[d].agent \in Agents /\ TypeOK
        BY StepMoves DEF IInv
      <3>2. CASE RegisterAgent(d) \/ Stamp(d) \/ AddVolume(d)
        BY <3>1, <3>2, UpdateMissesAbsent DEF RegisterAgent, Stamp, AddVolume
      <3>3. CASE Charge(d) \/ WriteLog(d) \/ ClearNodes(d) \/ InsertNode(d)
        BY <3>3 DEF Charge, WriteLog, ClearNodes, InsertNode
      <3> QED BY <3>2, <3>3 DEF Step
    <2> QED BY <2>1, StepKeepsRows DEF NewAgentsUnused, Live
  <1>2. \A b \in Agents : agents'[b].row = "absent" <=> agents[b].row = "absent"
    BY StepKeepsRows
  <1>3. PlaceOK'
    <2> SUFFICES ASSUME NEW e \in Deliveries
                 PROVE  /\ req'[e].pc = "clear" => Body(e)'.nodes \in Nat \ {0}
                        /\ req'[e].pc = "insert" => req'[e].at \in 1 .. Body(e)'.nodes
                        /\ InFlight(e)' => agents'[req'[e].agent].row # "absent"
      BY DEF PlaceOK
    <2>1. CASE e # d
      <3>1. req'[e] = req[e] /\ (InFlight(e) => req[e].agent \in Agents)
        BY <2>1, StepMoves DEF IInv, HandlerOK
      <3> QED BY <1>2, <3>1 DEF PlaceOK, InFlight, Body
    <2>2. CASE e = d
      BY <1>2, <2>2, StepMoves, StepPlaces DEF PlaceOK, Body
    <2> QED BY <2>1, <2>2
  <1>4. RowsHaveOrigin'
    <2>1. cache \subseteq Deliveries \X Nat
      BY DEF IInv, TypeOK
    <2>2. CASE InsertNode(d)
      <3>1. cache' \subseteq cache \union {Position(d)}
        BY <2>2 DEF InsertNode
      <3>2. req[d].pc = "insert" /\ req[d].at \in 1 .. Body(d).nodes
        BY <2>2 DEF InsertNode, PlaceOK
      <3> SUFFICES ASSUME NEW x \in cache'
                   PROVE  /\ req'[x[1]].pc \in {"insert", "done", "lost"}
                          /\ req'[x[1]].agent \in Agents /\ x[2] \in 1 .. req'[x[1]].body.nodes
        BY DEF RowsHaveOrigin
      <3>3. CASE x = Position(d)
        BY <3>2, <3>3, StepMoves, StepPlaces DEF Position, Body
      <3>4. CASE x \in cache /\ x[1] = d
        BY <3>2, <3>4, StepMoves, StepPlaces DEF RowsHaveOrigin
      <3>5. CASE x \in cache /\ x[1] # d
        BY <2>1, <3>5, StepMoves DEF RowsHaveOrigin
      <3> QED BY <3>1, <3>3, <3>4, <3>5
    <2>3. CASE ~InsertNode(d)
      <3>1. cache' \subseteq cache /\ req[d].pc \in Steps \ {"insert"}
        BY <2>3 DEF Step, RegisterAgent, Stamp, AddVolume, Charge, WriteLog, ClearNodes,
                    RowsOf, Steps
      <3>2. \A x \in cache : x[1] # d
        BY <3>1 DEF RowsHaveOrigin, Steps
      <3> QED BY <2>1, <3>1, <3>2, StepMoves DEF RowsHaveOrigin
    <2> QED BY <2>2, <2>3
  <1> QED BY <1>1, <1>3, <1>4

LEMMA AdministerPlaceInv ==
  ASSUME IInv, PlaceInv, Administer
  PROVE  PlaceInv'
  <1> USE DEF PlaceInv
  <1>0. TypeOK
    BY DEF IInv
  <1>1. req' = req /\ cache' \subseteq cache
    BY DEF Administer, CreateAgent, ResetToken, SetEnabled, DropNodes, DropLinks, DropRow,
           ResetTraffic, DeleteUser, tables, RowsOf
  <1>2. \A b \in Agents : /\ agents'[b].row = "absent" => agents[b].row = "absent"
                          /\ agents'[b].row = "absent" => agents'[b].used = 0
    <2>1. ASSUME NEW a \in Agents, CreateAgent(a)
          PROVE  \A b \in Agents : b # a => agents'[b] = agents[b]
      BY <2>1, <1>0 DEF CreateAgent, TypeOK
    <2>2. ASSUME NEW a \in Agents, CreateAgent(a)
          PROVE  agents'[a].row = "live"
      BY <2>2, <1>0 DEF CreateAgent, TypeOK, FreshAgent
    <2>3. ASSUME NEW a \in Agents, NEW new \in AgentRow, NEW stmt, UpdateRow(a, new, stmt),
                 new.row # "absent"
          PROVE  \A b \in Agents : /\ agents'[b].row = "absent" => agents[b].row = "absent"
                                   /\ agents'[b].row = "absent" => agents'[b].used = 0
      <3>1. \A b \in Agents : /\ agents'[b].row = "absent" <=> agents[b].row = "absent"
                              /\ ~Live(b) => agents'[b] = agents[b]
        BY <1>0, <2>3, UpdateKeepsRows, UpdateMissesAbsent
      <3> QED BY <3>1 DEF NewAgentsUnused, Live
    <2>4. ASSUME NEW a \in Agents
          PROVE  /\ \A on \in BOOLEAN : Live(a) =>
                      /\ [agents[a] EXCEPT !.enabled = on] \in AgentRow
                      /\ [agents[a] EXCEPT !.enabled = on].row # "absent"
                 /\ Live(a) =>
                      /\ [agents[a] EXCEPT !.token = issued[a] + 1] \in AgentRow
                      /\ [agents[a] EXCEPT !.token = issued[a] + 1].row # "absent"
                 /\ [agents[a] EXCEPT !.row = "deleted"] \in AgentRow
                 /\ [agents[a] EXCEPT !.row = "deleted"].row # "absent"
      <3>1. agents[a] \in AgentRow /\ issued[a] \in Nat
        BY <1>0 DEF TypeOK
      <3> QED BY <3>1 DEF AgentRow, Live
    <2>5. ASSUME NEW a \in Agents, ResetToken(a) \/ (\E on \in BOOLEAN : SetEnabled(a, on))
                                   \/ DropRow(a)
          PROVE  \A b \in Agents : /\ agents'[b].row = "absent" => agents[b].row = "absent"
                                   /\ agents'[b].row = "absent" => agents'[b].used = 0
      BY <2>3, <2>4, <2>5 DEF ResetToken, SetEnabled, DropRow
    <2>6. ASSUME NEW a \in Agents, DropNodes(a) \/ DropLinks(a)
          PROVE  agents' = agents
      BY <2>6 DEF DropNodes, DropLinks, tables
    <2>7. ASSUME NEW u \in Users, ResetTraffic(u) \/ DeleteUser(u)
          PROVE  agents' = agents
      BY <2>7 DEF ResetTraffic, DeleteUser
    <2> QED BY <2>1, <2>2, <2>5, <2>6, <2>7 DEF Administer, NewAgentsUnused
  <1>3. \A d \in Deliveries : InFlight(d)' => InFlight(d) /\ req[d].agent \in Agents
    BY <1>1 DEF IInv, HandlerOK, InFlight
  <1>4. PlaceOK' /\ RowsHaveOrigin'
    BY <1>1, <1>2, <1>3, PlaceKept
  <1> QED BY <1>2, <1>4 DEF NewAgentsUnused

LEMMA InitPlaceInv == Init => PlaceInv
  <1> SUFFICES ASSUME Init PROVE PlaceInv
    OBVIOUS
  <1>1. \A d \in Deliveries : req[d].pc = "idle"
    BY DEF Init, Idle
  <1>2. \A a \in Agents : agents[a].used = 0
    BY DEF Init, FreshAgent, NoAgent
  <1> QED BY <1>1, <1>2 DEF Init, PlaceInv, PlaceOK, RowsHaveOrigin, NewAgentsUnused,
                            InFlight, Steps

LEMMA NextPlaceInv == IInv /\ PlaceInv /\ [Next]_vars => PlaceInv'
  <1> SUFFICES ASSUME IInv, PlaceInv, [Next]_vars PROVE PlaceInv'
    OBVIOUS
  <1> USE DEF PlaceInv
  <1>1. ASSUME NEW d \in Deliveries, NEW a \in Agents, NEW t \in 1 .. MaxTokens,
               Refuse(d, a, t) \/ \E b \in Bodies : Admit(d, a, t, b)
        PROVE  PlaceInv'
    <2>1. req[d].pc = "idle" /\ UNCHANGED <<agents, cache>>
      BY <1>1 DEF Refuse, Admit, tables
    <2>2. \A e \in Deliveries : e # d => req'[e] = req[e]
      BY <1>1 DEF Refuse, Admit, Goto, IInv, TypeOK
    <2>3. \/ req'[d].pc = "refused"
          \/ Live(a) /\ req'[d].pc \in {"register", "stamp"} /\ req'[d].agent = a
      <3>1. CASE Refuse(d, a, t)
        BY <3>1, GotoType DEF Refuse, IInv
      <3>2. CASE \E b \in Bodies : Admit(d, a, t, b)
        BY <3>2, NextStatement DEF Admit, Accepts, IInv, TypeOK
      <3> QED BY <1>1, <3>1, <3>2
    <2>4. PlaceOK' /\ RowsHaveOrigin'
      <3>1. \A e \in Deliveries : InFlight(e)' => /\ InFlight(e) \/ Live(req'[e].agent)
                                                  /\ req'[e].agent \in Agents
        BY <2>2, <2>3 DEF InFlight, Steps, IInv, HandlerOK
      <3> QED BY <2>1, <2>2, <2>3, <3>1, PlaceKept
    <2> QED BY <2>1, <2>4 DEF NewAgentsUnused
  <1>2. CASE \E d \in Deliveries : Step(d)
    BY <1>2, StepPlaceInv
  <1>3. CASE Administer
    BY <1>3, AdministerPlaceInv
  <1>4. CASE Crash
    <2>1. UNCHANGED <<agents, cache>>
      BY <1>4 DEF Crash, tables
    <2>2. \A d \in Deliveries : /\ ~InFlight(d) => req'[d] = req[d]
                                /\ InFlight(d) => req'[d] = [req[d] EXCEPT !.pc = "lost"]
      BY <1>4 DEF Crash
    <2>3. \A d \in Deliveries : /\ req[d] \in Handler
                                /\ req'[d].agent = req[d].agent /\ req'[d].body = req[d].body
                                /\ req'[d].pc = IF InFlight(d) THEN "lost" ELSE req[d].pc
      <3> TAKE d \in Deliveries
      <3>1. req[d] \in Handler
        BY DEF IInv, TypeOK
      <3>2. CASE InFlight(d)
        BY <2>2, <3>1, <3>2 DEF Handler
      <3> QED BY <2>2, <3>1, <3>2
    <2>4. \A d \in Deliveries : ~InFlight(d)'
      BY <2>3 DEF InFlight, Steps
    <2>5. PlaceOK' /\ RowsHaveOrigin'
      BY <2>1, <2>3, <2>4, PlaceKept DEF InFlight, Steps
    <2> QED BY <2>1, <2>5 DEF NewAgentsUnused
  <1>5. CASE Tick
    <2>1. cache' = cache
      BY <1>5 DEF Tick
    <2>2. \A a \in Agents : agents'[a].row = agents[a].row /\ agents'[a].used = agents[a].used
      <3> TAKE a \in Agents
      <3>1. agents[a] \in AgentRow
        BY DEF IInv, TypeOK
      <3> QED BY <1>5, <3>1 DEF Tick, AgentRow
    <2>3. \A d \in Deliveries : /\ req'[d].pc = req[d].pc /\ req'[d].at = req[d].at
                                /\ req'[d].agent = req[d].agent /\ req'[d].body = req[d].body
      <3> TAKE d \in Deliveries
      <3>1. req[d] \in Handler
        BY DEF IInv, TypeOK
      <3> QED BY <1>5, <3>1 DEF Tick, Handler
    <2>4. \A d \in Deliveries : InFlight(d)' => InFlight(d) /\ req'[d].agent \in Agents
      BY <2>3 DEF InFlight, IInv, HandlerOK
    <2>5. PlaceOK' /\ RowsHaveOrigin'
      BY <2>1, <2>2, <2>3, <2>4, PlaceKept
    <2> QED BY <2>2, <2>5 DEF NewAgentsUnused
  <1>6. CASE UNCHANGED vars
    BY <1>6 DEF vars, tables, PlaceOK, RowsHaveOrigin, NewAgentsUnused, InFlight, Body
  <1> QED BY <1>1, <1>2, <1>3, <1>4, <1>5, <1>6 DEF Next, Running

-----------------------------------------------------------------------------
\* An agent that waits for its answers has one request in progress at most.
OneAtATime ==
  \A d, e \in Deliveries :
    InFlight(d) /\ InFlight(e) /\ req[d].agent = req[e].agent => d = e

\* Who inserts has cleared before, or its DELETE failed.
InserterPublishes ==
  \A d \in Deliveries :
    req[d].pc = "insert" => publisher[req[d].agent] = d \/ <<d, "clear">> \in failed

\* What the report that last cleared an agent's nodes has put there so far.
Publishes(a, d) ==
  /\ req[d].agent = a /\ req[d].pc \in {"insert", "done", "lost"}
  /\ d \notin dropped /\ Undisturbed(d) =>
       /\ req[d].pc = "insert" => RowsOf(a) = Cached(d, req[d].at - 1)
       /\ req[d].pc = "done" => RowsOf(a) = Cached(d, Body(d).nodes)
PublisherInv ==
  \A a \in Agents, d \in Deliveries : publisher[a] = d => Publishes(a, d)

CacheInv == OneAtATime /\ InserterPublishes /\ CacheOfOneReport /\ PublisherInv

-----------------------------------------------------------------------------
\* The cached rows of an agent depend on the cache and on who sent what.
LEMMA RowsKept ==
  ASSUME \A x \in cache : req'[x[1]].agent = req[x[1]].agent, cache' = cache
  PROVE  \A a \in Agents : RowsOf(a)' = RowsOf(a)
  BY DEF RowsOf

\* A step that leaves the cache alone keeps what is known of it, as long as no
\* handler begins to insert and the handlers that inserted stay or are lost.
LEMMA CacheKept ==
  ASSUME IInv, RowsHaveOrigin, InserterPublishes, CacheOfOneReport, PublisherInv,
         UNCHANGED <<cache, publisher>>,
         dropped \subseteq dropped', failed \subseteq failed',
         \A d \in Deliveries :
           /\ req'[d].pc = "insert" => req[d].pc = "insert"
           /\ req[d].pc \in {"insert", "done", "lost"} =>
                /\ req'[d].pc \in {req[d].pc, "lost"} /\ req'[d].at = req[d].at
                /\ req'[d].agent = req[d].agent /\ req'[d].body = req[d].body
  PROVE  InserterPublishes' /\ CacheOfOneReport' /\ PublisherInv'
  <1>1. \A x \in cache : x[1] \in Deliveries
    BY DEF IInv, TypeOK
  <1>2. \A a \in Agents : RowsOf(a)' = RowsOf(a)
    BY <1>1, RowsKept DEF RowsHaveOrigin
  <1>3. InserterPublishes'
    BY DEF InserterPublishes
  <1>4. CacheOfOneReport'
    BY <1>2 DEF CacheOfOneReport
  <1>5. PublisherInv'
    <2> SUFFICES ASSUME NEW a \in Agents, NEW d \in Deliveries, publisher[a] = d
                 PROVE  Publishes(a, d)'
      BY DEF PublisherInv
    <2>1. Publishes(a, d)
      BY DEF PublisherInv
    <2>2. /\ req'[d].pc \in {req[d].pc, "lost"} /\ req'[d].at = req[d].at
          /\ req'[d].agent = req[d].agent /\ req'[d].body = req[d].body
      BY <2>1 DEF Publishes
    <2>3. Undisturbed(d)' => Undisturbed(d) /\ req'[d].pc = req[d].pc
      BY <2>2 DEF Undisturbed
    <2> QED BY <1>2, <2>1, <2>2, <2>3 DEF Publishes, Body, Cached
  <1> QED BY <1>3, <1>4, <1>5

\* A step after which nobody is in progress who was not before.
LEMMA OneAtATimeKept ==
  ASSUME OneAtATime,
         \A d \in Deliveries : InFlight(d)' => InFlight(d) /\ req'[d].agent = req[d].agent
  PROVE  OneAtATime'
  BY DEF OneAtATime

\* The DELETE of a report makes it the publisher of its agent's nodes, of
\* which it has none yet; or it fails, and that stays on record.
LEMMA ClearNodesCache ==
  ASSUME IInv, PlaceInv, CacheInv, NEW d \in Deliveries, ClearNodes(d)
  PROVE  InserterPublishes' /\ CacheOfOneReport' /\ PublisherInv'
  <1> USE DEF CacheInv, PlaceInv
  <1> DEFINE a == req[d].agent
  <1>0. Step(d) /\ req[d].pc = "clear"
    BY DEF Step, ClearNodes
  <1>1. /\ a \in Agents /\ InFlight(d) /\ failed \subseteq failed'
        /\ \A e \in Deliveries : e # d => req'[e] = req[e]
        /\ req'[d].agent = a /\ req'[d].body = req[d].body
        /\ req'[d].pc = "insert" /\ req'[d].at = 1 /\ dropped' = dropped
    BY <1>0, StepMoves, StepPlaces
  <1>2. /\ \A x \in cache : x[1] \in Deliveries /\ x[1] # d
        /\ \A b \in Agents : publisher[b] # d
    BY <1>0 DEF RowsHaveOrigin, PublisherInv, Publishes, IInv, TypeOK
  <1>3. \A e \in Deliveries : e # d /\ req[e].pc = "insert" => req[e].agent # a
    BY <1>0, <1>1 DEF OneAtATime, InFlight, Steps
  <1>4. publisher \in [Agents -> Deliveries \union {None}] /\ None \notin Deliveries
    BY NoneAssumption DEF IInv, TypeOK
  <1>5. CASE <<d, "clear">> \in failed' /\ UNCHANGED <<cache, publisher>>
    <2>1. \A b \in Agents : RowsOf(b)' = RowsOf(b)
      BY <1>1, <1>2, <1>5, RowsKept
    <2>2. InserterPublishes'
      BY <1>1, <1>5 DEF InserterPublishes
    <2>3. CacheOfOneReport'
      BY <1>1, <1>5, <2>1 DEF CacheOfOneReport
    <2>4. PublisherInv'
      <3> SUFFICES ASSUME NEW b \in Agents, NEW e \in Deliveries, publisher[b] = e
                   PROVE  Publishes(b, e)'
        BY <1>5 DEF PublisherInv
      <3>1. e # d /\ Publishes(b, e)
        BY <1>2 DEF PublisherInv
      <3>2. ~Undisturbed(e)'
        BY <1>5 DEF Undisturbed
      <3> QED BY <1>1, <3>1, <3>2 DEF Publishes
    <2> QED BY <2>2, <2>3, <2>4
  <1>6. CASE cache' = cache \ RowsOf(a) /\ publisher' = [publisher EXCEPT ![a] = d]
    <2>1. publisher'[a] = d /\ \A b \in Agents : b # a => publisher'[b] = publisher[b]
      BY <1>1, <1>4, <1>6
    <2>2. RowsOf(a)' = {} /\ \A b \in Agents : b # a => RowsOf(b)' = RowsOf(b)
      BY <1>1, <1>2, <1>6 DEF RowsOf
    <2>3. InserterPublishes'
      <3> SUFFICES ASSUME NEW e \in Deliveries, req'[e].pc = "insert"
                   PROVE  publisher'[req'[e].agent] = e \/ <<e, "clear">> \in failed'
        BY DEF InserterPublishes
      <3>1. CASE e = d
        BY <1>1, <2>1, <3>1
      <3>2. CASE e # d
        <4>1. req[e].pc = "insert" /\ req'[e].agent = req[e].agent /\ req[e].agent # a
          BY <1>1, <1>3, <3>2
        <4>2. req[e].agent \in Agents
          BY <4>1 DEF IInv, HandlerOK, InFlight, Steps
        <4> QED BY <1>1, <2>1, <4>1, <4>2 DEF InserterPublishes
      <3> QED BY <3>1, <3>2
    <2>4. CacheOfOneReport'
      BY <1>1, <2>1, <2>2 DEF CacheOfOneReport
    <2>5. PublisherInv'
      <3> SUFFICES ASSUME NEW b \in Agents, NEW e \in Deliveries, publisher'[b] = e
                   PROVE  Publishes(b, e)'
        BY DEF PublisherInv
      <3>1. CASE b = a
        <4>1. Cached(d, 0) = {} /\ e = d
          BY <2>1, <3>1 DEF Cached
        <4> QED BY <1>1, <2>1, <2>2, <3>1, <4>1 DEF Publishes, Cached
      <3>2. CASE b # a
        <4>1. publisher[b] = e /\ e # d /\ Publishes(b, e)
          BY <1>2, <2>1, <3>2 DEF PublisherInv
        <4>2. req'[e] = req[e] /\ (Undisturbed(e)' => Undisturbed(e)) /\ Body(e)' = Body(e)
          BY <1>1, <4>1 DEF Undisturbed, Body
        <4> QED BY <1>1, <2>2, <3>2, <4>1, <4>2 DEF Publishes, Cached
      <3> QED BY <3>1, <3>2
    <2> QED BY <2>3, <2>4, <2>5
  <1> QED BY <1>5, <1>6 DEF ClearNodes, Fails

\* An INSERT adds the node at the handler's position; its error stays on
\* record, and so does that of the DELETE of an inserter that is no publisher.
LEMMA InsertNodeCache ==
  ASSUME IInv, PlaceInv, CacheInv, NEW d \in Deliveries, InsertNode(d),
         NEW a, a = req[d].agent, NEW n, n = req[d].at
  PROVE  InserterPublishes' /\ CacheOfOneReport' /\ PublisherInv'
  <1> USE DEF CacheInv, PlaceInv
  <1>0. Step(d) /\ req[d].pc = "insert"
    BY DEF Step, InsertNode
  <1>1. /\ a \in Agents /\ failed \subseteq failed'
        /\ \A e \in Deliveries : e # d => req'[e] = req[e]
        /\ req'[d].agent = a /\ req'[d].body = req[d].body
        /\ \/ req'[d].pc = "insert" /\ req'[d].at = n + 1
           \/ req'[d].pc = "done" /\ n = Body(d).nodes
        /\ dropped' = dropped /\ publisher' = publisher
    BY <1>0, StepMoves, StepPlaces DEF InsertNode, published
  <1>2. \A e \in Deliveries : req'[e].agent = req[e].agent /\ req'[e].body = req[e].body
    BY <1>1
  <1>3. \A x \in cache : x[1] \in Deliveries
    BY DEF IInv, TypeOK
  <1>4. InserterPublishes'
    BY <1>0, <1>1, <1>2 DEF InserterPublishes
  <1>5. publisher[a] = d \/ <<d, "clear">> \in failed
    BY <1>0 DEF InserterPublishes
  <1>6. n \in 1 .. Body(d).nodes
    BY <1>0 DEF PlaceOK
  <1>7. CASE <<d, "insert", n>> \in failed' /\ cache' = cache
    <2>1. \A b \in Agents : RowsOf(b)' = RowsOf(b)
      BY <1>2, <1>3, <1>7, RowsKept
    <2>2. CacheOfOneReport'
      BY <1>1, <2>1 DEF CacheOfOneReport
    <2>3. PublisherInv'
      <3> SUFFICES ASSUME NEW b \in Agents, NEW e \in Deliveries, publisher[b] = e
                   PROVE  Publishes(b, e)'
        BY <1>1 DEF PublisherInv
      <3>1. Publishes(b, e)
        BY DEF PublisherInv
      <3>2. CASE e = d
        <4>1. ~Undisturbed(e)'
          BY <1>7, <3>2 DEF Undisturbed
        <4> QED BY <1>1, <3>1, <3>2, <4>1 DEF Publishes
      <3>3. CASE e # d
        <4>1. Undisturbed(e)' => Undisturbed(e)
          BY <1>1, <3>3 DEF Undisturbed
        <4> QED BY <1>1, <2>1, <3>1, <3>3, <4>1 DEF Publishes, Cached, Body
      <3> QED BY <3>2, <3>3
    <2> QED BY <1>4, <2>2, <2>3
  <1>8. CASE failed' = failed /\ cache' = cache \union {<<d, n>>}
    <2>1. /\ RowsOf(a)' = RowsOf(a) \union {<<d, n>>}
          /\ \A b \in Agents : b # a => RowsOf(b)' = RowsOf(b)
      BY <1>2, <1>3, <1>8 DEF RowsOf
    <2>2. CacheOfOneReport'
      <3> SUFFICES ASSUME NEW b \in Agents, NEW x \in RowsOf(b)'
                   PROVE  x[1] = publisher'[b] \/ <<x[1], "clear">> \in failed'
        BY DEF CacheOfOneReport
      <3>1. x \in RowsOf(b) \/ (b = a /\ x = <<d, n>>)
        BY <2>1
      <3> QED BY <1>1, <1>5, <1>8, <3>1 DEF CacheOfOneReport
    <2>3. PublisherInv'
      <3> SUFFICES ASSUME NEW b \in Agents, NEW e \in Deliveries, publisher[b] = e
                   PROVE  Publishes(b, e)'
        BY <1>1 DEF PublisherInv
      <3>1. Publishes(b, e)
        BY DEF PublisherInv
      <3>2. CASE e = d
        <4>1. b = a
          BY <3>1, <3>2 DEF Publishes
        <4>2. Undisturbed(d)' => Undisturbed(d)
          BY <1>0, <1>8 DEF Undisturbed
        <4>3. Cached(d, n - 1) \union {<<d, n>>} = Cached(d, n)
          <5>1. n \in Nat \ {0}
            BY DEF IInv, TypeOK, Handler
          <5>2. (1 .. n - 1) \union {n} = 1 .. n
            BY <5>1
          <5> QED BY <5>2 DEF Cached
        <4>4. n \in Nat
          BY DEF IInv, TypeOK, Handler
        <4>5. d \notin dropped /\ Undisturbed(d)' => RowsOf(a)' = Cached(d, n)
          BY <1>0, <2>1, <3>1, <3>2, <4>1, <4>2, <4>3 DEF Publishes
        <4>6. CASE req'[d].pc = "insert" /\ req'[d].at = n + 1
          <5>1. d \notin dropped' /\ Undisturbed(d)' => RowsOf(a)' = Cached(d, req'[d].at - 1)
            <6>1. req'[d].at - 1 = n
              BY <4>4, <4>6
            <6> QED BY <1>1, <4>5, <6>1
          <5> QED BY <1>1, <3>2, <4>1, <4>6, <5>1 DEF Publishes, Cached
        <4>7. CASE req'[d].pc = "done" /\ n = Body(d).nodes
          <5>1. d \notin dropped' /\ Undisturbed(d)' => RowsOf(a)' = Cached(d, Body(d)'.nodes)
            BY <1>1, <4>5, <4>7 DEF Body
          <5> QED BY <1>1, <3>2, <4>1, <4>7, <5>1 DEF Publishes, Cached
        <4> QED BY <1>1, <4>6, <4>7
      <3>3. CASE e # d
        <4>1. Undisturbed(e)' => Undisturbed(e) /\ b # a
          <5>1. Undisturbed(e)' => Undisturbed(e) /\ <<d, "clear">> \notin failed
            BY <1>1, <1>8, <3>3 DEF Undisturbed
          <5> QED BY <1>5, <3>3, <5>1
        <4> QED BY <1>1, <2>1, <3>1, <3>3, <4>1 DEF Publishes, Cached, Body
      <3> QED BY <3>2, <3>3
    <2> QED BY <1>4, <2>2, <2>3
  <1> QED BY <1>7, <1>8 DEF InsertNode, Fails, Works, Position

\* Every statement of a handler.
LEMMA StepCacheInv ==
  ASSUME IInv, PlaceInv, CacheInv, NEW d \in Deliveries, Step(d)
  PROVE  CacheInv'
  <1> USE DEF CacheInv, PlaceInv
  <1>1. OneAtATime'
    <2>1. \A e \in Deliveries : InFlight(e)' => InFlight(e) /\ req'[e].agent = req[e].agent
      BY StepMoves DEF InFlight
    <2> QED BY <2>1, OneAtATimeKept
  <1>2. CASE ClearNodes(d) \/ InsertNode(d)
    BY <1>1, <1>2, ClearNodesCache, InsertNodeCache
  <1>3. CASE ~(ClearNodes(d) \/ InsertNode(d))
    <2>1. req[d].pc \in Steps \ {"clear", "insert"}
      BY <1>3 DEF Step, RegisterAgent, Stamp, AddVolume, Charge, WriteLog, Steps
    <2>2. /\ UNCHANGED <<cache, publisher, dropped>> /\ failed \subseteq failed'
          /\ req'[d].pc # "insert"
          /\ \A e \in Deliveries : e # d => req'[e] = req[e]
      BY <2>1, StepMoves, StepPlaces
    <2>3. req[d].pc \notin {"insert", "done", "lost"}
      BY <2>1 DEF Steps
    <2>4. \A e \in Deliveries :
            /\ req'[e].pc = "insert" => req[e].pc = "insert"
            /\ req[e].pc \in {"insert", "done", "lost"} => req'[e] = req[e]
      BY <2>2, <2>3
    <2>5. InserterPublishes' /\ CacheOfOneReport' /\ PublisherInv'
      BY <2>2, <2>4, CacheKept
    <2> QED BY <1>1, <2>5
  <1> QED BY <1>2, <1>3

\* An agent that waits for its answer is admitted only when it has nothing in
\* progress.
LEMMA AuthCacheInv ==
  ASSUME Serial, IInv, PlaceInv, CacheInv,
         NEW d \in Deliveries, NEW a \in Agents, NEW t,
         Refuse(d, a, t) \/ \E b \in Bodies : Admit(d, a, t, b)
  PROVE  CacheInv'
  <1> USE DEF CacheInv, PlaceInv
  <1>1. req[d].pc = "idle" /\ UNCHANGED <<cache, publisher, dropped, failed>>
    BY DEF Refuse, Admit, tables, history, published
  <1>2. \A e \in Deliveries : e # d => req'[e] = req[e]
    BY DEF Refuse, Admit, Goto, IInv, TypeOK
  <1>3. \/ req'[d].pc = "refused"
        \/ req'[d].pc \in {"register", "stamp"} /\ req'[d].agent = a /\ ~Busy(a)
    <2>1. CASE Refuse(d, a, t)
      BY <2>1, GotoType DEF Refuse, IInv
    <2>2. CASE \E b \in Bodies : Admit(d, a, t, b)
      BY <2>2, NextStatement DEF Admit, IInv, TypeOK
    <2> QED BY <2>1, <2>2
  <1>4. \A e \in Deliveries :
          /\ req'[e].pc = "insert" => req[e].pc = "insert"
          /\ req[e].pc \in {"insert", "done", "lost"} => req'[e] = req[e]
    BY <1>1, <1>2, <1>3
  <1>5. InserterPublishes' /\ CacheOfOneReport' /\ PublisherInv'
    BY <1>1, <1>4, CacheKept
  <1>6. OneAtATime'
    BY <1>2, <1>3 DEF OneAtATime, InFlight, Steps, Busy
  <1> QED BY <1>5, <1>6

\* The administrator's requests move no handler.  Only DELETE touches the
\* cache, and it marks the report whose nodes it takes out.
LEMMA AdministerCacheInv ==
  ASSUME IInv, PlaceInv, CacheInv, Administer
  PROVE  CacheInv'
  <1> USE DEF CacheInv, PlaceInv
  <1>1. req' = req /\ publisher' = publisher /\ failed \subseteq failed'
    BY DEF Administer, CreateAgent, ResetToken, SetEnabled, DropNodes, DropLinks, DropRow,
           ResetTraffic, DeleteUser, UpdateRow, Fails, Works, history, published
  <1>2. OneAtATime'
    BY <1>1, OneAtATimeKept DEF InFlight
  <1>3. CASE UNCHANGED <<cache, dropped>>
    <2>1. \A e \in Deliveries :
            /\ req'[e].pc = "insert" => req[e].pc = "insert"
            /\ req[e].pc \in {"insert", "done", "lost"} => req'[e] = req[e]
      BY <1>1
    <2>2. InserterPublishes' /\ CacheOfOneReport' /\ PublisherInv'
      BY <1>1, <1>3, <2>1, CacheKept
    <2> QED BY <1>2, <2>2
  <1>4. ASSUME NEW a \in Agents, cache' = cache \ RowsOf(a),
               dropped' = dropped \union ({publisher[a]} \ {None})
        PROVE  CacheInv'
    <2>1. \A b \in Agents : RowsOf(b)' \subseteq RowsOf(b) /\ (b # a => RowsOf(b)' = RowsOf(b))
      BY <1>1, <1>4 DEF RowsOf
    <2>2. InserterPublishes' /\ CacheOfOneReport'
      BY <1>1, <2>1 DEF InserterPublishes, CacheOfOneReport
    <2>3. PublisherInv'
      <3> SUFFICES ASSUME NEW b \in Agents, NEW e \in Deliveries, publisher[b] = e
                   PROVE  Publishes(b, e)'
        BY <1>1 DEF PublisherInv
      <3>1. Publishes(b, e) /\ (Undisturbed(e)' => Undisturbed(e))
        BY <1>1 DEF PublisherInv, Undisturbed
      <3>2. b = a => e \in dropped'
        BY <1>4, NoneAssumption
      <3> QED BY <1>1, <1>4, <2>1, <3>1, <3>2 DEF Publishes, Cached, Body
    <2> QED BY <1>2, <2>2, <2>3
  <1>5. \/ UNCHANGED <<cache, dropped>>
        \/ \E a \in Agents : /\ cache' = cache \ RowsOf(a)
                             /\ dropped' = dropped \union ({publisher[a]} \ {None})
    BY DEF Administer, CreateAgent, ResetToken, SetEnabled, DropNodes, DropLinks, DropRow,
           ResetTraffic, DeleteUser, tables, history, published
  <1> QED BY <1>3, <1>4, <1>5

LEMMA InitCacheInv == Init => CacheInv
  <1> SUFFICES ASSUME Init PROVE CacheInv
    OBVIOUS
  <1>1. \A d \in Deliveries : req[d].pc = "idle"
    BY DEF Init, Idle
  <1>2. \A a \in Agents : publisher[a] = None /\ RowsOf(a) = {}
    BY DEF Init, RowsOf
  <1> QED BY <1>1, <1>2, NoneAssumption
          DEF CacheInv, OneAtATime, InserterPublishes, CacheOfOneReport, PublisherInv,
              InFlight, Steps

LEMMA NextCacheInv == Serial /\ IInv /\ PlaceInv /\ CacheInv /\ [Next]_vars => CacheInv'
  <1> SUFFICES ASSUME Serial, IInv, PlaceInv, CacheInv, [Next]_vars PROVE CacheInv'
    OBVIOUS
  <1>1. CASE \E d \in Deliveries, a \in Agents, t \in 1 .. MaxTokens :
               Refuse(d, a, t) \/ \E b \in Bodies : Admit(d, a, t, b)
    BY <1>1, AuthCacheInv
  <1>2. CASE \E d \in Deliveries : Step(d)
    BY <1>2, StepCacheInv
  <1>3. CASE Administer
    BY <1>3, AdministerCacheInv
  <1>4. CASE Crash \/ Tick \/ UNCHANGED vars
    <2>1. UNCHANGED <<cache, publisher, dropped, failed>>
      BY <1>4 DEF Crash, Tick, vars, tables, history, published
    <2>2. \A d \in Deliveries :
            /\ req'[d].pc = req[d].pc \/ (InFlight(d) /\ req'[d].pc = "lost")
            /\ req'[d].at = req[d].at
            /\ req'[d].agent = req[d].agent /\ req'[d].body = req[d].body
      <3> TAKE d \in Deliveries
      <3>1. req[d] \in Handler
        BY DEF IInv, TypeOK
      <3>2. CASE Crash
        BY <3>1, <3>2 DEF Crash, Handler
      <3>3. CASE Tick
        BY <3>1, <3>3 DEF Tick, Handler
      <3> QED BY <1>4, <3>2, <3>3 DEF vars
    <2>3. OneAtATime'
      BY <2>2, OneAtATimeKept DEF InFlight, Steps, CacheInv
    <2>4. InserterPublishes' /\ CacheOfOneReport' /\ PublisherInv'
      BY <2>1, <2>2, CacheKept DEF CacheInv, PlaceInv
    <2> QED BY <2>3, <2>4 DEF CacheInv
  <1> QED BY <1>1, <1>2, <1>3, <1>4 DEF Next, Running

-----------------------------------------------------------------------------
\* The node cache never mixes two reports of an agent that waits for its
\* answers, whatever crashes, as long as no DELETE of a report fails.
THEOREM CacheIsOfOneReport == Serial => (Spec => []CacheOfOneReport)
  <1> SUFFICES ASSUME Serial PROVE Spec => []CacheOfOneReport
    OBVIOUS
  <1>1. CacheInv => CacheOfOneReport
    BY DEF CacheInv
  <1>2. IInv /\ PlaceInv /\ CacheInv /\ [Next]_vars => CacheInv'
    BY NextCacheInv
  <1> QED BY <1>1, <1>2, InitInv, NextInv, InitPlaceInv, NextPlaceInv, InitCacheInv,
             PTL DEF Spec

\* A report that was answered and that no accident disturbed has published all
\* its nodes and nothing else.
THEOREM ReportIsPublishedWhole == Serial => (Spec => []PublishedWhole)
  <1> SUFFICES ASSUME Serial PROVE Spec => []PublishedWhole
    OBVIOUS
  <1>1. IInv /\ CacheInv => PublishedWhole
    <2> SUFFICES ASSUME IInv, CacheInv, NEW a \in Agents, NEW d, d = publisher[a], d # None,
                        d \notin dropped, ~Busy(a), Undisturbed(d)
                 PROVE  RowsOf(a) = Cached(d, Body(d).nodes)
      BY DEF PublishedWhole
    <2>1. d \in Deliveries
      BY DEF IInv, TypeOK
    <2>2. Publishes(a, d)
      BY <2>1 DEF CacheInv, PublisherInv
    <2>3. req[d].pc = "done"
      BY <2>1, <2>2 DEF Publishes, Busy, InFlight, Steps, Undisturbed
    <2> QED BY <2>2, <2>3 DEF Publishes
  <1>2. IInv /\ PlaceInv /\ CacheInv /\ [Next]_vars => CacheInv'
    BY NextCacheInv
  <1> QED BY <1>1, <1>2, InitInv, NextInv, InitPlaceInv, NextPlaceInv, InitCacheInv,
             PTL DEF Spec

-----------------------------------------------------------------------------
\* What a step leaves of an agent's traces.
QuietFor(a) ==
  /\ ~Busy(a)' /\ agents'[a].used = agents[a].used
  /\ \A x \in (charged' \union log' \union cache') \ (charged \union log \union cache) :
       req[x[1]].agent # a

\* A handler acts for its own agent only.
LEMMA StepIsQuiet ==
  ASSUME IInv, NEW a \in Agents, ShutOut(a), NEW d \in Deliveries, Step(d)
  PROVE  QuietFor(a)
  <1>1. req[d].agent \in Agents /\ req[d].agent # a
    BY StepMoves DEF ShutOut, Busy
  <1>2. ~Busy(a)'
    BY <1>1, StepMoves DEF ShutOut, Busy, InFlight
  <1>3. agents'[a] = agents[a]
    <2>1. CASE RegisterAgent(d) \/ Stamp(d) \/ AddVolume(d)
      BY <1>1, <2>1 DEF RegisterAgent, Stamp, AddVolume, UpdateRow, IInv, TypeOK
    <2>2. CASE Charge(d) \/ WriteLog(d) \/ ClearNodes(d) \/ InsertNode(d)
      BY <2>2 DEF Charge, WriteLog, ClearNodes, InsertNode
    <2> QED BY <2>1, <2>2 DEF Step
  <1>4. /\ charged' \subseteq charged \union {Position(d)}
        /\ log' \subseteq log \union {Position(d)}
        /\ cache' \subseteq cache \union {Position(d)}
    BY DEF Step, RegisterAgent, Stamp, AddVolume, Charge, WriteLog, ClearNodes, InsertNode, bill
  <1> QED BY <1>1, <1>2, <1>3, <1>4 DEF QuietFor, Position

\* No request of an administrator counts for an agent or moves a handler.
LEMMA AdministerIsQuiet ==
  ASSUME IInv, PlaceInv, NEW a \in Agents, ShutOut(a), Administer
  PROVE  QuietFor(a)
  <1>0. \A b \in Agents : agents[b] \in AgentRow
    BY DEF IInv, TypeOK
  <1>1. req' = req /\ charged' = charged /\ log' = log /\ cache' \subseteq cache
    BY DEF Administer, CreateAgent, ResetToken, SetEnabled, DropNodes, DropLinks, DropRow,
           ResetTraffic, DeleteUser, tables, history, bill
  <1>2. ASSUME NEW b \in Agents, CreateAgent(b) PROVE agents'[a].used = agents[a].used
    <2>1. b = a => agents[a].used = 0 /\ agents'[a].used = 0
      BY <1>2 DEF CreateAgent, PlaceInv, NewAgentsUnused, FreshAgent, IInv, TypeOK
    <2>2. b # a => agents'[a] = agents[a]
      BY <1>2 DEF CreateAgent, IInv, TypeOK
    <2> QED BY <2>1, <2>2
  <1>3. ASSUME NEW b \in Agents, NEW new \in AgentRow, NEW stmt, UpdateRow(b, new, stmt),
               new.used = agents[b].used
        PROVE  agents'[a].used = agents[a].used
    BY <1>3 DEF UpdateRow, IInv, TypeOK
  <1>4. ASSUME NEW b \in Agents, ResetToken(b) \/ (\E on \in BOOLEAN : SetEnabled(b, on))
                                 \/ DropRow(b)
        PROVE  agents'[a].used = agents[a].used
    <2>1. /\ \A on \in BOOLEAN : LET new == [agents[b] EXCEPT !.enabled = on] IN
               new \in AgentRow /\ new.used = agents[b].used
          /\ LET new == [agents[b] EXCEPT !.row = "deleted"] IN
               new \in AgentRow /\ new.used = agents[b].used
          /\ LET new == [agents[b] EXCEPT !.token = issued[b] + 1] IN
               new \in AgentRow /\ new.used = agents[b].used
      <3>1. issued[b] \in Nat
        BY DEF IInv, TypeOK
      <3> QED BY <1>0, <3>1 DEF AgentRow
    <2> QED BY <1>3, <1>4, <2>1 DEF ResetToken, SetEnabled, DropRow
  <1>5. agents'[a].used = agents[a].used
    BY <1>2, <1>4 DEF Administer, DropNodes, DropLinks, ResetTraffic, DeleteUser, tables
  <1>6. ~Busy(a)'
    BY <1>1 DEF ShutOut, Busy, InFlight
  <1> QED BY <1>1, <1>5, <1>6 DEF QuietFor

LEMMA NextIsQuiet ==
  ASSUME IInv, PlaceInv, [Next]_vars, NEW a \in Agents, ShutOut(a)
  PROVE  QuietFor(a)
  <1>1. ASSUME NEW d \in Deliveries, NEW b \in Agents, NEW t \in 1 .. MaxTokens,
               Refuse(d, b, t) \/ \E body \in Bodies : Admit(d, b, t, body)
        PROVE  QuietFor(a)
    <2>1. UNCHANGED <<agents, charged, log, cache>>
      BY <1>1 DEF Refuse, Admit, tables, history, bill
    <2>2. \A e \in Deliveries : e # d => req'[e] = req[e]
      BY <1>1 DEF Refuse, Admit, Goto, IInv, TypeOK
    <2>3. req'[d].pc = "refused" \/ req'[d].agent # a
      <3>1. CASE Refuse(d, b, t)
        BY <3>1, GotoType DEF Refuse, IInv
      <3>2. CASE \E body \in Bodies : Admit(d, b, t, body)
        <4>1. b # a
          BY <3>2 DEF Admit, Accepts, ShutOut
        <4>2. req'[d].agent = b
          BY <3>2 DEF Admit, IInv, TypeOK
        <4> QED BY <4>1, <4>2
      <3> QED BY <1>1, <3>1, <3>2
    <2>4. ~Busy(a)'
      BY <2>2, <2>3 DEF ShutOut, Busy, InFlight, Steps
    <2> QED BY <2>1, <2>4 DEF QuietFor
  <1>2. CASE \E d \in Deliveries : Step(d)
    BY <1>2, StepIsQuiet
  <1>3. CASE Administer
    BY <1>3, AdministerIsQuiet
  <1>4. CASE Crash \/ Tick \/ UNCHANGED vars
    <2>1. UNCHANGED <<charged, log, cache>>
      BY <1>4 DEF Crash, Tick, vars, tables, history, bill
    <2>2. agents'[a].used = agents[a].used
      <3>1. agents[a] \in AgentRow
        BY DEF IInv, TypeOK
      <3>2. CASE Tick
        BY <3>1, <3>2 DEF Tick, AgentRow
      <3> QED BY <1>4, <3>2 DEF Crash, vars, tables
    <2>3. \A d \in Deliveries : InFlight(d)' => InFlight(d) /\ req'[d].agent = req[d].agent
      <3> TAKE d \in Deliveries
      <3>1. req[d] \in Handler
        BY DEF IInv, TypeOK
      <3>2. CASE Crash
        BY <3>1, <3>2 DEF Crash, Handler, InFlight, Steps
      <3>3. CASE Tick
        BY <3>1, <3>3 DEF Tick, Handler, InFlight
      <3> QED BY <1>4, <3>2, <3>3 DEF vars, InFlight
    <2> QED BY <2>1, <2>2, <2>3 DEF QuietFor, ShutOut, Busy
  <1> QED BY <1>1, <1>2, <1>3, <1>4 DEF Next, Running

\* Nothing is let in, charged, logged, cached or counted for an agent whose row
\* is deleted or disabled, once what was admitted before has ended.
THEOREM ShutOutStaysQuiet == Spec => ShutOutAgentIsQuiet
  <1>1. IInv /\ PlaceInv /\ [Next]_vars =>
          [\A a \in Agents : ShutOut(a) =>
             /\ ~Busy(a)' /\ agents'[a].used = agents[a].used
             /\ \A x \in (charged' \union log' \union cache')
                         \ (charged \union log \union cache) : req[x[1]].agent # a]_vars
    BY NextIsQuiet DEF QuietFor
  <1> QED BY <1>1, InitInv, NextInv, InitPlaceInv, NextPlaceInv, PTL
          DEF Spec, ShutOutAgentIsQuiet
=============================================================================
