----------------------------- MODULE PanelProofs -----------------------------
(***************************************************************************)
(* Theorems about Panel: the statements of the real handlers are writes of *)
(* Access, a deleted agent is out of every subscriber's reach, and what a  *)
(* subscription holds of an agent comes from one report.                   *)
(***************************************************************************)
EXTENDS Panel, AgentCacheProofs, FiniteSetTheorems

\* What is left to do of a group update.
Rewriting(clear, as) ==
  [op |-> "relink", on |-> Group, clear |-> clear, sources |-> {}, agents |-> as]
UpdateOK == \/ update = Catalogue!NoEdit
            \/ \E clear \in {{}, {"agents"}}, as \in SUBSET Agents :
                 update = Rewriting(clear, as)

\* Who asks in a poll, from the first SELECT to the last.
PollOK(h) ==
  /\ h.pc \in {"groups", "plans"} => h.kind = "poll"
  /\ h.pc = "limits" =>
       h = [pc |-> "limits", kind |-> "poll", who |-> h.who, copies |-> h.copies,
            todo |-> h.todo, allowed |-> h.allowed]

PanelOK ==
  /\ links \subseteq {Group} \X Agents /\ UpdateOK
  /\ stray \subseteq Agents /\ begun \in [Gets -> SUBSET Agents]
  /\ DOMAIN get = Gets /\ \A r \in Gets : PollOK(get[r])

PanelInv == IInv /\ PlaceInv /\ PanelOK

-----------------------------------------------------------------------------
\* An UPDATE of an agent writes its new row if the row is live, or nothing.
LEMMA UpdatedRow ==
  ASSUME TypeOK, NEW a \in Agents, NEW new, NEW stmt, UpdateRow(a, new, stmt)
  PROVE  \A b \in Agents : \/ agents'[b] = agents[b]
                           \/ b = a /\ Live(a) /\ agents'[b] = new
  BY DEF UpdateRow, Works, TypeOK

\* No statement of a report changes the state of an agent's row.
LEMMA StepKeepsRowState ==
  ASSUME IInv, NEW d \in Deliveries, Step(d), NEW a \in Agents
  PROVE  agents'[a].row = agents[a].row
  <1>0. TypeOK
    BY DEF IInv
  <1> DEFINE b == req[d].agent
  <1>1. b \in Agents /\ agents[b] \in AgentRow
    BY <1>0, StepMoves DEF TypeOK
  <1>2. \/ agents' = agents
        \/ \E new, stmt : new.row = agents[b].row /\ UpdateRow(b, new, stmt)
    <2> HIDE DEF b
    <2>1. CASE RegisterAgent(d)
      <3>1. UpdateRow(b, [agents[b] EXCEPT !.status = "online"], <<d, "register">>)
        BY <2>1 DEF RegisterAgent, b
      <3>2. [agents[b] EXCEPT !.status = "online"].row = agents[b].row
        BY <1>1 DEF AgentRow
      <3> QED BY <3>1, <3>2
    <2>2. CASE Stamp(d)
      <3>1. PICK status, seen :
              UpdateRow(b, [agents[b] EXCEPT !.status = status, !.seen = seen], <<d, "stamp">>)
        BY <2>2 DEF Stamp, b
      <3>2. [agents[b] EXCEPT !.status = status, !.seen = seen].row = agents[b].row
        BY <1>1 DEF AgentRow
      <3> QED BY <3>1, <3>2
    <2>3. CASE AddVolume(d)
      <3>1. PICK n : UpdateRow(b, [agents[b] EXCEPT !.used = n], <<d, "volume">>)
        BY <2>3 DEF AddVolume, b
      <3>2. [agents[b] EXCEPT !.used = n].row = agents[b].row
        BY <1>1 DEF AgentRow
      <3> QED BY <3>1, <3>2
    <2>4. CASE Charge(d) \/ WriteLog(d) \/ ClearNodes(d) \/ InsertNode(d)
      BY <2>4 DEF Charge, WriteLog, ClearNodes, InsertNode
    <2> QED BY <2>1, <2>2, <2>3, <2>4 DEF Step
  <1> HIDE DEF b
  <1> QED BY <1>0, <1>1, <1>2, UpdatedRow

\* Nor does an administrator's UPDATE of another column.
LEMMA EditKeepsRowState ==
  ASSUME TypeOK, NEW a \in Agents, NEW b \in Agents,
         ResetToken(b) \/ \E on \in BOOLEAN : SetEnabled(b, on)
  PROVE  agents'[a].row = agents[a].row
  <1>0. agents[b] \in AgentRow
    BY DEF TypeOK
  <1>1. \E new, stmt : new.row = agents[b].row /\ UpdateRow(b, new, stmt)
    <2>1. CASE ResetToken(b)
      <3>1. PICK t, stmt : UpdateRow(b, [agents[b] EXCEPT !.token = t], stmt)
        BY <2>1 DEF ResetToken
      <3>2. [agents[b] EXCEPT !.token = t].row = agents[b].row
        BY <1>0 DEF AgentRow
      <3> QED BY <3>1, <3>2
    <2>2. CASE \E on \in BOOLEAN : SetEnabled(b, on)
      <3>1. PICK on, stmt : UpdateRow(b, [agents[b] EXCEPT !.enabled = on], stmt)
        BY <2>2 DEF SetEnabled
      <3>2. [agents[b] EXCEPT !.enabled = on].row = agents[b].row
        BY <1>0 DEF AgentRow
      <3> QED BY <3>1, <3>2
    <2> QED BY <2>1, <2>2
  <1> QED BY <1>1, UpdatedRow

\* Which statements change the state of an agent's row.
LEMMA RowChanges ==
  ASSUME IInv, PlaceInv, Next, NEW a \in Agents
  PROVE  \/ agents'[a].row = agents[a].row
         \/ CreateAgent(a) /\ agents[a].row = "absent" /\ agents'[a].row = "live"
         \/ DropRow(a) /\ Live(a) /\ agents'[a].row = "deleted"
  <1>0. TypeOK /\ agents[a] \in AgentRow
    BY DEF IInv, TypeOK
  <1>1. CASE \E d \in Deliveries, b \in Agents, t \in 1 .. MaxTokens :
               Refuse(d, b, t) \/ \E body \in Bodies : Admit(d, b, t, body)
    BY <1>1 DEF Refuse, Admit, tables
  <1>2. ASSUME NEW d \in Deliveries, Step(d) PROVE agents'[a].row = agents[a].row
    BY <1>2, StepKeepsRowState
  <1>3. CASE Administer
    <2>1. ASSUME NEW b \in Agents, CreateAgent(b)
          PROVE  \/ agents'[a].row = agents[a].row
                 \/ CreateAgent(a) /\ agents[a].row = "absent" /\ agents'[a].row = "live"
      BY <1>0, <2>1 DEF CreateAgent, TypeOK, FreshAgent
    <2>2. ASSUME NEW b \in Agents, ResetToken(b) \/ \E on \in BOOLEAN : SetEnabled(b, on)
          PROVE  agents'[a].row = agents[a].row
      BY <1>0, <2>2, EditKeepsRowState
    <2>3. ASSUME NEW b \in Agents, DropNodes(b) \/ DropLinks(b) PROVE agents' = agents
      BY <2>3 DEF DropNodes, DropLinks, tables
    <2>4. ASSUME NEW b \in Agents, DropRow(b)
          PROVE  \/ agents'[a].row = agents[a].row
                 \/ DropRow(a) /\ Live(a) /\ agents'[a].row = "deleted"
      <3>0. agents[b] \in AgentRow
        BY <1>0 DEF TypeOK
      <3>1. UpdateRow(b, [agents[b] EXCEPT !.row = "deleted"], <<b, "row">>)
        BY <2>4 DEF DropRow
      <3>2. [agents[b] EXCEPT !.row = "deleted"].row = "deleted"
        BY <3>0 DEF AgentRow
      <3> QED BY <1>0, <2>4, <3>1, <3>2, UpdatedRow
    <2>5. ASSUME NEW u \in Users, ResetTraffic(u) \/ DeleteUser(u) PROVE agents' = agents
      BY <2>5 DEF ResetTraffic, DeleteUser
    <2> QED BY <1>3, <2>1, <2>2, <2>3, <2>4, <2>5 DEF Administer
  <1>4. CASE Crash
    BY <1>4 DEF Crash, tables
  <1>5. CASE Tick
    BY <1>0, <1>5 DEF Tick, AgentRow
  <1> QED BY <1>1, <1>2, <1>3, <1>4, <1>5 DEF Next, Running

\* A statement of a reader changes its local state and no table.
Reader(r) == AskNodes(r) \/ AskUsers(r) \/ Look(r)

\* The SELECT of one user's plan leaves the poll where it is.
LEMMA LimitMoves ==
  ASSUME PanelOK, NEW r \in Gets, NEW u \in Users, Catalogue!LoadLimit(r, u)
  PROVE  \E new : get' = [get EXCEPT ![r] = new] /\ new.pc = "limits" /\ PollOK(new)
  <1> DEFINE h == get[r]
  <1>1. h = [pc |-> "limits", kind |-> "poll", who |-> h.who, copies |-> h.copies,
             todo |-> h.todo, allowed |-> h.allowed]
    BY DEF Catalogue!LoadLimit, PanelOK, PollOK
  <1>2. PICK ok \in BOOLEAN :
          get' = [get EXCEPT ![r].todo = @ \ {u},
                             ![r].allowed = IF ok THEN @ \union {u} ELSE @]
    BY DEF Catalogue!LoadLimit
  <1> DEFINE todo == h.todo \ {u}
             allowed == IF ok THEN h.allowed \union {u} ELSE h.allowed
             new == [h EXCEPT !.todo = todo, !.allowed = allowed]
  <1>3. get' = [get EXCEPT ![r] = new]
    <2>1. [[h EXCEPT !.todo = @ \ {u}] EXCEPT !.allowed = IF ok THEN @ \union {u} ELSE @] = new
      BY <1>1
    <2> QED BY <1>2, <2>1 DEF PanelOK
  <1> HIDE DEF h, todo, allowed
  <1>4. new = [x \in {"pc", "kind", "who", "copies", "todo", "allowed"} |->
                 IF x = "todo" THEN todo ELSE IF x = "allowed" THEN allowed ELSE h[x]]
    BY <1>1
  <1>5. new.pc = "limits" /\ new.kind = "poll"
    BY <1>1, <1>4
  <1>6. new = [pc |-> "limits", kind |-> "poll", who |-> new.who, copies |-> new.copies,
               todo |-> new.todo, allowed |-> new.allowed]
    <2> HIDE DEF new
    <2> QED BY <1>1, <1>4, <1>5
  <1> HIDE DEF new
  <1>7. PollOK(new)
    BY <1>5, <1>6 DEF PollOK
  <1> QED BY <1>3, <1>5, <1>7

\* What becomes of the reader's local state: it ends, with the same kind, or
\* goes on with a state of one of the shapes below.
LEMMA ReaderMoves ==
  ASSUME PanelOK, NEW r \in Gets, Reader(r)
  PROVE  /\ UNCHANGED <<vars, links, update, stray>>
         /\ DOMAIN get' = Gets /\ \A q \in Gets : q # r => get'[q] = get[q]
         /\ PollOK(get'[r])
  <1>1. UNCHANGED <<vars, links, update, stray>>
    BY DEF Reader, AskNodes, AskUsers, Look
  <1> DEFINE Moved == /\ DOMAIN get' = Gets /\ \A q \in Gets : q # r => get'[q] = get[q]
                      /\ PollOK(get'[r])
  <1>h. ASSUME NEW h, PollOK(h), get' = [get EXCEPT ![r] = h] PROVE Moved
    BY <1>h DEF PanelOK
  <1>f. ASSUME NEW answer, NEW bad, Catalogue!Finish(r, answer, bad) PROVE Moved
    <2> DEFINE h == [pc |-> "done", kind |-> get[r].kind, who |-> get[r].who,
                     answer |-> answer]
    <2>1. get' = [get EXCEPT ![r] = h] /\ PollOK(h)
      BY <1>f DEF PanelOK, PollOK, Catalogue!Finish
    <2> HIDE DEF h, Moved
    <2> QED BY <1>h, <2>1
  <1>c. ASSUME NEW h, PollOK(h), NEW bad, Catalogue!Continues(r, h, bad) PROVE Moved
    BY <1>c, <1>h DEF Catalogue!Continues
  <1>b. ASSUME NEW h, PollOK(h), Catalogue!Begins(r, h) PROVE Moved
    BY <1>b, <1>h DEF Catalogue!Begins
  <1>p. \A h : h.pc \notin {"groups", "plans", "limits"} => PollOK(h)
    BY DEF PollOK
  <1> HIDE DEF Moved
  <1>2. ASSUME NEW u \in Users, Catalogue!Fetch(r, u) PROVE Moved
    <2>1. PICK h : Catalogue!Begins(r, h) /\ h.pc \in {"plan", "done"}
      BY <1>2 DEF Catalogue!Fetch
    <2> QED BY <1>b, <1>p, <2>1
  <1>3. ASSUME NEW a \in Agents, Catalogue!Poll(r, a) PROVE Moved
    <2>1. PICK h : Catalogue!Begins(r, h) /\ h.pc = "groups" /\ h.kind = "poll"
      BY <1>3 DEF Catalogue!Poll
    <2>2. PollOK(h)
      BY <2>1 DEF PollOK
    <2> QED BY <1>b, <2>1, <2>2
  <1>4. ASSUME \/ Catalogue!LoadPlan(r) \/ Catalogue!Collect(r) \/ Catalogue!FindSources(r)
               \/ Catalogue!FindAgents(r) \/ Catalogue!ReadNodes(r) \/ Catalogue!TellAgent(r)
               \/ Catalogue!FindGroups(r) \/ Catalogue!FindPlans(r)
        PROVE  Moved
    <2>1. \/ \E h, bad : PollOK(h) /\ Catalogue!Continues(r, h, bad)
          \/ \E answer, bad : Catalogue!Finish(r, answer, bad)
      <3>1. CASE Catalogue!LoadPlan(r)
        BY <3>1, <1>p DEF Catalogue!LoadPlan
      <3>2. CASE Catalogue!Collect(r)
        BY <3>2, <1>p DEF Catalogue!Collect
      <3>3. CASE Catalogue!FindSources(r)
        BY <3>3, <1>p DEF Catalogue!FindSources
      <3>4. CASE Catalogue!FindAgents(r)
        BY <3>4, <1>p DEF Catalogue!FindAgents
      <3>5. CASE Catalogue!ReadNodes(r) \/ Catalogue!TellAgent(r)
        BY <3>5 DEF Catalogue!ReadNodes, Catalogue!TellAgent
      <3>6. CASE Catalogue!FindGroups(r)
        <4>1. \A gs : PollOK([pc |-> "plans", kind |-> "poll", who |-> get[r].who,
                              groups |-> gs])
          BY DEF PollOK
        <4> QED BY <3>6, <4>1 DEF Catalogue!FindGroups
      <3>7. CASE Catalogue!FindPlans(r)
        BY <3>7, <1>p DEF Catalogue!FindPlans
      <3> QED BY <1>4, <3>1, <3>2, <3>3, <3>4, <3>5, <3>6, <3>7
    <2> QED BY <1>c, <1>f, <2>1
  <1>5. ASSUME Catalogue!FindUsers(r) PROVE Moved
    <2>1. PICK copies, found, bad :
            Catalogue!Continues(r, [pc |-> "limits", kind |-> "poll", who |-> get[r].who,
                                    copies |-> copies, todo |-> found, allowed |-> {}], bad)
      BY <1>5 DEF Catalogue!FindUsers
    <2>2. PollOK([pc |-> "limits", kind |-> "poll", who |-> get[r].who,
                  copies |-> copies, todo |-> found, allowed |-> {}])
      BY DEF PollOK
    <2> QED BY <1>c, <2>1, <2>2
  <1>6. ASSUME NEW u \in Users, Catalogue!LoadLimit(r, u) PROVE Moved
    BY <1>6, <1>h, LimitMoves
  <1>7. ASSUME Catalogue!GiveUp(r) PROVE Moved
    <2>1. get' = [get EXCEPT ![r] = Catalogue!NoRequest]
      BY <1>7 DEF Catalogue!GiveUp
    <2>2. PollOK(Catalogue!NoRequest)
      BY <1>p DEF Catalogue!NoRequest
    <2> QED BY <1>h, <2>1, <2>2
  <1>8. Moved
    BY <1>2, <1>3, <1>4, <1>5, <1>6, <1>7
       DEF Reader, AskNodes, AskUsers, Look, Catalogue!ReadStep
  <1> QED BY <1>1, <1>8 DEF Moved

\* What is left of a group update, statement by statement.
LEMMA Relinks ==
  ASSUME NEW clear, NEW as
  PROVE  Catalogue!Relink(Group, clear, {}, as) =
           IF clear = {} /\ as = {} THEN Catalogue!NoEdit ELSE Rewriting(clear, as)
  BY DEF Catalogue!Relink, Rewriting

\* The fields of a group update.
LEMMA UpdateFields ==
  ASSUME UpdateOK, update # Catalogue!NoEdit
  PROVE  \E clear \in {{}, {"agents"}}, as \in SUBSET Agents :
           /\ update = Rewriting(clear, as)
           /\ update.clear = clear /\ update.agents = as
  BY DEF UpdateOK, Rewriting

\* A step of the panel is one of its handlers or leaves their tables alone.
LEMMA PanelSteps == [PanelNext]_panelVars => [Next]_vars
  BY DEF PanelNext, Handle, Stop, Next, StartUpdate, ClearLinks, AddLink, AskNodes, AskUsers,
         Look, panelVars

LEMMA InitPanelInv == PanelInit => PanelInv
  <1> SUFFICES ASSUME PanelInit PROVE PanelInv
    OBVIOUS
  <1>1. IInv /\ PlaceInv
    BY InitInv, InitPlaceInv DEF PanelInit
  <1>2. PollOK(Catalogue!NoRequest)
    BY DEF PollOK, Catalogue!NoRequest
  <1> QED BY <1>1, <1>2, ModeAssumption DEF PanelInit, PanelInv, PanelOK, UpdateOK

LEMMA NextPanelInv == PanelInv /\ [PanelNext]_panelVars => PanelInv'
  <1> SUFFICES ASSUME PanelInv, [PanelNext]_panelVars PROVE PanelInv'
    OBVIOUS
  <1>1. [Next]_vars
    BY PanelSteps
  <1>2. IInv' /\ PlaceInv'
    BY <1>1, NextInv, NextPlaceInv DEF PanelInv
  <1>3. PanelOK'
    <2>1. CASE Handle
      <3>1. links' \subseteq links /\ UNCHANGED <<update, get, begun>>
        BY <2>1 DEF Handle, Unlink, Catalogue!Disturb
      <3>2. stray' \subseteq Agents
        BY <2>1 DEF Handle, Unlink, PanelInv, PanelOK
      <3> QED BY <3>1, <3>2 DEF PanelInv, PanelOK, UpdateOK
    <2>7. CASE Stop
      <3>1. UNCHANGED <<links, stray, begun>> /\ update' = Catalogue!NoEdit
        BY <2>7 DEF Stop
      <3>2. DOMAIN get' = Gets /\ \A r \in Gets : get'[r] \in {get[r], Catalogue!NoRequest}
        BY <2>7 DEF Stop, Catalogue!EndAll
      <3>3. PollOK(Catalogue!NoRequest)
        BY DEF PollOK, Catalogue!NoRequest
      <3>4. \A r \in Gets : PollOK(get'[r])
        BY <3>2, <3>3 DEF PanelInv, PanelOK
      <3> QED BY <3>1, <3>2, <3>4 DEF PanelInv, PanelOK, UpdateOK
    <2>2. ASSUME NEW as \in Lists, StartUpdate(as) PROVE PanelOK'
      <3>1. update' = Rewriting({"agents"}, as)
        BY <2>2, Relinks DEF StartUpdate
      <3>2. as \in SUBSET Agents
        BY CatalogueAssumption
      <3>3. UpdateOK'
        BY <3>1, <3>2 DEF UpdateOK
      <3> QED BY <2>2, <3>3 DEF StartUpdate, PanelInv, PanelOK
    <2>3. CASE ClearLinks
      <3>1. update.agents \in SUBSET Agents
        BY <2>3, UpdateFields DEF ClearLinks, PanelInv, PanelOK
      <3>2. \/ update' = Catalogue!NoEdit \/ update' = Rewriting({}, update.agents)
        BY <2>3, Relinks DEF ClearLinks
      <3>3. UpdateOK'
        BY <3>1, <3>2 DEF UpdateOK
      <3> QED BY <2>3, <3>3 DEF ClearLinks, PanelInv, PanelOK, Catalogue!Disturb
    <2>4. ASSUME NEW a \in Agents, AddLink(a) PROVE PanelOK'
      <3>1. update.agents \in SUBSET Agents
        BY <2>4, UpdateFields DEF AddLink, PanelInv, PanelOK
      <3>2. \/ update' = Catalogue!NoEdit \/ update' = Rewriting({}, update.agents \ {a})
        BY <2>4, Relinks DEF AddLink
      <3>3. update.agents \ {a} \in SUBSET Agents
        BY <3>1
      <3>4. UpdateOK'
        BY <3>2, <3>3 DEF UpdateOK
      <3>5. links' \subseteq {Group} \X Agents /\ stray' \subseteq Agents
        BY <2>4 DEF AddLink, PanelInv, PanelOK
      <3>6. begun' \in [Gets -> SUBSET Agents]
        BY <2>4 DEF AddLink, PanelInv, PanelOK
      <3>7. get' = get
        BY <2>4 DEF AddLink, Catalogue!Disturb
      <3> QED BY <3>4, <3>5, <3>6, <3>7 DEF PanelInv, PanelOK
    <2>5. ASSUME NEW r \in Gets, Reader(r) PROVE PanelOK'
      <3>1. begun' \in [Gets -> SUBSET Agents]
        BY <2>5 DEF Reader, AskNodes, AskUsers, Look, Gone, PanelInv, PanelOK
      <3> QED BY <2>5, <3>1, ReaderMoves DEF PanelInv, PanelOK, UpdateOK
    <2>6. CASE UNCHANGED panelVars
      BY <2>6 DEF panelVars, PanelInv, PanelOK, UpdateOK
    <2> QED BY <2>1, <2>2, <2>3, <2>4, <2>5, <2>6, <2>7 DEF PanelNext, Reader
  <1> QED BY <1>2, <1>3 DEF PanelInv

LEMMA PanelInvariant == PanelSpec => []PanelInv
  BY InitPanelInv, NextPanelInv, PTL DEF PanelSpec

\* The handlers of both modules together keep their tables' shape.
THEOREM PanelTypeCorrect == PanelSpec => []PanelTypeOK
  <1>1. PanelInv => PanelTypeOK
    <2> SUFFICES ASSUME PanelInv PROVE PanelTypeOK
      OBVIOUS
    <2>1. update.op \in {"none", "relink"}
      BY DEF PanelInv, PanelOK, UpdateOK, Rewriting, Catalogue!NoEdit
    <2> QED BY <2>1 DEF PanelInv, PanelOK, PanelTypeOK, IInv
  <1> QED BY <1>1, PanelInvariant, PTL

-----------------------------------------------------------------------------
\* A dropped agent is in the group only if the DELETE of its relations failed or
\* a group update listed it since; what was deleted when a reader began is still
\* deleted and not linked again; and so what the reader has collected holds no
\* such agent.
LinksDropped == \A a \in Agents : Dropped(a) /\ a \notin stray => <<Group, a>> \notin links
BegunGone == \A r \in Gets : \A a \in begun[r] : a \notin stray /\ agents[a].row = "deleted"
OutOfReach(h, gone) ==
  /\ h.pc \in {"agents", "nodes"} => h.owners \cap gone = {}
  /\ h.pc = "done" /\ h.kind = "fetch" => \A x \in h.answer : x[1] \notin gone
ReadersMissGone == \A r \in Gets : OutOfReach(get[r], begun[r])
DeletedInv == LinksDropped /\ BegunGone /\ ReadersMissGone

\* A DELETE gets from its second statement to its third by executing it.
LEMMA LinksStep ==
  ASSUME IInv, PlaceInv, Running, NEW a \in Agents, AtLinks(a)
  PROVE  DropLinks(a)
  <1>0. removing \in [Agents -> {"no", "links", "row"}] /\ removing'[a] # removing[a]
    BY DEF IInv, TypeOK, AtLinks
  <1>1. ASSUME NEW d \in Deliveries, Step(d) PROVE removing' = removing
    BY <1>1, StepPlaces DEF PlaceInv
  <1>2. ASSUME NEW d \in Deliveries, NEW b \in Agents, NEW t,
               Refuse(d, b, t) \/ \E body \in Bodies : Admit(d, b, t, body)
        PROVE  removing' = removing
    BY <1>2 DEF Refuse, Admit
  <1>3. Administer
    BY <1>0, <1>1, <1>2 DEF Running, Tick
  <1>4. ASSUME NEW b \in Agents, DropNodes(b) \/ DropRow(b) PROVE FALSE
    BY <1>0, <1>4 DEF DropNodes, DropRow, AtLinks
  <1>5. ASSUME NEW b \in Agents, DropLinks(b) PROVE b = a
    BY <1>0, <1>5 DEF DropLinks
  <1> QED BY <1>0, <1>3, <1>4, <1>5
          DEF Administer, CreateAgent, ResetToken, SetEnabled, ResetTraffic, DeleteUser

\* Relations and rows: what a statement of the handlers, or of a group update,
\* does to the agents that are dropped.
LEMMA HandleDropped ==
  ASSUME PanelInv, LinksDropped, BegunGone, Handle
  PROVE  LinksDropped' /\ BegunGone'
  <1>1. ASSUME NEW a \in Agents
        PROVE  /\ agents[a].row = "deleted" => agents'[a].row = "deleted"
               /\ agents'[a].row = "deleted" => agents[a].row = "deleted" \/ removing[a] = "row"
               /\ removing'[a] = "row" => removing[a] \in {"row", "links"}
    <2>1. removing'[a] = "row" => removing[a] \in {"row", "links"}
      <3>0. removing \in [Agents -> {"no", "links", "row"}]
        BY DEF PanelInv, IInv, TypeOK
      <3>1. \/ removing' = removing \/ removing' = [b \in Agents |-> "no"]
            \/ \E b \in Agents : \/ removing' = [removing EXCEPT ![b] = "links"]
                                 \/ removing[b] = "links" /\ removing' = [removing EXCEPT ![b] = "row"]
                                 \/ removing' = [removing EXCEPT ![b] = "no"]
        <4>1. CASE Administer
          BY <4>1 DEF Administer, CreateAgent, ResetToken, SetEnabled, DropNodes, DropLinks,
                      DropRow, ResetTraffic, DeleteUser
        <4>2. ASSUME NEW d \in Deliveries, Step(d) PROVE removing' = removing
          BY <4>2, StepPlaces DEF PanelInv, PlaceInv
        <4>3. ASSUME NEW d \in Deliveries, NEW b \in Agents, NEW t,
                     Refuse(d, b, t) \/ \E body \in Bodies : Admit(d, b, t, body)
              PROVE  removing' = removing
          BY <4>3 DEF Refuse, Admit
        <4> QED BY <4>1, <4>2, <4>3 DEF Handle, Running, Tick
      <3> QED BY <3>0, <3>1
    <2>2. DropRow(a) => removing[a] = "row"
      BY DEF DropRow
    <2> QED BY <2>1, <2>2, RowChanges DEF Handle, Next, PanelInv
  <1>u. \/ (\A a \in Agents : ~AtLinks(a)) /\ UNCHANGED <<links, stray>>
        \/ \E a \in Agents : AtLinks(a) /\ Unlink(a)
    BY DEF Handle
  <1>2. LinksDropped'
    <2> SUFFICES ASSUME NEW a \in Agents, Dropped(a)', a \notin stray', <<Group, a>> \in links'
                 PROVE  FALSE
      BY DEF LinksDropped
    <2>1. CASE (\A b \in Agents : ~AtLinks(b)) /\ UNCHANGED <<links, stray>>
      BY <1>1, <2>1 DEF LinksDropped, Dropped, AtLinks
    <2>2. ASSUME NEW b \in Agents, AtLinks(b), Unlink(b) PROVE FALSE
      <3>1. CASE a = b
        BY <2>2, <3>1 DEF Unlink
      <3>2. CASE a # b
        <4>1. <<Group, a>> \in links /\ a \notin stray
          BY <2>2, <3>2 DEF Unlink
        <4>2. removing'[a] = "row" => removing[a] = "row"
          <5>1. DropLinks(b)
            BY <2>2, LinksStep DEF Handle, PanelInv
          <5> QED BY <3>2, <5>1 DEF DropLinks, PanelInv, IInv, TypeOK
        <4> QED BY <1>1, <4>1, <4>2 DEF LinksDropped, Dropped
      <3> QED BY <3>1, <3>2
    <2> QED BY <1>u, <2>1, <2>2
  <1>3. BegunGone'
    <2> SUFFICES ASSUME NEW r \in Gets, NEW a \in begun[r]
                 PROVE  a \notin stray' /\ agents'[a].row = "deleted"
      BY DEF BegunGone, Handle
    <2>1. a \in Agents /\ agents[a].row = "deleted" /\ a \notin stray
      BY DEF BegunGone, PanelInv, PanelOK
    <2>2. <<Group, a>> \notin links
      BY <2>1 DEF LinksDropped, Dropped
    <2>3. a \notin stray'
      BY <1>u, <2>1, <2>2 DEF Unlink
    <2> QED BY <1>1, <2>1, <2>3
  <1> QED BY <1>2, <1>3

LEMMA AddLinkDropped ==
  ASSUME PanelInv, LinksDropped, BegunGone, NEW a \in Agents, AddLink(a)
  PROVE  LinksDropped' /\ BegunGone'
  <1>1. UNCHANGED <<removing, agents>>
    BY DEF AddLink, vars, tables
  <1>2. \/ UNCHANGED <<links, stray, begun>>
        \/ /\ links' = links \union {<<Group, a>>}
           /\ stray' = stray \union {b \in {a} : Dropped(b)}
           /\ begun' = [r \in Gets |-> begun[r] \ {a}]
    BY DEF AddLink
  <1>3. LinksDropped'
    BY <1>1, <1>2 DEF LinksDropped, Dropped
  <1>4. BegunGone'
    BY <1>1, <1>2 DEF BegunGone
  <1> QED BY <1>3, <1>4

\* What a reader finds: the agents it follows the relations to are in the
\* group, and so none of them was deleted before it began.
LEMMA LinkedAreIn ==
  ASSUME PanelInv, LinksDropped, BegunGone, NEW r \in Gets, NEW gs
  PROVE  /\ Catalogue!AgentsIn(gs) \cap begun[r] = {}
         /\ Catalogue!SourcesIn(gs) = {}
  <1>1. ASSUME NEW a \in Catalogue!AgentsIn(gs), a \in begun[r] PROVE FALSE
    <2>1. a \in Agents /\ \E g \in gs : <<g, a>> \in links
      BY <1>1 DEF Catalogue!AgentsIn
    <2>2. <<Group, a>> \in links
      BY <2>1 DEF PanelInv, PanelOK
    <2>3. Dropped(a) /\ a \notin stray
      BY <1>1 DEF BegunGone, Dropped
    <2> QED BY <2>1, <2>2, <2>3 DEF LinksDropped
  <1> QED BY <1>1 DEF Catalogue!SourcesIn

\* One SELECT of a reader.
LEMMA ReaderOutOfReach ==
  ASSUME PanelInv, DeletedInv, NEW r \in Gets, Reader(r)
  PROVE  OutOfReach(get'[r], begun'[r])
  <1> DEFINE h == get[r]
             gone == begun[r]
  <1>o. OutOfReach(h, gone) /\ DOMAIN get = Gets
    BY DEF DeletedInv, ReadersMissGone, PanelInv, PanelOK
  <1>f. ASSUME NEW answer, NEW bad, Catalogue!Finish(r, answer, bad)
        PROVE  get'[r].pc = "done" /\ get'[r].kind = h.kind /\ get'[r].answer = answer
    BY <1>o, <1>f DEF Catalogue!Finish
  <1>c. ASSUME NEW new, NEW bad, Catalogue!Continues(r, new, bad) PROVE get'[r] = new
    BY <1>o, <1>c DEF Catalogue!Continues
  <1>b. ASSUME NEW new, Catalogue!Begins(r, new) PROVE get'[r] = new
    BY <1>o, <1>b DEF Catalogue!Begins
  <1>n. ASSUME NEW new, NEW gs, new.pc \in {"idle", "plan", "collect", "sources", "groups",
                                           "plans", "users", "limits"}
        PROVE  OutOfReach(new, gs)
    BY <1>n DEF OutOfReach
  <1>1. CASE AskNodes(r)
    <2>1. PICK u \in Users : Catalogue!Fetch(r, u)
      BY <1>1 DEF AskNodes
    <2>2. PICK new : /\ Catalogue!Begins(r, new)
                     /\ \/ new.pc = "plan"
                        \/ new.pc = "done" /\ new.kind = "fetch" /\ new.answer = {}
      BY <2>1 DEF Catalogue!Fetch
    <2>3. get'[r] = new
      BY <1>b, <2>2
    <2> QED BY <2>2, <2>3 DEF OutOfReach
  <1>2. CASE AskUsers(r)
    <2>1. PICK a \in Agents : Catalogue!Poll(r, a)
      BY <1>2 DEF AskUsers
    <2>2. PICK new : Catalogue!Begins(r, new) /\ new.pc = "groups"
      BY <2>1 DEF Catalogue!Poll
    <2> QED BY <1>b, <1>n, <2>2
  <1>3. CASE Look(r)
    <2>0. begun'[r] = gone
      BY <1>3 DEF Look
    <2>e. ASSUME NEW bad, Catalogue!Finish(r, {}, bad) PROVE OutOfReach(get'[r], gone)
      BY <1>f, <2>e DEF OutOfReach
    <2>p. ASSUME NEW new, NEW bad, Catalogue!Continues(r, new, bad),
                 new.pc \in {"collect", "sources", "plans", "users", "limits"}
          PROVE  OutOfReach(get'[r], gone)
      BY <1>c, <2>p DEF OutOfReach
    <2>q. ASSUME NEW new, NEW bad, Catalogue!Continues(r, new, bad),
                 new.pc \in {"agents", "nodes"}, new.owners \cap gone = {}
          PROVE  OutOfReach(get'[r], gone)
      BY <1>c, <2>q DEF OutOfReach
    <2>k. ASSUME NEW answer, NEW bad, Catalogue!Finish(r, answer, bad), h.kind = "poll"
          PROVE  OutOfReach(get'[r], gone)
      BY <1>f, <2>k DEF OutOfReach
    <2>1. ASSUME Catalogue!LoadPlan(r) PROVE OutOfReach(get'[r], gone)
      BY <2>1, <2>e, <2>p DEF Catalogue!LoadPlan
    <2>2. ASSUME Catalogue!Collect(r) PROVE OutOfReach(get'[r], gone)
      BY <2>2, <2>e, <2>p DEF Catalogue!Collect
    <2>3. ASSUME Catalogue!FindSources(r) PROVE OutOfReach(get'[r], gone)
      <3>1. PICK bad : Catalogue!Continues(r,
                         [pc |-> "agents", kind |-> "fetch", who |-> h.who, groups |-> h.groups,
                          owners |-> Catalogue!Found(Catalogue!SourcesIn(h.groups), bad)], bad)
        BY <2>3 DEF Catalogue!FindSources
      <3>2. Catalogue!Found(Catalogue!SourcesIn(h.groups), bad) \cap gone = {}
        BY LinkedAreIn DEF DeletedInv, Catalogue!Found
      <3> QED BY <2>q, <3>1, <3>2
    <2>4. ASSUME Catalogue!FindAgents(r) PROVE OutOfReach(get'[r], gone)
      <3>1. h.owners \cap gone = {}
        BY <1>o, <2>4 DEF Catalogue!FindAgents, OutOfReach
      <3>2. PICK bad, owners :
              /\ owners = h.owners \union Catalogue!Found(Catalogue!AgentsIn(h.groups), bad)
              /\ \/ Catalogue!Continues(r, [pc |-> "nodes", kind |-> "fetch", who |-> h.who,
                                            owners |-> owners], bad)
                 \/ Catalogue!Finish(r, {}, bad)
        BY <2>4 DEF Catalogue!FindAgents
      <3>3. Catalogue!Found(Catalogue!AgentsIn(h.groups), bad) \cap gone = {}
        BY LinkedAreIn DEF DeletedInv, Catalogue!Found
      <3>4. owners \cap gone = {}
        BY <3>1, <3>2, <3>3
      <3> QED BY <2>e, <2>q, <3>2, <3>4
    <2>5. ASSUME Catalogue!ReadNodes(r) PROVE OutOfReach(get'[r], gone)
      <3>1. h.owners \cap gone = {}
        BY <1>o, <2>5 DEF Catalogue!ReadNodes, OutOfReach
      <3>2. PICK bad : Catalogue!Finish(r, Catalogue!Found(Catalogue!NodesOf(h.owners), bad), bad)
        BY <2>5 DEF Catalogue!ReadNodes
      <3>3. \A x \in Catalogue!Found(Catalogue!NodesOf(h.owners), bad) : x[1] \notin gone
        BY <3>1 DEF Catalogue!NodesOf, Catalogue!Found
      <3>4. /\ get'[r].pc = "done"
            /\ get'[r].answer = Catalogue!Found(Catalogue!NodesOf(h.owners), bad)
        BY <1>f, <3>2
      <3> QED BY <3>3, <3>4 DEF OutOfReach
    <2>6. ASSUME Catalogue!FindUsers(r) PROVE OutOfReach(get'[r], gone)
      BY <2>6, <2>p DEF Catalogue!FindUsers
    <2>7. ASSUME NEW u \in Users, Catalogue!LoadLimit(r, u)
          PROVE  OutOfReach(get'[r], gone)
      <3>1. PICK new : get' = [get EXCEPT ![r] = new] /\ new.pc = "limits"
        BY <2>7, LimitMoves DEF PanelInv
      <3>2. get'[r] = new
        BY <1>o, <3>1
      <3> QED BY <1>n, <3>1, <3>2
    <2>8. ASSUME Catalogue!TellAgent(r) PROVE OutOfReach(get'[r], gone)
      <3>1. h.kind = "poll"
        BY <2>8 DEF Catalogue!TellAgent, PanelInv, PanelOK, PollOK
      <3>2. PICK answer : Catalogue!Finish(r, answer, FALSE)
        BY <2>8 DEF Catalogue!TellAgent
      <3> QED BY <2>k, <3>1, <3>2
    <2>9. ASSUME Catalogue!FindGroups(r) \/ Catalogue!FindPlans(r)
          PROVE  OutOfReach(get'[r], gone)
      <3>1. h.kind = "poll"
        BY <2>9 DEF Catalogue!FindGroups, Catalogue!FindPlans, PanelInv, PanelOK, PollOK
      <3>2. CASE Catalogue!FindGroups(r)
        BY <2>k, <2>p, <3>1, <3>2 DEF Catalogue!FindGroups
      <3>3. CASE Catalogue!FindPlans(r)
        BY <2>k, <2>p, <3>1, <3>3 DEF Catalogue!FindPlans
      <3> QED BY <2>9, <3>2, <3>3
    <2>10. ASSUME Catalogue!GiveUp(r) PROVE OutOfReach(get'[r], gone)
      <3>1. get'[r] = Catalogue!NoRequest
        BY <1>o, <2>10 DEF Catalogue!GiveUp
      <3> QED BY <1>n, <3>1 DEF Catalogue!NoRequest
    <2>11. OutOfReach(get'[r], gone)
      BY <1>3, <2>1, <2>2, <2>3, <2>4, <2>5, <2>6, <2>7, <2>8, <2>9, <2>10
         DEF Look, Catalogue!ReadStep
    <2> QED BY <2>0, <2>11
  <1> QED BY <1>1, <1>2, <1>3 DEF Reader

LEMMA NextDeletedInv == PanelInv /\ DeletedInv /\ [PanelNext]_panelVars => DeletedInv'
  <1> SUFFICES ASSUME PanelInv, DeletedInv, [PanelNext]_panelVars PROVE DeletedInv'
    OBVIOUS
  <1>k. ASSUME get' = get, \A r \in Gets : begun'[r] \subseteq begun[r]
        PROVE  ReadersMissGone'
    BY <1>k DEF DeletedInv, ReadersMissGone, OutOfReach
  <1>1. CASE Handle
    <2>1. get' = get /\ begun' = begun
      BY <1>1 DEF Handle, Catalogue!Disturb
    <2> QED BY <1>1, <1>k, <2>1, HandleDropped DEF DeletedInv
  <1>7. CASE Stop
    <2>1. /\ UNCHANGED <<links, stray, begun, agents>>
          /\ removing' = [a \in Agents |-> "no"]
      BY <1>7 DEF Stop, Crash, tables
    <2>2. LinksDropped' /\ BegunGone'
      BY <2>1 DEF DeletedInv, LinksDropped, BegunGone, Dropped
    <2>3. \A r \in Gets : get'[r] \in {get[r], Catalogue!NoRequest}
      BY <1>7 DEF Stop, Catalogue!EndAll
    <2>4. \A gone : OutOfReach(Catalogue!NoRequest, gone)
      BY DEF OutOfReach, Catalogue!NoRequest
    <2>5. ReadersMissGone'
      BY <2>1, <2>3, <2>4 DEF DeletedInv, ReadersMissGone
    <2> QED BY <2>2, <2>5 DEF DeletedInv
  <1>2. CASE \E as \in Lists : StartUpdate(as)
    <2>1. UNCHANGED <<links, stray, begun, get, agents, removing>>
      BY <1>2 DEF StartUpdate, vars, tables
    <2> QED BY <1>k, <2>1 DEF DeletedInv, LinksDropped, BegunGone, Dropped
  <1>3. CASE ClearLinks
    <2>1. links' \in {links, {}} /\ UNCHANGED <<stray, begun, get, agents, removing>>
      BY <1>3 DEF ClearLinks, vars, tables, Catalogue!Disturb
    <2> QED BY <1>k, <2>1 DEF DeletedInv, LinksDropped, BegunGone, Dropped
  <1>4. ASSUME NEW a \in Agents, AddLink(a) PROVE DeletedInv'
    <2>1. get' = get /\ begun' \in {begun, [r \in Gets |-> begun[r] \ {a}]}
      BY <1>4 DEF AddLink, Catalogue!Disturb
    <2> QED BY <1>4, <1>k, <2>1, AddLinkDropped DEF DeletedInv
  <1>5. ASSUME NEW r \in Gets, Reader(r) PROVE DeletedInv'
    <2>1. /\ UNCHANGED <<links, stray, agents, removing>>
          /\ \A q \in Gets : q # r => get'[q] = get[q]
      BY <1>5, ReaderMoves DEF PanelInv, vars, tables
    <2>2. begun \in [Gets -> SUBSET Agents]
      BY DEF PanelInv, PanelOK
    <2>3. /\ \A q \in Gets : q # r => begun'[q] = begun[q]
          /\ begun'[r] = begun[r] \/ begun'[r] = Gone
      BY <1>5, <2>2 DEF Reader, AskNodes, AskUsers, Look
    <2>4. LinksDropped' /\ BegunGone'
      BY <2>1, <2>3 DEF DeletedInv, LinksDropped, BegunGone, Dropped, Gone
    <2>5. OutOfReach(get'[r], begun'[r])
      BY <1>5, ReaderOutOfReach
    <2>6. ReadersMissGone'
      BY <2>1, <2>3, <2>5 DEF DeletedInv, ReadersMissGone
    <2> QED BY <2>4, <2>6 DEF DeletedInv
  <1>6. CASE UNCHANGED panelVars
    <2>1. UNCHANGED <<links, stray, begun, get, agents, removing>>
      BY <1>6 DEF panelVars, vars, tables
    <2> QED BY <1>k, <2>1 DEF DeletedInv, LinksDropped, BegunGone, Dropped
  <1> QED BY <1>1, <1>2, <1>3, <1>4, <1>5, <1>6, <1>7 DEF PanelNext, Reader

\* No subscription fetched after an agent was deleted holds a node of it,
\* whatever report comes late, whatever crashes and whatever else fails, unless
\* the DELETE of its relations failed or a group update listed the agent again.
THEOREM DeletedIsNotServed == PanelSpec => []DeletedAgentIsNotServed
  <1>1. PanelInit => DeletedInv
    <2> SUFFICES ASSUME PanelInit PROVE DeletedInv
      OBVIOUS
    <2>1. \A a \in Agents : ~Dropped(a)
      BY DEF PanelInit, Init, Dropped, FreshAgent, NoAgent
    <2> QED BY <2>1 DEF PanelInit, DeletedInv, LinksDropped, BegunGone, ReadersMissGone,
                        OutOfReach, Catalogue!NoRequest
  <1>2. DeletedInv => DeletedAgentIsNotServed
    BY DEF DeletedInv, ReadersMissGone, OutOfReach, DeletedAgentIsNotServed, Fetched
  <1> QED BY <1>1, <1>2, NextDeletedInv, PanelInvariant, InitPanelInv, NextPanelInv,
             PTL DEF PanelSpec

-----------------------------------------------------------------------------
\* What the last SELECT of a subscription finds of an agent is all that is
\* cached for it, and that comes from the report that last cleared it, if no
\* report cached its nodes without having cleared the others.
LEMMA RowsOfOneReport ==
  ASSUME IInv, PlaceInv, CacheInv, NEW a \in Agents, RowsOf(a) # {},
         \A x \in RowsOf(a) : <<x[1], "clear">> \notin failed
  PROVE  \E d \in Deliveries :
           /\ req[d].agent = a
           /\ \/ RowsOf(a) = Cached(d, Body(d).nodes)
              \/ /\ RowsOf(a) \subseteq Cached(d, Body(d).nodes)
                 /\ InFlight(d) \/ d \in dropped \/ ~Undisturbed(d)
  <1> DEFINE d == publisher[a]
  <1>1. \A x \in RowsOf(a) : /\ x = <<x[1], x[2]>> /\ x[1] = d /\ x[1] \in Deliveries
                             /\ req[x[1]].agent = a /\ x[2] \in 1 .. Body(x[1]).nodes
    <2> TAKE x \in RowsOf(a)
    <2>1. x \in cache /\ req[x[1]].agent = a
      BY DEF RowsOf
    <2>2. x \in Deliveries \X Nat
      BY <2>1 DEF IInv, TypeOK
    <2>3. x[2] \in 1 .. Body(x[1]).nodes
      BY <2>1 DEF PlaceInv, RowsHaveOrigin, Body
    <2>4. x[1] = d
      BY DEF CacheInv, CacheOfOneReport
    <2> HIDE DEF d
    <2> QED BY <2>1, <2>2, <2>3, <2>4
  <1>2. d \in Deliveries /\ req[d].agent = a
    BY <1>1
  <1> HIDE DEF d
  <1>3. RowsOf(a) \subseteq Cached(d, Body(d).nodes)
    BY <1>1 DEF Cached
  <1>4. Publishes(a, d)
    BY <1>2 DEF CacheInv, PublisherInv, d
  <1>5. ASSUME ~InFlight(d), d \notin dropped, Undisturbed(d)
        PROVE  RowsOf(a) = Cached(d, Body(d).nodes)
    <2>1. req[d].pc = "done"
      BY <1>2, <1>4, <1>5 DEF Publishes, InFlight, Steps, Undisturbed
    <2> QED BY <1>4, <1>5, <2>1 DEF Publishes
  <1> QED BY <1>2, <1>3, <1>5

\* A subscription never mixes two reports of an agent that waits for its
\* answers, unless the DELETE of one of them failed, and holds one in part only
\* while it is being written, after a DELETE took nodes out of it, or after a
\* crash or a statement that failed.
THEOREM FetchFromOneReport == Serial => (PanelSpec => FetchIsFromOneReport)
  <1> SUFFICES ASSUME Serial PROVE PanelSpec => FetchIsFromOneReport
    OBVIOUS
  <1>1. PanelInit => CacheInv
    BY InitCacheInv DEF PanelInit
  <1>2. PanelInv /\ CacheInv /\ [PanelNext]_panelVars => CacheInv'
    BY PanelSteps, NextCacheInv DEF PanelInv
  <1>3. PanelInv /\ CacheInv /\ [PanelNext]_panelVars =>
          [\A r \in Gets : get[r].pc = "nodes" /\ get'[r].pc = "done" =>
             \A a \in Agents :
               LET served == {x[2] : x \in {y \in get'[r].answer : y[1] = a}} IN
                 \/ served = {}
                 \/ \E x \in served : <<x[1], "clear">> \in failed
                 \/ \E d \in Deliveries :
                      /\ req[d].agent = a
                      /\ \/ served = Cached(d, Body(d).nodes)
                         \/ /\ served \subseteq Cached(d, Body(d).nodes)
                            /\ InFlight(d) \/ d \in dropped \/ ~Undisturbed(d)
          ]_panelVars
    <2> SUFFICES ASSUME PanelInv, CacheInv, PanelNext, NEW r \in Gets,
                        get[r].pc = "nodes", get'[r].pc = "done", NEW a \in Agents
                 PROVE  LET served == {x[2] : x \in {y \in get'[r].answer : y[1] = a}} IN
                          \/ served = {}
                          \/ \E x \in served : <<x[1], "clear">> \in failed
                          \/ \E d \in Deliveries :
                               /\ req[d].agent = a
                               /\ \/ served = Cached(d, Body(d).nodes)
                                  \/ /\ served \subseteq Cached(d, Body(d).nodes)
                                     /\ InFlight(d) \/ d \in dropped \/ ~Undisturbed(d)
      OBVIOUS
    <2> DEFINE served == {x[2] : x \in {y \in get'[r].answer : y[1] = a}}
    <2>1. PICK q \in Gets : Reader(q)
      <3>1. ~Stop
        BY DEF Stop, Catalogue!EndAll, Catalogue!NoRequest
      <3> QED BY <3>1 DEF PanelNext, Reader, Handle, StartUpdate, ClearLinks, AddLink,
                          Catalogue!Disturb
    <2>2. q = r
      BY <2>1, ReaderMoves DEF PanelInv
    <2>3. Catalogue!ReadNodes(r)
      BY <2>1, <2>2
         DEF Reader, AskNodes, AskUsers, Look, Catalogue!ReadStep, Catalogue!Fetch,
             Catalogue!Poll, Catalogue!Begins, Catalogue!LoadPlan, Catalogue!Collect,
             Catalogue!FindSources, Catalogue!FindAgents, Catalogue!FindGroups,
             Catalogue!FindPlans, Catalogue!GiveUp, Catalogue!FindUsers, Catalogue!LoadLimit,
             Catalogue!TellAgent
    <2>4. get'[r].answer = {} \/ get'[r].answer = Catalogue!NodesOf(get[r].owners)
      BY <2>3 DEF Catalogue!ReadNodes, Catalogue!Found, Catalogue!Finish, PanelInv, PanelOK
    <2>5. served # {} => served = RowsOf(a)
      <3>0. CASE get'[r].answer = {}
        BY <3>0
      <3> SUFFICES ASSUME get'[r].answer = Catalogue!NodesOf(get[r].owners)
                   PROVE  served # {} => served = RowsOf(a)
        BY <2>4, <3>0
      <3>1. served # {} => a \in get[r].owners
        BY DEF Catalogue!NodesOf
      <3>2. a \in get[r].owners =>
              {y \in get'[r].answer : y[1] = a} = {y \in NodeRows : y[1] = a}
        BY DEF Catalogue!NodesOf
      <3>3. {x[2] : x \in {y \in NodeRows : y[1] = a}} = RowsOf(a)
        <4>1. \A y \in NodeRows : y[1] = a => y[2] \in RowsOf(a)
          BY DEF NodeRows, RowsOf
        <4>2. \A x \in RowsOf(a) : <<a, x>> \in NodeRows
          BY DEF NodeRows, RowsOf
        <4>3. \A x : <<a, x>>[1] = a /\ <<a, x>>[2] = x
          OBVIOUS
        <4> QED BY <4>1, <4>2, <4>3
      <3> QED BY <3>1, <3>2, <3>3
    <2> HIDE DEF served
    <2>6. \/ served = {}
          \/ \E x \in served : <<x[1], "clear">> \in failed
          \/ \E d \in Deliveries :
               /\ req[d].agent = a
               /\ \/ served = Cached(d, Body(d).nodes)
                  \/ /\ served \subseteq Cached(d, Body(d).nodes)
                     /\ InFlight(d) \/ d \in dropped \/ ~Undisturbed(d)
      BY <2>5, RowsOfOneReport DEF PanelInv
    <2> QED BY <2>6 DEF served
  <1> QED BY <1>1, <1>2, <1>3, InitPanelInv, NextPanelInv,
             PTL DEF PanelSpec, FetchIsFromOneReport

-----------------------------------------------------------------------------
\* The writes of Access that a statement may be.
Writes == \/ Catalogue!Write
          \/ \E e \in Agents \union {Admin} : Catalogue!EditStep(e)

\* The editors of Access, as this module keeps them.
Edits == [e \in Agents \union {Admin} |-> IF e = Admin THEN update ELSE Removal(e)]

\* A handler that has cached a node keeps its agent.
LEMMA OwnersKept ==
  ASSUME IInv, PlaceInv, Next
  PROVE  \A x \in cache : req'[x[1]].agent = req[x[1]].agent
  <1> SUFFICES ASSUME NEW x \in cache, NEW d, d = x[1] PROVE req'[d].agent = req[d].agent
    OBVIOUS
  <1>0. d \in Deliveries /\ req[d] \in Handler /\ req[d].pc # "idle"
    BY DEF IInv, TypeOK, PlaceInv, RowsHaveOrigin
  <1>1. ASSUME NEW e \in Deliveries, Step(e) PROVE req'[d].agent = req[d].agent
    BY <1>0, <1>1, StepMoves
  <1>2. ASSUME NEW e \in Deliveries, NEW a \in Agents, NEW t,
               Refuse(e, a, t) \/ \E b \in Bodies : Admit(e, a, t, b)
        PROVE  req'[d].agent = req[d].agent
    <2>1. e # d
      BY <1>0, <1>2 DEF Refuse, Admit
    <2> QED BY <1>2, <2>1 DEF Refuse, Admit, Goto, IInv, TypeOK
  <1>3. CASE Administer
    BY <1>3 DEF Administer, CreateAgent, ResetToken, SetEnabled, DropNodes, DropLinks,
                DropRow, ResetTraffic, DeleteUser
  <1>4. CASE Crash \/ Tick
    BY <1>0, <1>4 DEF Crash, Tick, Handler
  <1> QED BY <1>1, <1>2, <1>3, <1>4 DEF Next, Running

\* The rows of the cache after a statement, each with its owner.
LEMMA CachedRows ==
  ASSUME IInv, PlaceInv, Next
  PROVE  NodeRows' = {<<req[x[1]].agent, x>> : x \in cache'}
  <1>1. ASSUME NEW x \in cache', x \notin cache PROVE req'[x[1]].agent = req[x[1]].agent
    <2>1. PICK d \in Deliveries : InsertNode(d)
      BY <1>1 DEF Next, Running, Refuse, Admit, Step, RegisterAgent, Stamp, AddVolume, Charge,
                  WriteLog, ClearNodes, Administer, CreateAgent, ResetToken, SetEnabled,
                  DropNodes, DropLinks, DropRow, ResetTraffic, DeleteUser, Crash, Tick, tables
    <2>2. x = Position(d)
      BY <1>1, <2>1 DEF InsertNode
    <2>3. req'[d].agent = req[d].agent
      BY <2>1, StepMoves DEF Step
    <2> QED BY <2>2, <2>3 DEF Position
  <1>2. \A x \in cache' : req'[x[1]].agent = req[x[1]].agent
    BY <1>1, OwnersKept
  <1> QED BY <1>2 DEF NodeRows

\* A statement that nobody who reads the catalogue can see: the same limit is
\* written to the plan again.
LEMMA UnseenStatement ==
  ASSUME PanelInv, Handle,
         UserRows' = UserRows, OtherRows' = OtherRows, cache' = cache, removing' = removing
  PROVE  Writes
  <1>1. links' = links
    BY DEF Handle, AtLinks
  <1>2. NodeRows' = NodeRows
    BY CachedRows DEF Handle, Next, PanelInv, NodeRows
  <1>3. Edits' = Edits
    BY DEF Handle, Edits, Removal
  <1>4. Catalogue!UpdatePlan(Plan, Limit)
    <2>1. Catalogue!PlanLive(Plan)
      BY DEF Catalogue!PlanLive
    <2>2. [p \in {Plan} |-> [row |-> "live", limit |-> Limit]] =
            [[p \in {Plan} |-> [row |-> "live", limit |-> Limit]] EXCEPT ![Plan].limit = Limit]
      OBVIOUS
    <2> QED BY <1>1, <1>2, <1>3, <2>1, <2>2
            DEF Handle, Catalogue!UpdatePlan, Catalogue!OneStatement, Edits
  <1> QED BY <1>4 DEF Writes, Catalogue!Write, Catalogue!WriteOnce

\* What an agent's row looks like to Access, and that it is the same.
LEMMA SameOtherRows ==
  ASSUME \A a \in Agents : agents'[a].row = agents[a].row
  PROVE  OtherRows' = OtherRows
  BY DEF OtherRows

\* A user's row as Access has it, and what an UPDATE of one column makes of it.
SeenUser(live, used) ==
  [plan |-> Plan, enabled |-> TRUE, live |-> live, used |-> used, expired |-> FALSE]

LEMMA WrittenUser ==
  ASSUME NEW live, NEW used, NEW x
  PROVE  /\ [SeenUser(live, used) EXCEPT !.used = x] = SeenUser(live, x)
         /\ [SeenUser(live, used) EXCEPT !.live = x] = SeenUser(x, used)
         /\ SeenUser(live, used).used = used /\ SeenUser(live, used).live = live
  <1> DEFINE fields == {"plan", "enabled", "live", "used", "expired"}
             h == SeenUser(live, used)
  <1>1. /\ h = [f \in fields |-> h[f]]
        /\ h["plan"] = Plan /\ h["enabled"] = TRUE /\ h["live"] = live
        /\ h["used"] = used /\ h["expired"] = FALSE
    BY DEF SeenUser
  <1> HIDE DEF h
  <1>2. ASSUME NEW new, new = [h EXCEPT !.used = x] PROVE new = SeenUser(live, x)
    <2>1. new = [f \in fields |-> IF f = "used" THEN x ELSE h[f]]
      BY <1>1, <1>2
    <2> QED BY <1>1, <2>1 DEF SeenUser
  <1>3. ASSUME NEW new, new = [h EXCEPT !.live = x] PROVE new = SeenUser(x, used)
    <2>1. new = [f \in fields |-> IF f = "live" THEN x ELSE h[f]]
      BY <1>1, <1>3
    <2> QED BY <1>1, <2>1 DEF SeenUser
  <1> QED BY <1>1, <1>2, <1>3 DEF h

LEMMA WrittenUserRows ==
  ASSUME TypeOK, NEW u \in Users, NEW x
  PROVE  /\ users' = [users EXCEPT ![u].used = x] => UserRows' = [UserRows EXCEPT ![u].used = x]
         /\ users' = [users EXCEPT ![u].live = x] => UserRows' = [UserRows EXCEPT ![u].live = x]
         /\ UserRows[u].used = users[u].used /\ UserRows[u].live = users[u].live
  <1> DEFINE old == users[u]
  <1>1. users = [v \in Users |-> users[v]] /\ old \in UserRow
    BY DEF TypeOK
  <1>2. /\ UserRows = [v \in Users |-> SeenUser(users[v].live, users[v].used)]
        /\ UserRows' = [v \in Users |-> SeenUser(users'[v].live, users'[v].used)]
    BY DEF UserRows, SeenUser
  <1>3. ASSUME users' = [users EXCEPT ![u].used = x]
        PROVE  UserRows' = [UserRows EXCEPT ![u].used = x]
    <2>1. /\ \A v \in Users : v # u => users'[v] = users[v]
          /\ users'[u].live = old.live /\ users'[u].used = x
      BY <1>1, <1>3 DEF UserRow
    <2>2. SeenUser(users'[u].live, users'[u].used) = [UserRows[u] EXCEPT !.used = x]
      BY <1>2, <2>1, WrittenUser
    <2> QED BY <1>2, <2>1, <2>2
  <1>4. ASSUME users' = [users EXCEPT ![u].live = x]
        PROVE  UserRows' = [UserRows EXCEPT ![u].live = x]
    <2>1. /\ \A v \in Users : v # u => users'[v] = users[v]
          /\ users'[u].live = x /\ users'[u].used = old.used
      BY <1>1, <1>4 DEF UserRow
    <2>2. SeenUser(users'[u].live, users'[u].used) = [UserRows[u] EXCEPT !.live = x]
      BY <1>2, <2>1, WrittenUser
    <2> QED BY <1>2, <2>1, <2>2
  <1> QED BY <1>2, <1>3, <1>4, WrittenUser

\* A report's statements: the counters, the deletion and the insertions are
\* writes of Access on their own, and the others are not seen.
LEMMA StepWrites ==
  ASSUME PanelInv, Handle, NEW d \in Deliveries, Step(d)
  PROVE  Writes
  <1>n. Next
    BY DEF Handle, Next
  <1>0. /\ IInv /\ PlaceInv /\ TypeOK /\ removing' = removing
        /\ req[d].agent \in Agents /\ Body(d) \in Bodies /\ InFlight(d)
    BY StepMoves, StepPlaces DEF PanelInv, PlaceInv, IInv
  <1>r. OtherRows' = OtherRows
    <2>1. \A a \in Agents : agents'[a].row = agents[a].row
      BY <1>0, StepKeepsRowState
    <2> QED BY <2>1, SameOtherRows
  <1>e. Edits' = Edits /\ links' = links
    BY <1>0 DEF Handle, AtLinks, Edits, Removal
  <1> DEFINE a == req[d].agent
  <1>1. CASE RegisterAgent(d) \/ Stamp(d) \/ AddVolume(d) \/ WriteLog(d)
    <2>1. users' = users /\ cache' = cache
      BY <1>1 DEF RegisterAgent, Stamp, AddVolume, WriteLog
    <2>2. UserRows' = UserRows
      BY <2>1 DEF UserRows
    <2> QED BY <1>0, <1>r, <2>1, <2>2, UnseenStatement
  <1>g. a # Group /\ OtherRows[a] # "absent"
    BY <1>0, CatalogueAssumption DEF OtherRows, PlaceInv, PlaceOK
  <1>2. CASE Charge(d)
    <2> DEFINE u == EntryOf(d).user
               n == EntryOf(d).bytes
    <2>0. u \in Users /\ n \in Volumes
      <3>1. req[d].at \in DOMAIN Body(d).traffic
        BY <1>0, <1>2 DEF IInv, HandlerOK, Charge
      <3>2. EntryOf(d) \in Entry
        BY <1>0, <3>1, BodyType DEF EntryOf
      <3> QED BY <1>0, <3>1, <3>2 DEF Entry, EntryOf, Volumes
    <2>1. cache' = cache
      BY <1>2 DEF Charge
    <2>2. CASE /\ EntryOf(d).genuine /\ users[u].live
               /\ users' = [users EXCEPT ![u].used = @ + n]
      <3>1. users' = [users EXCEPT ![u].used = @ + n]
        BY <2>2
      <3> HIDE DEF u, n
      <3>2. UserRows' = [UserRows EXCEPT ![u].used = @ + n]
        BY <1>0, <2>0, <3>1, WrittenUserRows
      <3>3. UserRows[u].live
        BY <2>0, <2>2 DEF UserRows
      <3>4. NodeRows' = NodeRows
        BY <1>0, <1>n, <2>1, CachedRows DEF NodeRows
      <3>5. Catalogue!CountTraffic(u, n)
        BY <1>r, <1>e, <3>2, <3>3, <3>4
           DEF Handle, Catalogue!CountTraffic, Catalogue!OneStatement, Edits
      <3> QED BY <2>0, <3>5 DEF Writes, Catalogue!Write, Catalogue!WriteOnce
    <2>3. CASE users' = users
      BY <1>0, <1>r, <2>1, <2>3, UnseenStatement DEF UserRows
    <2> QED BY <1>2, <2>2, <2>3 DEF Charge
  <1>3. CASE ClearNodes(d)
    <2>1. cache' \in {cache, cache \ RowsOf(a)} /\ users' = users
      BY <1>3 DEF ClearNodes
    <2>2. UserRows' = UserRows
      BY <2>1 DEF UserRows
    <2>3. CASE cache' = cache
      BY <1>0, <1>r, <2>2, <2>3, UnseenStatement
    <2>4. CASE cache' = cache \ RowsOf(a)
      <3>1. NodeRows' = {x \in NodeRows : x[1] # a}
        BY <1>0, <1>n, <2>4, CachedRows DEF NodeRows, RowsOf
      <3>2. Catalogue!ClearNodes(a)
        BY <1>r, <1>e, <1>g, <2>2, <3>1
           DEF Handle, Catalogue!ClearNodes, Catalogue!OneStatement, Edits
      <3> QED BY <1>0, <3>2 DEF Writes, Catalogue!Write, Catalogue!WriteOnce
    <2> QED BY <2>1, <2>3, <2>4
  <1>4. CASE InsertNode(d)
    <2>1. cache' \in {cache, cache \union {Position(d)}} /\ users' = users
      BY <1>4 DEF InsertNode
    <2>2. UserRows' = UserRows
      BY <2>1 DEF UserRows
    <2>3. CASE cache' = cache
      BY <1>0, <1>r, <2>2, <2>3, UnseenStatement
    <2>4. CASE cache' = cache \union {Position(d)}
      <3>1. NodeRows' = NodeRows \union {<<a, Position(d)>>}
        BY <1>0, <1>n, <2>4, CachedRows DEF NodeRows, Position
      <3>2. Position(d) \in Positions
        BY <1>0, <1>4 DEF Position, Positions, PlaceInv, PlaceOK, InsertNode, Body
      <3>3. Catalogue!InsertNode(a, Position(d))
        BY <1>r, <1>e, <1>g, <2>2, <3>1
           DEF Handle, Catalogue!InsertNode, Catalogue!OneStatement, Edits
      <3> QED BY <1>0, <3>2, <3>3 DEF Writes, Catalogue!Write, Catalogue!WriteOnce
    <2> QED BY <2>1, <2>3, <2>4
  <1> QED BY <1>1, <1>2, <1>3, <1>4 DEF Step

\* So are the administrator's requests.
LEMMA AdministerWrites ==
  ASSUME PanelInv, Handle, Administer
  PROVE  Writes
  <1>n. Next
    BY DEF Handle, Next
  <1>0. /\ IInv /\ PlaceInv /\ TypeOK /\ get' = get /\ Catalogue!Disturb
        /\ removing \in [Agents -> {"no", "links", "row"}]
    BY DEF PanelInv, IInv, TypeOK, Handle, Catalogue!Disturb
  <1>k. /\ removing' = removing => links' = links /\ Edits' = Edits
        /\ cache' = cache => NodeRows' = NodeRows
        /\ users' = users => UserRows' = UserRows
        /\ agents' = agents => OtherRows' = OtherRows
    BY <1>0, <1>n, CachedRows, SameOtherRows
       DEF Handle, AtLinks, Edits, Removal, UserRows, NodeRows
  <1>a. \A a \in Agents : a # Group /\ a # Admin
    BY CatalogueAssumption
  <1>1. ASSUME NEW a \in Agents, CreateAgent(a) PROVE Writes
    <2>1. UNCHANGED <<users, cache, removing>>
      BY <1>1 DEF CreateAgent
    <2>2. OtherRows[a] = "absent" /\ OtherRows' = [OtherRows EXCEPT ![a] = "live"]
      BY <1>0, <1>1, <1>a DEF CreateAgent, OtherRows, FreshAgent, TypeOK
    <2>3. Catalogue!CreateOwner(a)
      BY <1>0, <1>k, <2>1, <2>2 DEF Catalogue!CreateOwner, Catalogue!OneStatement, Edits
    <2> QED BY <2>3 DEF Writes, Catalogue!Write, Catalogue!WriteOnce, Catalogue!Owners
  <1>2. ASSUME NEW a \in Agents, ResetToken(a) \/ \E on \in BOOLEAN : SetEnabled(a, on)
        PROVE  Writes
    <2>1. UNCHANGED <<users, cache, removing>>
      BY <1>2 DEF ResetToken, SetEnabled
    <2>2. \A b \in Agents : agents'[b].row = agents[b].row
      BY <1>0, <1>2, EditKeepsRowState
    <2> QED BY <1>k, <2>1, <2>2, UnseenStatement, SameOtherRows
  <1>3. ASSUME NEW a \in Agents, DropNodes(a) PROVE Writes
    <2>1. /\ removing[a] = "no" /\ removing' = [removing EXCEPT ![a] = "links"]
          /\ cache' \in {cache, cache \ RowsOf(a)} /\ users' = users /\ agents' = agents
      BY <1>3 DEF DropNodes
    <2>2. NodeRows' \in {NodeRows, {x \in NodeRows : x[1] # a}}
      <3>1. CASE cache' = cache
        BY <1>k, <3>1
      <3>2. CASE cache' = cache \ RowsOf(a)
        <4>1. NodeRows' = {x \in NodeRows : x[1] # a}
          BY <1>0, <1>n, <3>2, CachedRows DEF NodeRows, RowsOf
        <4> QED BY <4>1
      <3> QED BY <2>1, <3>1, <3>2
    <2>3. links' = links
      BY <1>0, <2>1 DEF Handle, AtLinks
    <2>4. Edits[a] = Catalogue!NoEdit /\ Edits' = [Edits EXCEPT ![a] = [op |-> "unlink", on |-> a]]
      BY <1>0, <1>a, <2>1 DEF Handle, Edits, Removal, Catalogue!NoEdit
    <2>5. Catalogue!Uncache(a, a)
      BY <1>0, <1>k, <2>1, <2>2, <2>3, <2>4 DEF Catalogue!Uncache, Catalogue!Begin, Edits
    <2> QED BY <2>5 DEF Writes, Catalogue!Write, Catalogue!StartEdit
  <1>4. ASSUME NEW a \in Agents, DropLinks(a) PROVE Writes
    <2>1. /\ removing[a] = "links" /\ removing' = [removing EXCEPT ![a] = "row"]
          /\ cache' = cache /\ users' = users /\ agents' = agents
      BY <1>4 DEF DropLinks, tables
    <2>2. Edits[a] = [op |-> "unlink", on |-> a]
      BY <1>a, <2>1 DEF Edits, Removal
    <2>3. Edits' = [Edits EXCEPT ![a] = [op |-> "bury", on |-> a]]
      BY <1>0, <1>a, <2>1 DEF Handle, Edits, Removal
    <2>4. links' \in {links, {x \in links : x[2] # a}}
      <3>1. AtLinks(a) /\ \A b \in Agents : AtLinks(b) => b = a
        BY <1>0, <2>1 DEF AtLinks
      <3>2. Unlink(a)
        BY <3>1 DEF Handle
      <3> QED BY <3>2 DEF Unlink
    <2>5. [Edits[a] EXCEPT !.op = "bury"] = [op |-> "bury", on |-> a]
      BY <2>2
    <2>6. /\ Edits[a].op = "unlink" /\ links' \in {links, {x \in links : x[2] # Edits[a].on}}
          /\ UNCHANGED <<UserRows, OtherRows, NodeRows>>
          /\ Edits' = [Edits EXCEPT ![a] = [Edits[a] EXCEPT !.op = "bury"]]
      <3>1. Edits[a].op = "unlink" /\ Edits[a].on = a
        BY <2>2
      <3>2. Edits' = [Edits EXCEPT ![a] = [Edits[a] EXCEPT !.op = "bury"]]
        BY <2>3, <2>5, Zenon
      <3>3. links' \in {links, {x \in links : x[2] # Edits[a].on}}
        BY <2>4, <3>1, Zenon
      <3> QED BY <1>k, <2>1, <3>1, <3>2, <3>3
    <2>7. Catalogue!Unlink(a)
      BY <1>0, <2>6 DEF Catalogue!Unlink, Catalogue!Continue, Edits
    <2> QED BY <2>7 DEF Writes, Catalogue!EditStep
  <1>5. ASSUME NEW a \in Agents, DropRow(a) PROVE Writes
    <2>1. /\ removing[a] = "row" /\ removing' = [removing EXCEPT ![a] = "no"]
          /\ cache' = cache /\ users' = users
      BY <1>5 DEF DropRow
    <2>2. Edits[a] = [op |-> "bury", on |-> a]
      BY <1>a, <2>1 DEF Edits, Removal
    <2>3. Edits' = [Edits EXCEPT ![a] = Catalogue!NoEdit]
      BY <1>0, <1>a, <2>1 DEF Handle, Edits, Removal, Catalogue!NoEdit
    <2>4. links' = links
      BY <1>0, <2>1 DEF Handle, AtLinks
    <2>5. \/ OtherRows' = OtherRows
          \/ OtherRows[a] = "live" /\ OtherRows' = [OtherRows EXCEPT ![a] = "deleted"]
      <3>1. \/ agents' = agents
            \/ Live(a) /\ agents' = [agents EXCEPT ![a] = [agents[a] EXCEPT !.row = "deleted"]]
        BY <1>5 DEF DropRow, UpdateRow
      <3>2. agents[a] \in AgentRow /\ [agents[a] EXCEPT !.row = "deleted"].row = "deleted"
        BY <1>0 DEF TypeOK, AgentRow
      <3>3. CASE agents' = agents
        BY <1>k, <3>3
      <3>4. CASE Live(a) /\ agents' = [agents EXCEPT ![a] = [agents[a] EXCEPT !.row = "deleted"]]
        <4>1. /\ \A b \in Agents : b # a => agents'[b] = agents[b]
              /\ agents'[a].row = "deleted" /\ agents[a].row = "live"
          BY <1>0, <3>2, <3>4 DEF TypeOK, Live
        <4> QED BY <1>a, <4>1 DEF OtherRows
      <3> QED BY <3>1, <3>3, <3>4
    <2>6. /\ Edits[a].op = "bury" /\ Edits' = [Edits EXCEPT ![a] = Catalogue!NoEdit]
          /\ UNCHANGED <<UserRows, links, NodeRows>>
          /\ \/ OtherRows' = OtherRows
             \/ /\ OtherRows[Edits[a].on] = "live"
                /\ OtherRows' = [OtherRows EXCEPT ![Edits[a].on] = "deleted"]
      BY <1>k, <2>1, <2>2, <2>3, <2>4, <2>5
    <2>7. Catalogue!Bury(a)
      BY <1>0, <2>6 DEF Catalogue!Bury, Catalogue!Continue, Edits
    <2> QED BY <2>7 DEF Writes, Catalogue!EditStep
  <1>6. ASSUME NEW u \in Users, ResetTraffic(u) \/ DeleteUser(u) PROVE Writes
    <2>1. UNCHANGED <<agents, cache, removing>> /\ users[u].live
      BY <1>6 DEF ResetTraffic, DeleteUser
    <2>2. UserRows[u].live
      BY <1>0, <2>1, WrittenUserRows
    <2>3. CASE ResetTraffic(u)
      <3>1. UserRows' = [UserRows EXCEPT ![u].used = 0]
        BY <1>0, <2>3, WrittenUserRows DEF ResetTraffic
      <3>2. Catalogue!ResetTraffic(u)
        BY <1>0, <1>k, <2>1, <2>2, <3>1
           DEF Catalogue!ResetTraffic, Catalogue!OneStatement, Edits
      <3> QED BY <3>2 DEF Writes, Catalogue!Write, Catalogue!WriteOnce
    <2>4. CASE DeleteUser(u)
      <3>1. UserRows' = [UserRows EXCEPT ![u].live = FALSE]
        BY <1>0, <2>4, WrittenUserRows DEF DeleteUser
      <3>2. Catalogue!DeleteUser(u)
        BY <1>0, <1>k, <2>1, <2>2, <3>1
           DEF Catalogue!DeleteUser, Catalogue!OneStatement, Edits
      <3> QED BY <3>2 DEF Writes, Catalogue!Write, Catalogue!WriteOnce
    <2> QED BY <1>6, <2>3, <2>4
  <1> QED BY <1>1, <1>2, <1>3, <1>4, <1>5, <1>6 DEF Administer

\* So is every statement of the handlers.
LEMMA HandleWrites ==
  ASSUME PanelInv, Handle
  PROVE  Writes
  <1>1. ASSUME NEW d \in Deliveries, NEW a \in Agents, NEW t,
               Refuse(d, a, t) \/ \E b \in Bodies : Admit(d, a, t, b)
        PROVE  Writes
    <2>1. UNCHANGED <<agents, users, cache, removing>>
      BY <1>1 DEF Refuse, Admit, tables
    <2> QED BY <2>1, UnseenStatement, SameOtherRows DEF UserRows
  <1>2. CASE Tick
    <2>1. UNCHANGED <<users, cache, removing>>
      BY <1>2 DEF Tick
    <2>2. \A a \in Agents : agents'[a].row = agents[a].row
      BY <1>2 DEF Tick, AgentRow, TypeOK, PanelInv, IInv
    <2> QED BY <2>1, <2>2, UnseenStatement, SameOtherRows DEF UserRows
  <1> QED BY <1>1, <1>2, StepWrites, AdministerWrites DEF Handle, Running

\* And the crash of the process ends the editors and the readers of Access.
LEMMA StopCrashes ==
  ASSUME PanelInv, Stop
  PROVE  Catalogue!Crash
  <1>1. UNCHANGED <<users, agents, cache, links>> /\ removing' = [a \in Agents |-> "no"]
    BY DEF Stop, Crash, tables
  <1>2. UNCHANGED <<UserRows, OtherRows>>
    BY <1>1 DEF UserRows, OtherRows
  <1>3. NodeRows' = NodeRows
    BY <1>1, CachedRows DEF PanelInv, Stop, Next, NodeRows
  <1>4. Edits' = [e \in Agents \union {Admin} |-> Catalogue!NoEdit]
    BY <1>1 DEF Stop, Edits, Removal, Catalogue!NoEdit
  <1> QED BY <1>1, <1>2, <1>3, <1>4 DEF Stop, Catalogue!Crash, Catalogue!tables, Edits

\* What Access sees of the tables AgentReport writes.
LEMMA SameTables ==
  ASSUME UNCHANGED vars
  PROVE  /\ UNCHANGED <<UserRows, OtherRows, NodeRows>>
         /\ \A a : Removal(a)' = Removal(a)
  <1>1. UNCHANGED <<users, agents, cache, req, removing>>
    BY DEF vars, tables
  <1>2. UNCHANGED <<UserRows, OtherRows, NodeRows>>
    BY <1>1 DEF UserRows, OtherRows, NodeRows
  <1>3. ASSUME NEW a PROVE Removal(a)' = Removal(a)
    BY <1>1 DEF Removal
  <1> QED BY <1>2, <1>3

\* The entry of the administrator among the editors.
LEMMA AdminEdits ==
  ASSUME NEW todo, UNCHANGED vars, update' = todo
  PROVE  Edits[Admin] = update /\ Edits' = [Edits EXCEPT ![Admin] = todo]
  BY SameTables DEF Edits

\* A group update is the one of Access, statement by statement.
LEMMA UpdateWrites ==
  ASSUME PanelInv, \/ \E as \in Lists : StartUpdate(as)
                   \/ ClearLinks
                   \/ \E a \in Agents : AddLink(a)
  PROVE  Writes
  <1>0. UNCHANGED vars
    BY DEF StartUpdate, ClearLinks, AddLink
  <1>1. ASSUME NEW as \in Lists, StartUpdate(as) PROVE Writes
    <2>0. as \in SUBSET Agents /\ as # None
      BY CatalogueAssumption
    <2>1. /\ Edits[Admin] = Catalogue!NoEdit
          /\ Edits' = [Edits EXCEPT ![Admin] = Catalogue!Relink(Group, {"agents"}, {}, as)]
          /\ UNCHANGED <<UserRows, OtherRows, NodeRows, links, get, since>>
      BY <1>0, <1>1, SameTables, AdminEdits DEF StartUpdate
    <2>2. OtherRows[Group] = "live"
      BY DEF OtherRows
    <2> DEFINE given == [sources |-> None, agents |-> as]
               clear == {list \in {"sources", "agents"} : given[list] # None}
    <2>3. clear = {"agents"}
      <3>1. given["sources"] = None /\ given["agents"] = as
        OBVIOUS
      <3> HIDE DEF given
      <3> QED BY <2>0, <3>1
    <2>4. Catalogue!Listing(None) = {} /\ Catalogue!Listing(as) = as
      BY <2>0 DEF Catalogue!Listing
    <2>5. Catalogue!Begin(Admin, Catalogue!Relink(Group, {"agents"}, {}, as))
      BY <2>1 DEF Catalogue!Begin, Edits
    <2>6. Catalogue!OnlyReads
      BY <2>1 DEF Catalogue!OnlyReads, Catalogue!tables
    <2>7. Catalogue!UpdateGroup(Admin, Group, None, as)
      BY <2>2, <2>3, <2>4, <2>5, <2>6 DEF Catalogue!UpdateGroup
    <2>8. Catalogue!StartEdit(Admin)
      BY <2>0, <2>7 DEF Catalogue!StartEdit
    <2> QED BY <2>8 DEF Writes, Catalogue!Write
  <1>2. CASE ClearLinks
    <2>1. /\ update.op = "relink" /\ update.on = Group /\ update.clear = {"agents"}
          /\ update.sources = {}
      BY <1>2 DEF ClearLinks, PanelInv, PanelOK, UpdateOK, Rewriting
    <2>2. links' \in {links, {x \in links : x[1] # Group}}
      BY <1>2 DEF ClearLinks, PanelInv, PanelOK
    <2>3. /\ Edits[Admin] = update
          /\ Edits' = [Edits EXCEPT ![Admin] = Catalogue!Relink(Group, {}, {}, update.agents)]
      BY <1>0, <1>2, AdminEdits DEF ClearLinks
    <2>4. /\ Edits[Admin].op = "relink" /\ Edits[Admin].clear = {"agents"}
          /\ Edits[Admin].sources = {}
          /\ links' \in {links, {x \in links : x[1] # Edits[Admin].on}}
          /\ Edits' = [Edits EXCEPT ![Admin] =
                         Catalogue!Relink(Edits[Admin].on, {}, {}, Edits[Admin].agents)]
          /\ UNCHANGED <<UserRows, OtherRows, NodeRows>> /\ Catalogue!Disturb
      BY <1>0, <1>2, <2>1, <2>2, <2>3, SameTables DEF ClearLinks
    <2>5. Catalogue!ClearAgents(Admin)
      BY <2>4 DEF Catalogue!ClearAgents, Catalogue!Continue, Edits
    <2> QED BY <2>5 DEF Writes, Catalogue!EditStep
  <1>3. ASSUME NEW a \in Agents, AddLink(a) PROVE Writes
    <2>1. /\ update.op = "relink" /\ update.on = Group /\ update.clear = {}
          /\ update.sources = {} /\ a \in update.agents
      BY <1>3 DEF AddLink, PanelInv, PanelOK, UpdateOK, Rewriting
    <2>2. links' \in {links, links \union {<<Group, a>>}}
      BY <1>3 DEF AddLink
    <2>3. /\ Edits[Admin] = update
          /\ Edits' = [Edits EXCEPT ![Admin] = Catalogue!Relink(Group, {}, {}, update.agents \ {a})]
      BY <1>0, <1>3, AdminEdits DEF AddLink
    <2>4. /\ Edits[Admin].op = "relink" /\ Edits[Admin].clear = {}
          /\ Edits[Admin].sources = {} /\ a \in Edits[Admin].agents
          /\ links' \in {links, links \union {<<Edits[Admin].on, a>>}}
          /\ Edits' = [Edits EXCEPT ![Admin] =
                         Catalogue!Relink(Edits[Admin].on, {}, {}, Edits[Admin].agents \ {a})]
          /\ UNCHANGED <<UserRows, OtherRows, NodeRows>> /\ Catalogue!Disturb
      BY <1>0, <1>3, <2>1, <2>2, <2>3, SameTables DEF AddLink
    <2>5. Catalogue!AddAgent(Admin, a)
      BY <2>4 DEF Catalogue!AddAgent, Catalogue!Continue, Edits
    <2> QED BY <2>5 DEF Writes, Catalogue!EditStep
  <1> QED BY <1>1, <1>2, <1>3

\* A reader is a reader of Access.
LEMMA ReaderReads == ASSUME NEW r \in Gets, Reader(r) PROVE Catalogue!Read
  BY DEF Reader, AskNodes, AskUsers, Look, Catalogue!Read

\* The panel starts as a database an administrator has built.
LEMMA InitCatalogue == PanelInit => Catalogue!Init
  <1> SUFFICES ASSUME PanelInit PROVE Catalogue!Init
    OBVIOUS
  <1> DEFINE Late == Agents \ Known
             Sold == [p \in {Plan} |-> [row |-> "live", limit |-> Limit]]
  <1>0. Known \subseteq Agents /\ Plan \notin Agents /\ Group \notin Agents
    BY ModeAssumption, CatalogueAssumption
  <1>1. OtherRows = [x \in {Group} \union ({} \union Agents) |->
                       IF x \in Late THEN "absent" ELSE "live"]
    BY <1>0 DEF PanelInit, Init, OtherRows, FreshAgent, NoAgent
  <1>2. /\ Sold \in [{Plan} -> [row : {"live"}, limit : {Limit}]
                               \union {[row |-> "absent", limit |-> 0]}]
        /\ \A p \in {Plan} : Catalogue!PlanLive(p) <=> p \notin Late
    BY <1>0 DEF Catalogue!PlanLive
  <1>3. UserRows \in [Users -> [plan : ({Plan} \ Late) \union {None}, enabled : {TRUE},
                                live : {TRUE}, used : 0 .. 0, expired : {FALSE}]]
    BY <1>0 DEF PanelInit, Init, UserRows
  <1>4. /\ {} \in SUBSET (({Group} \ Late) \X ({} \ Late))
        /\ links \in SUBSET (({Group} \ Late) \X (Agents \ Late))
    BY <1>0 DEF PanelInit
  <1>5. NodeRows = {}
    BY DEF PanelInit, Init, NodeRows
  <1>6. Edits = [e \in Agents \union {Admin} |-> Catalogue!NoEdit]
    BY DEF PanelInit, Init, Edits, Removal, Catalogue!NoEdit
  <1> HIDE DEF Sold, Late
  <1> QED BY <1>1, <1>2, <1>3, <1>4, <1>5, <1>6
          DEF PanelInit, Catalogue!Init, Catalogue!Owners, Edits, Sold, Late

\* Every statement of both modules is a statement of Access.
LEMMA PanelStepIsOne ==
  PanelInv /\ [PanelNext]_panelVars => [Catalogue!Statement]_(Catalogue!handlers)
  <1> SUFFICES ASSUME PanelInv, [PanelNext]_panelVars
               PROVE  \/ Catalogue!Read \/ Writes \/ Catalogue!Crash
                      \/ UNCHANGED Catalogue!handlers
    BY DEF Writes, Catalogue!Statement
  <1>1. CASE UNCHANGED panelVars
    <2>1. /\ UNCHANGED <<UserRows, OtherRows, NodeRows, links, get, since>>
          /\ Edits' = Edits
      BY <1>1, SameTables DEF panelVars, Edits
    <2> QED BY <2>1 DEF Catalogue!handlers, Catalogue!tables, Edits
  <1>2. CASE Handle
    BY <1>2, HandleWrites
  <1>3. CASE (\E as \in Lists : StartUpdate(as)) \/ ClearLinks \/ \E a \in Agents : AddLink(a)
    BY <1>3, UpdateWrites
  <1>4. CASE \E r \in Gets : Reader(r)
    BY <1>4, ReaderReads
  <1>5. CASE Stop
    BY <1>5, StopCrashes
  <1> QED BY <1>1, <1>2, <1>3, <1>4, <1>5 DEF PanelNext, Reader

\* Every statement of the real handlers, of a DELETE and of a group update,
\* carried out or failed, is a write of Access, every SELECT a read, and a crash
\* its crash: so what is proved of Access's readers, whatever its coarser
\* writers do, is true of the readers here.
THEOREM AccessImplemented == PanelSpec => ImplementsAccess
  BY InitCatalogue, PanelStepIsOne, PanelInvariant,
     PTL DEF PanelSpec, ImplementsAccess, Catalogue!Unbounded
=============================================================================
