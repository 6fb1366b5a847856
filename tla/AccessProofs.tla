----------------------------- MODULE AccessProofs -----------------------------
(***************************************************************************)
(* Theorems about Access, for any catalogue of plans, groups, sources and  *)
(* agents, any relations between them, and any number of readers and       *)
(* editors at work.                                                        *)
(***************************************************************************)
EXTENDS Access, TLAPS

UserRow == [plan : Plans \union {None}, enabled : BOOLEAN, live : BOOLEAN,
            used : Int, expired : BOOLEAN]
PlanRow == [row : RowStates, limit : Int]

\* The tables, whatever the bound on the traffic.
TableOK ==
  /\ users \in [Users -> UserRow]
  /\ plans \in [Plans -> PlanRow]
  /\ rows \in [Groups \union Owners -> RowStates]
  /\ groupSources \subseteq Groups \X Sources
  /\ groupAgents \subseteq Groups \X Agents
  /\ cached \subseteq Owners \X Nodes

\* What is left to do of a writing request.
Toggle(u, on) == [op |-> "toggle", on |-> u, value |-> on]
Assign(u, p) == [op |-> "assign", on |-> u, value |-> p]
Rewrite(g, clear, ss, as) ==
  [op |-> "relink", on |-> g, clear |-> clear, sources |-> ss, agents |-> as]
Remove(op, a) == [op |-> op, on |-> a]
EditOK(t) ==
  \/ t = NoEdit
  \/ \E u \in Users, on \in BOOLEAN : t = Toggle(u, on)
  \/ \E u \in Users, p \in Plans \union {None} : t = Assign(u, p)
  \/ \E g \in Groups, clear \in SUBSET {"sources", "agents"},
        ss \in SUBSET Sources, as \in SUBSET Agents : t = Rewrite(g, clear, ss, as)
  \/ \E op \in {"unlink", "bury"}, a \in Agents : t = Remove(op, a)

\* What a reader carries from one SELECT to the next.
Fetching == {"plan", "collect", "sources", "agents", "nodes"}
ReaderOK(h) ==
  /\ h.pc \in Pcs
  /\ h.pc \in Fetching => h.kind = "fetch" /\ h.who \in Users
  /\ h.pc = "plan" => h.copy \in UserRow /\ h.copy.plan # None
  /\ h.pc \in {"groups", "plans", "users", "limits"} => h.kind = "poll" /\ h.who \in Agents
  /\ h.pc = "users" => h.plans \subseteq Plans
  /\ h.pc = "limits" =>
       /\ h = [pc |-> "limits", kind |-> "poll", who |-> h.who, copies |-> h.copies,
               todo |-> h.todo, allowed |-> h.allowed]
       /\ h.todo \subseteq DOMAIN h.copies
       /\ \A u \in DOMAIN h.copies : h.copies[u] \in UserRow /\ h.copies[u].plan \in Plans

HistoryOK(hist) ==
  /\ hist.calm \in BOOLEAN
  /\ hist = [calm |-> hist.calm, lost |-> hist.lost, missed |-> hist.missed]

RequestsOK ==
  /\ DOMAIN req = Requests /\ DOMAIN since = Requests /\ DOMAIN edit = Editors
  /\ \A e \in Editors : EditOK(edit[e])
  /\ \A r \in Requests : ReaderOK(req[r]) /\ HistoryOK(since[r])

WithinBounds ==
  writes \in 0 .. MaxWrites /\ \A u \in Users : users[u].used \in -MaxUsed .. MaxUsed

TypeInv == TableOK /\ RequestsOK /\ WithinBounds

-----------------------------------------------------------------------------
\* A reader undisturbed so far has computed its part of the one-moment answer.
CalmFetch(h) ==
  LET u == h.who
      gs == GroupsOf(users[u].plan)
  IN  /\ h.pc = "plan" => /\ users[u] = h.copy /\ h.copy.live /\ h.copy.enabled
                          /\ ~h.copy.expired /\ h.copy.plan # None
      /\ h.pc \in {"collect", "sources", "agents", "nodes"} => Entitled(u)
      /\ h.pc \in {"sources", "agents"} => h.groups = gs
      /\ h.pc = "agents" => h.owners = SourcesIn(gs)
      /\ h.pc = "nodes" => h.owners = SourcesIn(gs) \union AgentsIn(gs)
      /\ h.pc = "done" /\ h.kind = "fetch" => h.answer = Served(u)
CalmPoll(h) ==
  LET a == h.who IN
    /\ h.pc = "plans" => h.groups = {g \in Groups : <<g, a>> \in groupAgents}
    /\ h.pc = "users" =>
         h.plans = {p \in Plans : \E g \in GroupsOf(p) : <<g, a>> \in groupAgents}
    /\ h.pc = "limits" =>
         /\ DOMAIN h.copies = Listed(a) /\ \A u \in Listed(a) : h.copies[u] = users[u]
         /\ h.allowed = Allowed(a) \ h.todo
    /\ h.pc = "done" /\ h.kind = "poll" =>
         h.answer = [listed |-> Listed(a), allowed |-> Allowed(a)]
CalmInv == \A r \in Requests : \A h \in {req[r]} :
             since[r].calm => CalmFetch(h) /\ CalmPoll(h)

-----------------------------------------------------------------------------
\* What a reader carries was in the tables at some moment since it began: H is
\* what the tables held meanwhile, u or a the user or agent it reads for, and M
\* holds the users whose plan a SELECT failed to find.
GateHeld(H, u) ==
  \E gate, plan \in H :
    /\ gate[1] = u /\ gate[2].live /\ gate[2].enabled /\ ~gate[2].expired
    /\ plan[1] = gate[2].plan /\ plan[2].row = "live"
    /\ ~Exhausted(gate[2].used, plan[2].limit)
NowHeld(H, u, gs) == \E now \in H : now[1] = u /\ now[2].live /\ gs = GroupsOf(now[2].plan)
LinkHeld(H, a, p) == \E link \in H : link[2] = a /\ link[1] \in GroupsOf(p)
FetchHeld(H, u, owner) ==
  /\ GateHeld(H, u)
  /\ \E now \in H : now[1] = u /\ now[2].live /\ LinkHeld(H, owner, now[2].plan)
PollHeld(H, M, a, u) ==
  \E user, plan \in H :
    /\ user[1] = u /\ user[2].live /\ user[2].enabled /\ ~user[2].expired
    /\ plan[1] = user[2].plan
    /\ \/ ~(plan[2].row = "live" /\ Exhausted(user[2].used, plan[2].limit))
       \/ u \in M
    /\ LinkHeld(H, a, user[2].plan)
HeldFetch(h, H) ==
  /\ h.pc = "plan" => /\ <<h.who, h.copy>> \in H
                      /\ h.copy.live /\ h.copy.enabled /\ ~h.copy.expired
  /\ h.pc \in {"collect", "sources", "agents"} => GateHeld(H, h.who)
  /\ h.pc \in {"sources", "agents"} => NowHeld(H, h.who, h.groups)
  /\ h.pc \in {"agents", "nodes"} => \A o \in h.owners : FetchHeld(H, h.who, o)
HeldPoll(h, H, M) ==
  /\ h.pc = "plans" => \A g \in h.groups : \E link \in H : link[2] = h.who /\ link[1] = g
  /\ h.pc = "users" => \A p \in h.plans : LinkHeld(H, h.who, p)
  /\ h.pc = "limits" =>
       /\ \A u \in DOMAIN h.copies :
            /\ <<u, h.copies[u]>> \in H /\ LinkHeld(H, h.who, h.copies[u].plan)
            /\ h.copies[u].live /\ h.copies[u].enabled
       /\ \A u \in h.allowed : PollHeld(H, M, h.who, u)
HeldInv == \A r \in Requests : \A h \in {req[r]}, H \in {Held(r)} :
             HeldFetch(h, H) /\ HeldPoll(h, H, since[r].missed)

-----------------------------------------------------------------------------
\* The fields of an edit, by the kind of request it is left of.
LEMMA EditFields ==
  ASSUME NEW t, EditOK(t)
  PROVE  /\ t.op \in {"none", "toggle", "assign", "relink", "unlink", "bury"}
         /\ t.op = "toggle" => t.on \in Users /\ t.value \in BOOLEAN
         /\ t.op = "assign" => t.on \in Users /\ t.value \in Plans \union {None}
         /\ t.op = "relink" => /\ t.on \in Groups /\ t.clear \subseteq {"sources", "agents"}
                               /\ t.sources \subseteq Sources /\ t.agents \subseteq Agents
         /\ t.op \in {"unlink", "bury"} => t.on \in Agents /\ t = Remove(t.op, t.on)
  BY DEF EditOK, NoEdit, Toggle, Assign, Rewrite, Remove

\* What is left of rewriting a group's relations is an edit, or nothing.
LEMMA RelinkOK ==
  ASSUME NEW g \in Groups, NEW clear \in SUBSET {"sources", "agents"},
         NEW ss \in SUBSET Sources, NEW as \in SUBSET Agents
  PROVE  EditOK(Relink(g, clear, ss, as))
  BY DEF EditOK, Relink, Rewrite

\* The other edits.
LEMMA SimpleEdits ==
  /\ EditOK(NoEdit)
  /\ \A u \in Users, on \in BOOLEAN : EditOK(Toggle(u, on))
  /\ \A u \in Users, p \in Plans \union {None} : EditOK(Assign(u, p))
  /\ \A op \in {"unlink", "bury"}, a \in Agents : EditOK(Remove(op, a))
  BY DEF EditOK

\* An UPDATE of one column of one row keeps a table's shape.
LEMMA UsersKept ==
  ASSUME TableOK, NEW u \in Users
  PROVE  /\ [users EXCEPT ![u].live = FALSE] \in [Users -> UserRow]
         /\ [users EXCEPT ![u].expired = TRUE] \in [Users -> UserRow]
         /\ \A n \in Int : [users EXCEPT ![u].used = n] \in [Users -> UserRow]
         /\ \A on \in BOOLEAN : [users EXCEPT ![u].enabled = on] \in [Users -> UserRow]
         /\ \A p \in Plans \union {None} : [users EXCEPT ![u].plan = p] \in [Users -> UserRow]
  <1>1. users[u] \in UserRow
    BY DEF TableOK
  <1>2. /\ [users[u] EXCEPT !.live = FALSE] \in UserRow
        /\ [users[u] EXCEPT !.expired = TRUE] \in UserRow
        /\ \A n \in Int : [users[u] EXCEPT !.used = n] \in UserRow
        /\ \A on \in BOOLEAN : [users[u] EXCEPT !.enabled = on] \in UserRow
        /\ \A p \in Plans \union {None} : [users[u] EXCEPT !.plan = p] \in UserRow
    BY <1>1 DEF UserRow
  <1> QED BY <1>2 DEF TableOK

\* A request with one statement.
LEMMA WriteOnceType ==
  ASSUME TableOK, WriteOnce
  PROVE  TableOK' /\ Disturb /\ edit' = edit
  <1> USE DEF OneStatement
  <1>1. ASSUME NEW p \in Plans,
               (\E n \in Limits : UpdatePlan(p, n) \/ CreatePlan(p, n)) \/ DeletePlan(p)
        PROVE  TableOK' /\ Disturb /\ edit' = edit
    <2>1. plans[p] \in PlanRow /\ Limits \subseteq Int
      BY LimitAssumption DEF TableOK
    <2>2. /\ \A n \in Limits : [plans[p] EXCEPT !.limit = n] \in PlanRow
          /\ \A n \in Limits : [row |-> "live", limit |-> n] \in PlanRow
          /\ [plans[p] EXCEPT !.row = "deleted"] \in PlanRow
      BY <2>1 DEF PlanRow, RowStates
    <2>3. plans' \in [Plans -> PlanRow]
      BY <1>1, <2>2 DEF UpdatePlan, CreatePlan, DeletePlan, TableOK
    <2> QED BY <1>1, <2>3 DEF UpdatePlan, CreatePlan, DeletePlan, TableOK
  <1>2. ASSUME NEW a \in Agents, ClearNodes(a) \/ \E n \in Nodes : InsertNode(a, n)
        PROVE  TableOK' /\ Disturb /\ edit' = edit
    BY <1>2 DEF ClearNodes, InsertNode, TableOK, Owners
  <1>3. ASSUME NEW u \in Users, \/ DeleteUser(u) \/ ResetTraffic(u) \/ Expire(u)
                                \/ \E n \in Amounts : CountTraffic(u, n)
        PROVE  TableOK' /\ Disturb /\ edit' = edit
    <2>1. users[u].used \in Int /\ Amounts \subseteq Int
      BY LimitAssumption DEF TableOK, UserRow
    <2>2. \A n \in Amounts : users[u].used + n \in Int
      BY <2>1
    <2>3. users' \in [Users -> UserRow]
      <3>1. [users EXCEPT ![u].used = 0] \in [Users -> UserRow]
        <4>1. \A n \in Int : [users EXCEPT ![u].used = n] \in [Users -> UserRow]
          BY UsersKept
        <4> HIDE DEF UserRow
        <4>2. 0 \in Int
          OBVIOUS
        <4> QED BY <4>1, <4>2, Zenon
      <3>3. CASE DeleteUser(u) \/ ResetTraffic(u) \/ Expire(u)
        BY <3>1, <3>3, UsersKept DEF DeleteUser, ResetTraffic, Expire
      <3>2. ASSUME NEW n \in Amounts, CountTraffic(u, n) PROVE users' \in [Users -> UserRow]
        BY <2>2, <3>2, UsersKept DEF CountTraffic
      <3> QED BY <1>3, <3>2, <3>3
    <2> QED BY <1>3, <2>3 DEF DeleteUser, ResetTraffic, Expire, CountTraffic, TableOK
  <1>4. ASSUME NEW x \in Groups \union Sources, DeleteRow(x)
        PROVE  TableOK' /\ Disturb /\ edit' = edit
    BY <1>4 DEF DeleteRow, TableOK, RowStates
  <1>5. ASSUME NEW o \in Owners, CreateOwner(o)
        PROVE  TableOK' /\ Disturb /\ edit' = edit
    BY <1>5 DEF CreateOwner, TableOK, RowStates
  <1> QED BY <1>1, <1>2, <1>3, <1>4, <1>5 DEF WriteOnce

\* The first statement of a longer one.
LEMMA StartEditType ==
  ASSUME TableOK, RequestsOK, NEW e \in Editors, StartEdit(e)
  PROVE  /\ TableOK' /\ DOMAIN edit' = Editors /\ \A f \in Editors : EditOK(edit'[f])
         /\ Disturb \/ OnlyReads
  <1>0. \A f \in Editors : EditOK(edit[f])
    BY DEF RequestsOK
  <1>e. ASSUME NEW t, EditOK(t), edit' = [edit EXCEPT ![e] = t]
        PROVE  DOMAIN edit' = Editors /\ \A f \in Editors : EditOK(edit'[f])
    BY <1>0, <1>e DEF RequestsOK
  <1>t. UNCHANGED tables => TableOK'
    BY DEF tables, TableOK
  <1>1. ASSUME NEW u \in Users,
               ReadToggle(e, u) \/ \E p \in Plans \union {None} : ReadAssign(e, u, p)
        PROVE  /\ TableOK' /\ OnlyReads
               /\ DOMAIN edit' = Editors /\ \A f \in Editors : EditOK(edit'[f])
    <2>1. OnlyReads
      BY <1>1 DEF ReadToggle, ReadAssign
    <2>2. PICK t : EditOK(t) /\ edit' = [edit EXCEPT ![e] = t]
      <3>1. CASE ReadToggle(e, u)
        <4>1. (~users[u].enabled) \in BOOLEAN
          OBVIOUS
        <4>2. edit' = [edit EXCEPT ![e] = Toggle(u, ~users[u].enabled)]
          BY <3>1 DEF ReadToggle, Begin, Toggle
        <4> QED BY <4>1, <4>2, SimpleEdits
      <3>2. CASE \E p \in Plans \union {None} : ReadAssign(e, u, p)
        <4>1. PICK p \in Plans \union {None} : edit' = [edit EXCEPT ![e] = Assign(u, p)]
          BY <3>2 DEF ReadAssign, Begin, Assign
        <4> QED BY <4>1, SimpleEdits
      <3> QED BY <1>1, <3>1, <3>2
    <2> QED BY <1>e, <1>t, <2>1, <2>2 DEF OnlyReads
  <1>3. ASSUME NEW a \in Agents, Uncache(e, a)
        PROVE  /\ TableOK' /\ Disturb
               /\ DOMAIN edit' = Editors /\ \A f \in Editors : EditOK(edit'[f])
    <2>1. TableOK' /\ Disturb
      BY <1>3 DEF Uncache, TableOK
    <2>2. edit' = [edit EXCEPT ![e] = Remove("unlink", a)]
      BY <1>3 DEF Uncache, Begin, Remove
    <2> QED BY <1>e, <2>1, <2>2, SimpleEdits
  <1>4. CASE \E u \in Users : \/ ReadToggle(e, u)
                              \/ \E p \in Plans \union {None} : ReadAssign(e, u, p)
    BY <1>1, <1>4
  <1>5. CASE \E g \in Groups, ss \in (SUBSET Sources) \union {None},
                as \in (SUBSET Agents) \union {None} :
               CreateGroup(e, g, ss, as) \/ UpdateGroup(e, g, ss, as)
    <2>1. PICK g \in Groups, ss \in (SUBSET Sources) \union {None},
               as \in (SUBSET Agents) \union {None} :
                 CreateGroup(e, g, ss, as) \/ UpdateGroup(e, g, ss, as)
      BY <1>5
    <2>2. Listing(ss) \in SUBSET Sources /\ Listing(as) \in SUBSET Agents
      BY DEF Listing
    <2>3. CASE CreateGroup(e, g, ss, as)
      <3>1. TableOK' /\ Disturb
        BY <2>3 DEF CreateGroup, TableOK, RowStates
      <3>2. edit' = [edit EXCEPT ![e] = Relink(g, {}, Listing(ss), Listing(as))]
        BY <2>3 DEF CreateGroup, Begin
      <3> QED BY <1>e, <2>2, <3>1, <3>2, RelinkOK
    <2>4. CASE UpdateGroup(e, g, ss, as)
      <3> DEFINE given == [sources |-> ss, agents |-> as]
                 clear == {list \in {"sources", "agents"} : given[list] # None}
      <3>2. clear \in SUBSET {"sources", "agents"}
        OBVIOUS
      <3>3. edit' = [edit EXCEPT ![e] = Relink(g, clear, Listing(ss), Listing(as))] /\ OnlyReads
        BY <2>4 DEF UpdateGroup, Begin
      <3> HIDE DEF clear
      <3> QED BY <1>e, <1>t, <2>2, <3>2, <3>3, RelinkOK DEF OnlyReads
    <2> QED BY <2>1, <2>3, <2>4
  <1>6. CASE \E a \in Agents : Uncache(e, a)
    BY <1>3, <1>6
  <1> QED BY <1>4, <1>5, <1>6 DEF StartEdit

\* A later statement of a longer request.
LEMMA EditStepType ==
  ASSUME TableOK, RequestsOK, NEW e \in Editors, EditStep(e)
  PROVE  /\ TableOK' /\ DOMAIN edit' = Editors /\ \A f \in Editors : EditOK(edit'[f])
         /\ Disturb
         /\ \A u \in Users : users'[u].used = users[u].used
  <1> DEFINE t == edit[e]
  <1>0. EditOK(t) /\ \A f \in Editors : EditOK(edit[f])
    BY DEF RequestsOK
  <1>e. ASSUME NEW todo, EditOK(todo), Continue(e, todo)
        PROVE  /\ DOMAIN edit' = Editors /\ \A f \in Editors : EditOK(edit'[f])
               /\ Disturb
    BY <1>0, <1>e DEF RequestsOK, Continue
  <1>1. CASE WriteToggle(e) \/ WriteAssign(e)
    <2>1. t.on \in Users /\ (t.op = "toggle" => t.value \in BOOLEAN)
          /\ (t.op = "assign" => t.value \in Plans \union {None})
      BY <1>0, <1>1, EditFields DEF WriteToggle, WriteAssign
    <2>2. users' \in [Users -> UserRow]
      <3>1. CASE WriteToggle(e)
        <4>1. t.value \in BOOLEAN
          BY <2>1, <3>1 DEF WriteToggle
        <4>2. [users EXCEPT ![t.on].enabled = t.value] \in [Users -> UserRow]
          BY <2>1, <4>1, UsersKept
        <4> QED BY <3>1, <4>2 DEF WriteToggle, TableOK
      <3>2. CASE WriteAssign(e)
        <4>1. t.value \in Plans \union {None}
          BY <2>1, <3>2 DEF WriteAssign
        <4>2. [users EXCEPT ![t.on].plan = t.value] \in [Users -> UserRow]
          BY <2>1, <4>1, UsersKept
        <4> QED BY <3>2, <4>2 DEF WriteAssign, TableOK
      <3> QED BY <1>1, <3>1, <3>2
    <2>3. \A u \in Users : users'[u].used = users[u].used
      <3> TAKE u \in Users
      <3>1. users[u] \in UserRow /\ users[t.on] \in UserRow
        BY <2>1 DEF TableOK
      <3>2. /\ \A on : [users[t.on] EXCEPT !.enabled = on].used = users[t.on].used
            /\ \A p : [users[t.on] EXCEPT !.plan = p].used = users[t.on].used
        BY <3>1 DEF UserRow
      <3>3. \/ users' = users
            \/ \E new : /\ new.used = users[t.on].used
                        /\ users' = [users EXCEPT ![t.on] = new]
        BY <1>1, <3>2 DEF WriteToggle, WriteAssign
      <3>4. ASSUME NEW new, new.used = users[t.on].used, users' = [users EXCEPT ![t.on] = new]
            PROVE  users'[u].used = users[u].used
        BY <3>4 DEF TableOK
      <3> QED BY <3>3, <3>4
    <2>4. Continue(e, NoEdit)
      BY <1>1 DEF WriteToggle, WriteAssign
    <2> QED BY <1>1, <1>e, <2>2, <2>3, <2>4, SimpleEdits DEF WriteToggle, WriteAssign, TableOK
  <1>2. CASE \/ ClearSources(e) \/ ClearAgents(e)
             \/ (\E s \in Sources : AddSource(e, s)) \/ (\E a \in Agents : AddAgent(e, a))
    <2>1. /\ t.on \in Groups /\ t.clear \subseteq {"sources", "agents"}
          /\ t.sources \subseteq Sources /\ t.agents \subseteq Agents
      BY <1>0, <1>2, EditFields DEF ClearSources, AddSource, ClearAgents, AddAgent
    <2>2. groupSources' \subseteq Groups \X Sources /\ groupAgents' \subseteq Groups \X Agents
      <3>1. CASE ClearSources(e) \/ ClearAgents(e)
        <4>1. groupSources' \subseteq groupSources /\ groupAgents' \subseteq groupAgents
          BY <3>1 DEF ClearSources, ClearAgents
        <4> QED BY <4>1 DEF TableOK
      <3>2. CASE \E s \in Sources : AddSource(e, s)
        <4>1. PICK s \in Sources : AddSource(e, s)
          BY <3>2
        <4>2. /\ groupSources' \in {groupSources, groupSources \union {<<t.on, s>>}}
              /\ groupAgents' = groupAgents
          BY <4>1 DEF AddSource
        <4> HIDE DEF t
        <4> QED BY <2>1, <4>2 DEF TableOK
      <3>3. CASE \E a \in Agents : AddAgent(e, a)
        <4>1. PICK a \in Agents : AddAgent(e, a)
          BY <3>3
        <4>2. /\ groupAgents' \in {groupAgents, groupAgents \union {<<t.on, a>>}}
              /\ groupSources' = groupSources
          BY <4>1 DEF AddAgent
        <4> HIDE DEF t
        <4> QED BY <2>1, <4>2 DEF TableOK
      <3> QED BY <1>2, <3>1, <3>2, <3>3
    <2>3. UNCHANGED <<users, plans, rows, cached>>
      BY <1>2 DEF ClearSources, AddSource, ClearAgents, AddAgent
    <2>4. PICK clear \in SUBSET {"sources", "agents"}, ss \in SUBSET Sources,
               as \in SUBSET Agents : Continue(e, Relink(t.on, clear, ss, as))
      <3>1. CASE ClearSources(e)
        <4>1. t.clear \ {"sources"} \in SUBSET {"sources", "agents"}
          BY <2>1
        <4> QED BY <2>1, <3>1, <4>1 DEF ClearSources
      <3>2. CASE ClearAgents(e)
        BY <2>1, <3>2 DEF ClearAgents
      <3>3. ASSUME NEW s \in Sources, AddSource(e, s)
            PROVE  Continue(e, Relink(t.on, t.clear, t.sources \ {s}, t.agents))
        BY <3>3 DEF AddSource
      <3>4. ASSUME NEW a \in Agents, AddAgent(e, a)
            PROVE  Continue(e, Relink(t.on, {}, {}, t.agents \ {a}))
        BY <3>4 DEF AddAgent
      <3>5. /\ \A s : t.sources \ {s} \in SUBSET Sources
            /\ \A a : t.agents \ {a} \in SUBSET Agents
        BY <2>1
      <3> QED BY <1>2, <2>1, <3>1, <3>2, <3>3, <3>4, <3>5
    <2>5. EditOK(Relink(t.on, clear, ss, as))
      BY <2>1, RelinkOK
    <2> HIDE DEF t
    <2> QED BY <1>e, <2>2, <2>3, <2>4, <2>5 DEF TableOK
  <1>3. CASE Unlink(e) \/ Bury(e)
    <2>1. t.on \in Agents /\ t = Remove(t.op, t.on)
      BY <1>0, <1>3, EditFields DEF Unlink, Bury
    <2>2. PICK todo : EditOK(todo) /\ Continue(e, todo)
      <3>1. CASE Unlink(e)
        <4>1. [t EXCEPT !.op = "bury"] = Remove("bury", t.on)
          BY <2>1, <3>1 DEF Unlink, Remove
        <4> QED BY <2>1, <3>1, <4>1, SimpleEdits DEF Unlink
      <3>2. CASE Bury(e)
        BY <3>2, SimpleEdits DEF Bury
      <3> QED BY <1>3, <3>1, <3>2
    <2>3. TableOK' /\ users' = users
      BY <1>3, <2>1 DEF Unlink, Bury, TableOK, RowStates
    <2> HIDE DEF t
    <2> QED BY <1>e, <2>2, <2>3
  <1> QED BY <1>1, <1>2, <1>3 DEF EditStep

-----------------------------------------------------------------------------
\* Reader r goes on with the local state h, and its history is hist.
Becomes(r, h, hist) ==
  /\ DOMAIN req' = Requests /\ DOMAIN since' = Requests
  /\ req'[r] = h /\ since'[r] = hist
  /\ \A s \in Requests : s # r => req'[s] = req[s] /\ since'[s] = since[s]

\* What a SELECT leaves of the history of its reader.
Noted(r, failed) ==
  [calm |-> since[r].calm /\ ~failed, lost |-> since[r].lost, missed |-> since[r].missed]
Ended(r, failed) == [calm |-> since[r].calm /\ ~failed, lost |-> {}, missed |-> {}]

LEMMA FinishBecomes ==
  ASSUME RequestsOK, NEW r \in Requests, NEW answer, NEW failed, Finish(r, answer, failed)
  PROVE  Becomes(r, [pc |-> "done", kind |-> req[r].kind, who |-> req[r].who,
                     answer |-> answer], Ended(r, failed))
  <1>1. [Undisturbed EXCEPT !.calm = since[r].calm /\ ~failed] = Ended(r, failed)
    BY DEF Undisturbed, Ended
  <1> QED BY <1>1 DEF RequestsOK, Finish, Becomes

LEMMA ContinuesBecomes ==
  ASSUME RequestsOK, NEW r \in Requests, NEW h, NEW failed, Continues(r, h, failed)
  PROVE  Becomes(r, h, Noted(r, failed))
  <1>1. since[r] = [calm |-> since[r].calm, lost |-> since[r].lost,
                    missed |-> since[r].missed]
    BY DEF RequestsOK, HistoryOK
  <1>2. [since[r] EXCEPT !.calm = @ /\ ~failed] = Noted(r, failed)
    BY <1>1 DEF Noted
  <1> QED BY <1>2 DEF RequestsOK, Continues, Becomes

\* The history of a reader after the SELECT of one user's plan.
LEMMA MissedBecomes ==
  ASSUME RequestsOK, NEW r \in Requests, NEW u, NEW failed, NEW h,
         req' = [req EXCEPT ![r] = h],
         since' = [since EXCEPT ![r].calm = @ /\ ~failed,
                                ![r].missed = IF failed THEN @ \union {u} ELSE @]
  PROVE  Becomes(r, h, [Noted(r, failed) EXCEPT
                          !.missed = IF failed THEN @ \union {u} ELSE @])
  <1>1. since[r] = [calm |-> since[r].calm, lost |-> since[r].lost,
                    missed |-> since[r].missed]
    BY DEF RequestsOK, HistoryOK
  <1>2. since'[r] = [[since[r] EXCEPT !.calm = @ /\ ~failed] EXCEPT
                       !.missed = IF failed THEN @ \union {u} ELSE @]
    BY DEF RequestsOK
  <1>3. [since[r] EXCEPT !.calm = @ /\ ~failed] = Noted(r, failed)
    BY <1>1 DEF Noted
  <1> QED BY <1>2, <1>3 DEF RequestsOK, Becomes

LEMMA BeginsBecomes ==
  ASSUME RequestsOK, NEW r \in Requests, NEW h, Begins(r, h)
  PROVE  Becomes(r, h, Undisturbed)
  BY DEF RequestsOK, Begins, Becomes

\* A SELECT leaves tables and editors alone, and its reader well formed.
LEMMA ReadType ==
  ASSUME TableOK, RequestsOK, NEW r \in Requests,
         (\E u \in Users : Fetch(r, u)) \/ (\E a \in Agents : Poll(r, a)) \/ ReadStep(r)
  PROVE  /\ UNCHANGED <<tables, edit>>
         /\ \E h, hist : Becomes(r, h, hist) /\ ReaderOK(h)
                         /\ HistoryOK(hist)
  <1> DEFINE Good == \E h, hist : Becomes(r, h, hist) /\ ReaderOK(h) /\ HistoryOK(hist)
             Same == UNCHANGED <<tables, edit>>
  <1>o. ReaderOK(req[r]) /\ HistoryOK(since[r])
    BY DEF RequestsOK
  <1>f. ASSUME NEW answer, NEW failed, Finish(r, answer, failed) PROVE Good
    <2> DEFINE h == [pc |-> "done", kind |-> req[r].kind, who |-> req[r].who, answer |-> answer]
    <2>1. ReaderOK(h)
      BY DEF ReaderOK, Pcs, Fetching
    <2> HIDE DEF h
    <2>2. Becomes(r, h, Ended(r, failed))
      BY <1>f, FinishBecomes DEF h
    <2>3. HistoryOK(Ended(r, failed))
      BY DEF HistoryOK, Ended
    <2> QED BY <2>1, <2>2, <2>3
  <1>n. \A failed : HistoryOK(Noted(r, failed))
    BY DEF HistoryOK, Noted
  <1>c. ASSUME NEW h, NEW failed, ReaderOK(h), Continues(r, h, failed) PROVE Good
    BY <1>n, <1>c, ContinuesBecomes
  <1>b. ASSUME NEW h, ReaderOK(h), Begins(r, h) PROVE Good
    <2>1. HistoryOK(Undisturbed)
      BY DEF HistoryOK, Undisturbed
    <2> QED BY <1>b, <2>1, BeginsBecomes
  <1> HIDE DEF Good
  <1>1. ASSUME NEW u \in Users, Fetch(r, u) PROVE Same /\ Good
    <2>1. users[u] \in UserRow
      BY DEF TableOK
    <2>2. /\ users[u].plan # None =>
               ReaderOK([pc |-> "plan", kind |-> "fetch", who |-> u, copy |-> users[u]])
          /\ ReaderOK([pc |-> "done", kind |-> "fetch", who |-> u, answer |-> {}])
      BY <2>1 DEF ReaderOK, Pcs, Fetching
    <2> QED BY <1>1, <1>b, <2>2 DEF Fetch, Reading
  <1>2. ASSUME NEW a \in Agents, Poll(r, a) PROVE Same /\ Good
    <2>1. ReaderOK([pc |-> "groups", kind |-> "poll", who |-> a])
      BY DEF ReaderOK, Pcs, Fetching
    <2> QED BY <1>2, <1>b, <2>1 DEF Poll, Reading
  <1>3. ASSUME LoadPlan(r) PROVE Same /\ Good
    <2>1. ReaderOK([pc |-> "collect", kind |-> "fetch", who |-> req[r].who])
      BY <1>o, <1>3 DEF LoadPlan, ReaderOK, Pcs, Fetching
    <2> QED BY <1>3, <1>c, <1>f, <2>1 DEF LoadPlan, Reading
  <1>4. ASSUME Collect(r) PROVE Same /\ Good
    <2>1. \A gs : ReaderOK([pc |-> "sources", kind |-> "fetch", who |-> req[r].who,
                            groups |-> gs])
      BY <1>o, <1>4 DEF Collect, ReaderOK, Pcs, Fetching
    <2> QED BY <1>4, <1>c, <1>f, <2>1 DEF Collect, Reading
  <1>5. ASSUME FindSources(r) PROVE Same /\ Good
    <2>1. \A gs, os : ReaderOK([pc |-> "agents", kind |-> "fetch", who |-> req[r].who,
                                groups |-> gs, owners |-> os])
      BY <1>o, <1>5 DEF FindSources, ReaderOK, Pcs, Fetching
    <2> QED BY <1>5, <1>c, <2>1 DEF FindSources, Reading
  <1>6. ASSUME FindAgents(r) PROVE Same /\ Good
    <2>1. \A os : ReaderOK([pc |-> "nodes", kind |-> "fetch", who |-> req[r].who,
                            owners |-> os])
      BY <1>o, <1>6 DEF FindAgents, ReaderOK, Pcs, Fetching
    <2> QED BY <1>6, <1>c, <1>f, <2>1 DEF FindAgents, Reading
  <1>7. ASSUME ReadNodes(r) PROVE Same /\ Good
    BY <1>7, <1>f DEF ReadNodes, Reading
  <1>8. ASSUME FindUsers(r) PROVE Same /\ Good
    <2> DEFINE all == {u \in Users : /\ users[u].live /\ users[u].enabled
                                     /\ users[u].plan \in req[r].plans}
    <2>1. PICK failed \in BOOLEAN :
            Continues(r, [pc |-> "limits", kind |-> "poll", who |-> req[r].who,
                          copies |-> [u \in Found(all, failed) |-> users[u]],
                          todo |-> Found(all, failed), allowed |-> {}], failed)
      BY <1>8 DEF FindUsers
    <2> DEFINE copies == [u \in Found(all, failed) |-> users[u]]
    <2>2. req[r].who \in Agents /\ req[r].plans \subseteq Plans
      BY <1>o, <1>8 DEF FindUsers, ReaderOK
    <2>3. \A u \in Found(all, failed) : users[u] \in UserRow /\ users[u].plan \in Plans
      BY <2>2 DEF TableOK, Found
    <2>4. /\ DOMAIN copies = Found(all, failed)
          /\ \A u \in DOMAIN copies : copies[u] \in UserRow /\ copies[u].plan \in Plans
      BY <2>3
    <2> HIDE DEF copies, all
    <2>5. ReaderOK([pc |-> "limits", kind |-> "poll", who |-> req[r].who, copies |-> copies,
                    todo |-> Found(all, failed), allowed |-> {}])
      BY <2>2, <2>4 DEF ReaderOK, Pcs, Fetching
    <2> QED BY <1>8, <1>c, <2>1, <2>5 DEF FindUsers, Reading, copies
  <1>9. ASSUME NEW u \in Users, LoadLimit(r, u) PROVE Same /\ Good
    <2> DEFINE h == req[r]
    <2>1. /\ h = [pc |-> "limits", kind |-> "poll", who |-> h.who, copies |-> h.copies,
                  todo |-> h.todo, allowed |-> h.allowed]
          /\ h.pc = "limits" /\ h.todo \subseteq DOMAIN h.copies
          /\ \A v \in DOMAIN h.copies : h.copies[v] \in UserRow /\ h.copies[v].plan \in Plans
          /\ h.who \in Agents
      BY <1>o, <1>9 DEF LoadLimit, ReaderOK
    <2>0. PICK failed \in BOOLEAN : \E allowed :
            /\ req' = [req EXCEPT ![r] = [h EXCEPT !.todo = @ \ {u}, !.allowed = allowed]]
            /\ since' = [since EXCEPT ![r].calm = @ /\ ~failed,
                                      ![r].missed = IF failed THEN @ \union {u} ELSE @]
      <3>1. PICK failed \in BOOLEAN, ok \in BOOLEAN :
              /\ req' = [req EXCEPT ![r].todo = @ \ {u},
                                    ![r].allowed = IF ok THEN @ \union {u} ELSE @]
              /\ since' = [since EXCEPT ![r].calm = @ /\ ~failed,
                                        ![r].missed = IF failed THEN @ \union {u} ELSE @]
        BY <1>9 DEF LoadLimit
      <3> DEFINE allowed == IF ok THEN h.allowed \union {u} ELSE h.allowed
      <3>2. [req EXCEPT ![r].todo = @ \ {u}, ![r].allowed = IF ok THEN @ \union {u} ELSE @]
              = [req EXCEPT ![r] = [h EXCEPT !.todo = @ \ {u}, !.allowed = allowed]]
        <4>1. [[h EXCEPT !.todo = @ \ {u}] EXCEPT !.allowed = IF ok THEN @ \union {u} ELSE @]
                = [h EXCEPT !.todo = @ \ {u}, !.allowed = allowed]
          BY <2>1
        <4> QED BY <4>1 DEF RequestsOK
      <3> HIDE DEF allowed
      <3> QED BY <3>1, <3>2
    <2>2. PICK allowed :
            /\ req' = [req EXCEPT ![r] = [h EXCEPT !.todo = @ \ {u}, !.allowed = allowed]]
            /\ since' = [since EXCEPT ![r].calm = @ /\ ~failed,
                                      ![r].missed = IF failed THEN @ \union {u} ELSE @]
      BY <2>0
    <2>3. [h EXCEPT !.todo = @ \ {u}, !.allowed = allowed] =
            [pc |-> "limits", kind |-> "poll", who |-> h.who, copies |-> h.copies,
             todo |-> h.todo \ {u}, allowed |-> allowed]
      <3> HIDE DEF h
      <3>1. [h EXCEPT !.todo = @ \ {u}, !.allowed = allowed] =
              [x \in {"pc", "kind", "who", "copies", "todo", "allowed"} |->
                 IF x = "todo" THEN h.todo \ {u} ELSE IF x = "allowed" THEN allowed ELSE h[x]]
        BY <2>1
      <3> QED BY <2>1, <3>1
    <2>4. ReaderOK([pc |-> "limits", kind |-> "poll", who |-> h.who, copies |-> h.copies,
                    todo |-> h.todo \ {u}, allowed |-> allowed])
      BY <2>1 DEF ReaderOK, Pcs, Fetching
    <2>5. HistoryOK([Noted(r, failed) EXCEPT !.missed = IF failed THEN @ \union {u} ELSE @])
      BY DEF HistoryOK, Noted
    <2>6. \E hist : HistoryOK(hist) /\ Becomes(r, [h EXCEPT !.todo = @ \ {u},
                                                           !.allowed = allowed], hist)
      <3> DEFINE g == [h EXCEPT !.todo = @ \ {u}, !.allowed = allowed]
      <3> HIDE DEF g
      <3>1. req' = [req EXCEPT ![r] = g]
        BY <2>2 DEF g
      <3>2. Becomes(r, g, [Noted(r, failed) EXCEPT
                             !.missed = IF failed THEN @ \union {u} ELSE @])
        BY <2>2, <3>1, MissedBecomes
      <3> QED BY <2>5, <3>2 DEF g
    <2> HIDE DEF h
    <2>7. Good
      BY <2>3, <2>4, <2>6 DEF Good
    <2> QED BY <1>9, <2>7 DEF LoadLimit, Reading
  <1>10. ASSUME TellAgent(r) PROVE Same /\ Good
    BY <1>10, <1>f DEF TellAgent, Reading
  <1>11. ASSUME FindGroups(r) PROVE Same /\ Good
    <2> DEFINE gs == {g \in Groups : <<g, req[r].who>> \in groupAgents}
    <2>1. ReaderOK([pc |-> "plans", kind |-> "poll", who |-> req[r].who, groups |-> gs])
      BY <1>o, <1>11 DEF FindGroups, ReaderOK, Pcs, Fetching
    <2> HIDE DEF gs
    <2> QED BY <1>11, <1>c, <1>f, <2>1 DEF FindGroups, Reading, gs
  <1>12. ASSUME FindPlans(r) PROVE Same /\ Good
    <2> DEFINE ps == {p \in Plans : GroupsOf(p) \cap req[r].groups # {}}
    <2>1. ReaderOK([pc |-> "users", kind |-> "poll", who |-> req[r].who, plans |-> ps])
      BY <1>o, <1>12 DEF FindPlans, ReaderOK, Pcs, Fetching
    <2> HIDE DEF ps
    <2> QED BY <1>12, <1>c, <1>f, <2>1 DEF FindPlans, Reading, ps
  <1>13. ASSUME GiveUp(r) PROVE Same /\ Good
    <2>1. Becomes(r, NoRequest, Undisturbed)
      BY <1>13 DEF GiveUp, RequestsOK, Becomes
    <2>2. ReaderOK(NoRequest) /\ HistoryOK(Undisturbed)
      BY DEF ReaderOK, NoRequest, Pcs, Fetching, HistoryOK, Undisturbed
    <2> QED BY <1>13, <2>1, <2>2 DEF GiveUp, Reading, Good
  <1> QED BY <1>1, <1>2, <1>3, <1>4, <1>5, <1>6, <1>7, <1>8, <1>9, <1>10, <1>11, <1>12, <1>13
           DEF ReadStep, Good

\* What a statement of an editor does to the history of each reader.
LEMMA Disturbed ==
  ASSUME RequestsOK, Disturb
  PROVE  /\ req' = req /\ DOMAIN since' = Requests
         /\ \A r \in Requests :
              /\ HistoryOK(since'[r])
              /\ req[r].pc # "idle" =>
                   since'[r].calm = (since[r].calm /\ tables' = tables)
              /\ req[r].pc \notin {"idle", "done"} =>
                   /\ since'[r].lost = (since[r].lost \union Facts) \ Facts'
                   /\ since'[r].missed = since[r].missed
  <1> DEFINE calm(r) == since[r].calm /\ tables' = tables
             lost(r) == (since[r].lost \union Facts) \ Facts'
  <1>1. ASSUME NEW r \in Requests
        PROVE  /\ HistoryOK(since'[r])
               /\ req[r].pc # "idle" => since'[r].calm = calm(r)
               /\ req[r].pc \notin {"idle", "done"} =>
                    since'[r].lost = lost(r) /\ since'[r].missed = since[r].missed
    <2>1. since'[r] = CASE req[r].pc = "idle" -> Undisturbed
                        [] req[r].pc = "done" -> [Undisturbed EXCEPT !.calm = calm(r)]
                        [] OTHER -> [since[r] EXCEPT !.calm = calm(r), !.lost = lost(r)]
      BY Zenon DEF Disturb
    <2>2. calm(r) \in BOOLEAN
      OBVIOUS
    <2>o. since[r] = [calm |-> since[r].calm, lost |-> since[r].lost,
                      missed |-> since[r].missed]
      BY DEF RequestsOK, HistoryOK
    <2> HIDE DEF calm, lost
    <2>3. CASE req[r].pc = "idle"
      <3>1. HistoryOK(Undisturbed)
        BY DEF HistoryOK, Undisturbed
      <3>2. since'[r] = Undisturbed
        BY <2>1, <2>3
      <3> QED BY <2>3, <3>1, <3>2
    <2>4. CASE req[r].pc = "done"
      <3>1. since'[r] = [calm |-> calm(r), lost |-> {}, missed |-> {}]
        BY <2>1, <2>4 DEF Undisturbed
      <3> QED BY <2>2, <2>4, <3>1 DEF HistoryOK
    <2>5. CASE req[r].pc \notin {"idle", "done"}
      <3>1. since'[r] = [calm |-> calm(r), lost |-> lost(r), missed |-> since[r].missed]
        BY <2>1, <2>5, <2>o
      <3> QED BY <2>2, <2>5, <3>1 DEF HistoryOK
    <2> QED BY <2>3, <2>4, <2>5
  <1> QED BY <1>1 DEF Disturb

\* What the steps of Access are: a SELECT of one reader, a statement that
\* disturbs every reader, one that only an editor takes note of, or a crash.
LEMMA StepKinds ==
  ASSUME TableOK, RequestsOK, Statement
  PROVE  \/ /\ UNCHANGED <<tables, edit>>
            /\ \E r \in Requests : \/ \E u \in Users : Fetch(r, u)
                                   \/ \E a \in Agents : Poll(r, a)
                                   \/ ReadStep(r)
         \/ Disturb \/ OnlyReads \/ Crash
  <1>1. CASE Read
    BY <1>1, ReadType DEF Read
  <1>2. CASE WriteOnce
    BY <1>2, WriteOnceType
  <1>3. ASSUME NEW e \in Editors, StartEdit(e) PROVE Disturb \/ OnlyReads
    BY <1>3, StartEditType
  <1>4. ASSUME NEW e \in Editors, EditStep(e) PROVE Disturb
    BY <1>4, EditStepType
  <1> QED BY <1>1, <1>2, <1>3, <1>4 DEF Statement, Write

\* A crash ends a reader, or leaves its answer.
LEMMA CrashEnds ==
  ASSUME RequestsOK, Crash
  PROVE  /\ DOMAIN req' = Requests /\ DOMAIN since' = Requests
         /\ DOMAIN edit' = Editors /\ \A e \in Editors : edit'[e] = NoEdit
         /\ UNCHANGED tables
         /\ \A r \in Requests :
              \/ req'[r] = req[r] /\ since'[r] = since[r] /\ req[r].pc = "done"
              \/ req'[r] = NoRequest /\ since'[r] = Undisturbed
  BY DEF Crash, EndAll

\* Every step leaves tables and handlers well formed.
LEMMA StepType ==
  ASSUME TableOK, RequestsOK, Statement
  PROVE  TableOK' /\ RequestsOK'
  <1> DEFINE EditsOK == DOMAIN edit' = Editors /\ \A e \in Editors : EditOK(edit'[e])
             ReadersOK == /\ DOMAIN req' = Requests /\ DOMAIN since' = Requests
                          /\ \A r \in Requests :
                               ReaderOK(req'[r]) /\ HistoryOK(since'[r])
  <1>e. UNCHANGED edit => EditsOK
    BY DEF RequestsOK
  <1>d. Disturb => ReadersOK
    BY Disturbed DEF RequestsOK
  <1>o. OnlyReads => ReadersOK
    BY DEF OnlyReads, RequestsOK
  <1>t. UNCHANGED tables => TableOK'
    BY DEF tables, TableOK
  <1>1. CASE Read
    <2>1. PICK r \in Requests :
            (\E u \in Users : Fetch(r, u)) \/ (\E a \in Agents : Poll(r, a)) \/ ReadStep(r)
      BY <1>1 DEF Read
    <2>2. PICK h, hist : Becomes(r, h, hist) /\ ReaderOK(h) /\ HistoryOK(hist)
      BY <2>1, ReadType
    <2>4. ReadersOK
      BY <2>2 DEF Becomes, RequestsOK
    <2> HIDE DEF EditsOK, ReadersOK
    <2>5. TableOK' /\ EditsOK
      BY <2>1, ReadType, <1>e, <1>t
    <2> QED BY <2>4, <2>5 DEF RequestsOK, EditsOK, ReadersOK
  <1>5. CASE Crash
    <2>1. ReaderOK(NoRequest) /\ HistoryOK(Undisturbed) /\ EditOK(NoEdit)
      BY SimpleEdits DEF ReaderOK, NoRequest, Pcs, Fetching, HistoryOK, Undisturbed
    <2>2. EditsOK /\ ReadersOK
      BY <1>5, <2>1, CrashEnds DEF RequestsOK
    <2>3. TableOK'
      BY <1>5, <1>t, CrashEnds
    <2> QED BY <2>2, <2>3 DEF RequestsOK
  <1> HIDE DEF ReadersOK
  <1>2. CASE WriteOnce
    BY <1>2, <1>e, <1>d, WriteOnceType DEF RequestsOK, ReadersOK
  <1>3. ASSUME NEW e \in Editors, StartEdit(e) PROVE TableOK' /\ RequestsOK'
    BY <1>3, <1>d, <1>o, StartEditType DEF RequestsOK, ReadersOK
  <1>4. ASSUME NEW e \in Editors, EditStep(e) PROVE TableOK' /\ RequestsOK'
    BY <1>4, <1>d, EditStepType DEF RequestsOK, ReadersOK
  <1> QED BY <1>1, <1>2, <1>3, <1>4, <1>5 DEF Statement, Write

\* The bounds of the specification: a reader leaves the rows alone, an editor's
\* further statements do not count traffic, and Next bounds the rest.
LEMMA NextTypeInv ==
  ASSUME TypeInv, [Next]_vars
  PROVE  TypeInv'
  <1>1. CASE UNCHANGED vars
    BY <1>1 DEF TypeInv, TableOK, RequestsOK, WithinBounds, vars, handlers, tables
  <1>2. CASE (Read \/ Crash) /\ UNCHANGED writes
    <2>1. TableOK' /\ RequestsOK'
      BY <1>2, StepType DEF TypeInv, Statement
    <2>2. users' = users
      BY <1>2, ReadType, CrashEnds DEF TypeInv, Read, tables
    <2> QED BY <1>2, <2>1, <2>2 DEF TypeInv, WithinBounds
  <1>3. CASE (\E e \in Editors : EditStep(e)) /\ UNCHANGED writes
    <2>1. TableOK' /\ RequestsOK'
      BY <1>3, StepType DEF TypeInv, Statement
    <2>2. \A u \in Users : users'[u].used = users[u].used
      BY <1>3, EditStepType DEF TypeInv
    <2> QED BY <1>3, <2>1, <2>2 DEF TypeInv, WithinBounds
  <1>4. CASE /\ writes < MaxWrites /\ Write /\ writes' = writes + 1
             /\ \A u \in Users : users'[u].used \in -MaxUsed .. MaxUsed
    <2>1. TableOK' /\ RequestsOK'
      BY <1>4, StepType DEF TypeInv, Statement
    <2>2. writes' \in 0 .. MaxWrites
      BY <1>4, LimitAssumption DEF TypeInv, WithinBounds
    <2> QED BY <1>4, <2>1, <2>2 DEF TypeInv, WithinBounds
  <1> QED BY <1>1, <1>2, <1>3, <1>4 DEF Next

LEMMA InitTypeInv ==
  ASSUME Init
  PROVE  TypeInv
  <1>1. /\ users \in [Users -> UserRow]
        /\ \A u \in Users : users[u].used \in -MaxUsed .. MaxUsed
    <2>1. users \in [Users -> [plan : (Plans \ Later) \union {None}, enabled : {TRUE},
                               live : {TRUE}, used : 0 .. MaxUsed, expired : {FALSE}]]
      BY DEF Init
    <2>2. \A u \in Users : users[u] \in UserRow /\ users[u].used \in -MaxUsed .. MaxUsed
      <3> TAKE u \in Users
      <3>1. users[u] \in [plan : (Plans \ Later) \union {None}, enabled : {TRUE},
                          live : {TRUE}, used : 0 .. MaxUsed, expired : {FALSE}]
        BY <2>1
      <3>2. /\ (Plans \ Later) \union {None} \subseteq Plans \union {None}
            /\ \A n \in 0 .. MaxUsed : n \in Int /\ n \in -MaxUsed .. MaxUsed
        BY LimitAssumption
      <3> QED BY <3>1, <3>2 DEF UserRow
    <2> QED BY <2>1, <2>2
  <1>2. plans \in [Plans -> PlanRow]
    <2>1. plans \in [Plans -> [row : {"live"}, limit : Limits]
                              \union {[row |-> "absent", limit |-> 0]}]
      BY DEF Init
    <2>2. /\ [row : {"live"}, limit : Limits] \subseteq PlanRow
          /\ [row |-> "absent", limit |-> 0] \in PlanRow
      <3>1. Limits \subseteq Int
        BY LimitAssumption
      <3>2. \A n \in Limits : [row |-> "live", limit |-> n] \in PlanRow
        BY <3>1 DEF PlanRow, RowStates
      <3>3. [row |-> "absent", limit |-> 0] \in PlanRow
        BY DEF PlanRow, RowStates
      <3> QED BY <3>2, <3>3
    <2> QED BY <2>1, <2>2
  <1>3. rows \in [Groups \union Owners -> RowStates]
    BY DEF Init, RowStates
  <1>4. /\ groupSources \subseteq Groups \X Sources
        /\ groupAgents \subseteq Groups \X Agents
        /\ cached \subseteq Owners \X Nodes
    BY DEF Init
  <1>5. RequestsOK
    <2>1. ReaderOK(NoRequest)
      BY DEF ReaderOK, NoRequest, Pcs, Fetching
    <2>2. EditOK(NoEdit)
      BY SimpleEdits
    <2>3. HistoryOK(Undisturbed)
      BY DEF HistoryOK, Undisturbed
    <2> QED BY <2>1, <2>2, <2>3 DEF Init, RequestsOK
  <1>6. writes \in 0 .. MaxWrites
    BY LimitAssumption DEF Init
  <1> QED BY <1>1, <1>2, <1>3, <1>4, <1>5, <1>6 DEF TypeInv, TableOK, WithinBounds

LEMMA TypeInvariant == Spec => []TypeInv
  BY InitTypeInv, NextTypeInv, PTL DEF Spec

\* The tables and the local state of every handler keep their shape, for any
\* catalogue and any number of requests in progress.
THEOREM TypeCorrect == Spec => []TypeOK
  <1>1. TypeInv => TypeOK
    <2> SUFFICES ASSUME TypeInv PROVE TypeOK
      OBVIOUS
    <2>1. users \in [Users -> [plan : Plans \union {None}, enabled : BOOLEAN,
                               live : BOOLEAN, used : -MaxUsed .. MaxUsed,
                               expired : BOOLEAN]]
      <3>1. /\ users \in [Users -> UserRow]
            /\ \A u \in Users : users[u].used \in -MaxUsed .. MaxUsed
        BY DEF TypeInv, TableOK, WithinBounds
      <3> QED BY <3>1, LimitAssumption DEF UserRow
    <2>2. \A e \in Editors : edit[e].op \in {"none", "toggle", "assign", "relink",
                                             "unlink", "bury"}
      BY EditFields DEF TypeInv, RequestsOK
    <2>3. \A r \in Requests : req[r].pc \in Pcs /\ since[r].calm \in BOOLEAN
      BY DEF TypeInv, RequestsOK, ReaderOK, HistoryOK
    <2> QED BY <2>1, <2>2, <2>3 DEF TypeOK, TypeInv, TableOK, PlanRow, WithinBounds
  <1> QED BY <1>1, TypeInvariant, PTL

-----------------------------------------------------------------------------
\* Whoever is given an agent's nodes is let in by that agent, whatever the
\* tables hold: what the subscription's conditions ask of a user and a plan
\* implies what the agent's list asks, and both follow the same relations.
THEOREM ServedAreAllowed == Spec => []ServedIsAllowed
  <1>1. ServedIsAllowed
    <2> SUFFICES ASSUME NEW u \in Users, NEW a \in Agents, NEW x \in Served(u), x[1] = a
                 PROVE  u \in Allowed(a)
      BY DEF ServedIsAllowed
    <2>1. Entitled(u) /\ x[1] \in SourcesIn(GroupsOf(users[u].plan))
                                    \union AgentsIn(GroupsOf(users[u].plan))
      BY DEF Served, NodesOf
    <2>2. \E g \in Groups : <<g, a>> \in groupAgents /\ <<users[u].plan, g>> \in PlanGroups
      BY <2>1, TableAssumption DEF SourcesIn, AgentsIn, GroupsOf
    <2> QED BY <2>1, <2>2 DEF Entitled, Allowed, Listed
  <1> QED BY <1>1, PTL

\* Whoever an agent lets in is entitled to a subscription, whatever the tables
\* hold, or the user's plan is deleted.
THEOREM AllowedAreEntitled == Spec => []AllowedIsEntitled
  <1>1. AllowedIsEntitled
    <2> SUFFICES ASSUME NEW u \in Users, NEW a \in Agents, u \in Allowed(a),
                        PlanLive(users[u].plan)
                 PROVE  Entitled(u)
      BY DEF AllowedIsEntitled
    <2>1. users[u].plan \in Plans
      BY TableAssumption DEF Allowed, Listed
    <2> QED BY <2>1, TableAssumption DEF Entitled, Allowed, Listed
  <1> QED BY <1>1, PTL

-----------------------------------------------------------------------------
\* What an undisturbed reader has computed depends on the tables alone.
LEMMA CalmKept ==
  ASSUME UNCHANGED tables, NEW h, CalmFetch(h), CalmPoll(h)
  PROVE  CalmFetch(h)' /\ CalmPoll(h)'
  <1>t. /\ users' = users /\ plans' = plans /\ groupSources' = groupSources
        /\ groupAgents' = groupAgents /\ cached' = cached
    BY DEF tables
  <1>1. \A u : Entitled(u)' = Entitled(u)
    BY <1>t DEF Entitled, PlanLive
  <1>2. \A u : Served(u)' = Served(u)
    BY <1>t DEF Served, Entitled, PlanLive, NodesOf, SourcesIn, AgentsIn
  <1>3. \A a : Listed(a)' = Listed(a) /\ Allowed(a)' = Allowed(a)
    BY <1>t DEF Listed, Allowed, PlanLive
  <1>4. CalmFetch(h)'
    <2>1. h.pc \in {"plan", "collect", "done"} => CalmFetch(h)'
      BY <1>t, <1>1, <1>2 DEF CalmFetch
    <2>2. h.pc \in {"sources", "agents", "nodes"} => CalmFetch(h)'
      BY <1>t, <1>1 DEF CalmFetch, SourcesIn, AgentsIn
    <2> QED BY <2>1, <2>2 DEF CalmFetch
  <1>5. CalmPoll(h)'
    BY <1>t, <1>3 DEF CalmPoll
  <1> QED BY <1>4, <1>5

\* The users of the plans that lead to an agent are those the agent is told of.
LEMMA ListedByPlan ==
  ASSUME TableOK, NEW a
  PROVE  Listed(a) =
           {u \in Users : /\ users[u].live /\ users[u].enabled
                          /\ users[u].plan \in {p \in Plans : \E g \in GroupsOf(p) :
                                                                <<g, a>> \in groupAgents}}
  BY TableAssumption DEF Listed, GroupsOf

\* Each SELECT of an undisturbed reader computes the next part of the answer.
LEMMA CalmRead ==
  ASSUME TableOK, RequestsOK, CalmInv, NEW r \in Requests,
         (\E u \in Users : Fetch(r, u)) \/ (\E a \in Agents : Poll(r, a)) \/ ReadStep(r)
  PROVE  \E h, hist : Becomes(r, h, hist) /\ (hist.calm => CalmFetch(h) /\ CalmPoll(h))
  <1> DEFINE Calm(h) == CalmFetch(h) /\ CalmPoll(h)
             Good == \E h, hist : Becomes(r, h, hist) /\ (hist.calm => Calm(h))
             was == since[r].calm
             who == req[r].who
             gs == GroupsOf(users[who].plan)
  <1>o. was => CalmFetch(req[r]) /\ CalmPoll(req[r])
    BY DEF CalmInv
  <1>w. ReaderOK(req[r])
    BY DEF RequestsOK
  <1>f. ASSUME NEW answer, NEW failed, Finish(r, answer, failed),
               was /\ ~failed => Calm([pc |-> "done", kind |-> req[r].kind, who |-> who,
                            answer |-> answer])
        PROVE  Good
    <2>1. Becomes(r, [pc |-> "done", kind |-> req[r].kind, who |-> who,
                      answer |-> answer], Ended(r, failed))
      BY <1>f, FinishBecomes
    <2>2. Ended(r, failed).calm => was /\ ~failed
      BY DEF Ended
    <2> HIDE DEF Calm, was, who
    <2> QED BY <1>f, <2>1, <2>2
  <1>c. ASSUME NEW h, NEW failed, Continues(r, h, failed), was /\ ~failed => Calm(h)
        PROVE  Good
    <2>1. Becomes(r, h, Noted(r, failed))
      BY <1>c, ContinuesBecomes
    <2>2. Noted(r, failed).calm => was /\ ~failed
      BY DEF Noted
    <2> HIDE DEF Calm, was
    <2> QED BY <1>c, <2>1, <2>2
  <1>b. ASSUME NEW h, Begins(r, h), Calm(h) PROVE Good
    BY <1>b, BeginsBecomes
  <1> HIDE DEF Good
  <1>1. ASSUME NEW u \in Users, Fetch(r, u) PROVE Good
    <2> DEFINE passes == /\ users[u].live /\ users[u].enabled /\ ~users[u].expired
                         /\ users[u].plan # None
    <2>1. passes => Calm([pc |-> "plan", kind |-> "fetch", who |-> u, copy |-> users[u]])
      BY DEF CalmFetch, CalmPoll
    <2>2. ~passes => Calm([pc |-> "done", kind |-> "fetch", who |-> u, answer |-> {}])
      BY DEF CalmFetch, CalmPoll, Served, Entitled
    <2> HIDE DEF Calm
    <2> QED BY <1>1, <1>b, <2>1, <2>2 DEF Fetch
  <1>2. ASSUME NEW a \in Agents, Poll(r, a) PROVE Good
    <2>1. Calm([pc |-> "groups", kind |-> "poll", who |-> a])
      BY DEF CalmFetch, CalmPoll
    <2> HIDE DEF Calm
    <2> QED BY <1>2, <1>b, <2>1 DEF Poll
  <1>3. ASSUME LoadPlan(r) PROVE Good
    <2> DEFINE p == plans[req[r].copy.plan]
               through == p.row = "live" /\ ~Exhausted(req[r].copy.used, p.limit)
    <2>1. was => users[who] = req[r].copy /\ (Entitled(who) <=> through)
      BY <1>3, <1>o DEF LoadPlan, CalmFetch, Entitled, PlanLive
    <2>2. /\ was /\ through => Calm([pc |-> "collect", kind |-> "fetch", who |-> who])
          /\ was /\ ~through => Calm([pc |-> "done", kind |-> req[r].kind, who |-> who,
                                      answer |-> {}])
      <3> HIDE DEF through
      <3>1. req[r].kind = "fetch"
        BY <1>3, <1>w DEF LoadPlan, ReaderOK, Fetching
      <3> QED BY <2>1, <3>1 DEF CalmFetch, CalmPoll, Served
    <2>3. PICK failed \in BOOLEAN :
            IF ~failed /\ through
            THEN Continues(r, [pc |-> "collect", kind |-> "fetch", who |-> who], failed)
            ELSE Finish(r, {}, failed)
      BY <1>3 DEF LoadPlan
    <2> HIDE DEF Calm, through
    <2> QED BY <1>c, <1>f, <2>2, <2>3
  <1>4. ASSUME Collect(r) PROVE Good
    <2>1. req[r].kind = "fetch"
      BY <1>4, <1>w DEF Collect, ReaderOK, Fetching
    <2>2. was => Entitled(who) /\ users[who].live /\ users[who].plan # None
      BY <1>4, <1>o DEF Collect, CalmFetch, Entitled
    <2>3. gs = {} => NodesOf(SourcesIn(gs) \union AgentsIn(gs)) = {}
      BY DEF NodesOf, SourcesIn, AgentsIn
    <2>4. /\ was => Calm([pc |-> "sources", kind |-> "fetch", who |-> who, groups |-> gs])
          /\ was /\ gs = {} => Calm([pc |-> "done", kind |-> req[r].kind, who |-> who,
                                     answer |-> {}])
      BY <2>1, <2>2, <2>3 DEF CalmFetch, CalmPoll, Served
    <2>5. PICK failed \in BOOLEAN :
            IF ~failed /\ users[who].live /\ users[who].plan # None /\ gs # {}
            THEN Continues(r, [pc |-> "sources", kind |-> "fetch", who |-> who,
                               groups |-> gs], failed)
            ELSE Finish(r, {}, failed)
      BY <1>4 DEF Collect
    <2> HIDE DEF Calm, gs
    <2> QED BY <1>c, <1>f, <2>2, <2>4, <2>5
  <1>5. ASSUME FindSources(r) PROVE Good
    <2>1. PICK failed \in BOOLEAN :
            Continues(r, [pc |-> "agents", kind |-> "fetch", who |-> who,
                          groups |-> req[r].groups,
                          owners |-> Found(SourcesIn(req[r].groups), failed)], failed)
      BY <1>5 DEF FindSources
    <2>2. was /\ ~failed =>
            Calm([pc |-> "agents", kind |-> "fetch", who |-> who, groups |-> req[r].groups,
                  owners |-> Found(SourcesIn(req[r].groups), failed)])
      BY <1>5, <1>o DEF FindSources, Found, CalmFetch, CalmPoll
    <2> HIDE DEF Calm
    <2> QED BY <1>c, <2>1, <2>2
  <1>6. ASSUME FindAgents(r) PROVE Good
    <2>0. PICK failed \in BOOLEAN :
            LET owners == req[r].owners \union Found(AgentsIn(req[r].groups), failed) IN
              IF owners # {}
              THEN Continues(r, [pc |-> "nodes", kind |-> "fetch", who |-> who,
                                 owners |-> owners], failed)
              ELSE Finish(r, {}, failed)
      BY <1>6 DEF FindAgents
    <2> DEFINE found == req[r].owners \union Found(AgentsIn(req[r].groups), failed)
    <2>1. req[r].kind = "fetch"
      BY <1>6, <1>w DEF FindAgents, ReaderOK, Fetching
    <2>2. was /\ ~failed => Entitled(who) /\ found = SourcesIn(gs) \union AgentsIn(gs)
      BY <1>6, <1>o DEF FindAgents, CalmFetch, Found
    <2>3. found = {} => NodesOf(found) = {}
      BY DEF NodesOf
    <2>5. IF found # {}
          THEN Continues(r, [pc |-> "nodes", kind |-> "fetch", who |-> who,
                             owners |-> found], failed)
          ELSE Finish(r, {}, failed)
      BY <2>0
    <2> HIDE DEF found
    <2>4. /\ was /\ ~failed => Calm([pc |-> "nodes", kind |-> "fetch", who |-> who,
                                     owners |-> found])
          /\ was /\ ~failed /\ found = {} => Calm([pc |-> "done", kind |-> req[r].kind,
                                                   who |-> who, answer |-> {}])
      BY <2>1, <2>2, <2>3 DEF CalmFetch, CalmPoll, Served
    <2> HIDE DEF Calm
    <2> QED BY <1>c, <1>f, <2>4, <2>5
  <1>7. ASSUME ReadNodes(r) PROVE Good
    <2>1. PICK failed \in BOOLEAN : Finish(r, Found(NodesOf(req[r].owners), failed), failed)
      BY <1>7 DEF ReadNodes
    <2>2. was /\ ~failed => Calm([pc |-> "done", kind |-> req[r].kind, who |-> who,
                                 answer |-> Found(NodesOf(req[r].owners), failed)])
      <3>1. req[r].kind = "fetch"
        BY <1>7, <1>w DEF ReadNodes, ReaderOK, Fetching
      <3> QED BY <1>7, <1>o, <3>1 DEF ReadNodes, Found, CalmFetch, CalmPoll, Served
    <2> HIDE DEF Calm
    <2> QED BY <1>f, <2>1, <2>2
  <1>8. ASSUME FindUsers(r) PROVE Good
    <2> DEFINE all == {u \in Users : /\ users[u].live /\ users[u].enabled
                                     /\ users[u].plan \in req[r].plans}
    <2>0. PICK failed \in BOOLEAN :
            Continues(r, [pc |-> "limits", kind |-> "poll", who |-> who,
                          copies |-> [u \in Found(all, failed) |-> users[u]],
                          todo |-> Found(all, failed), allowed |-> {}], failed)
      BY <1>8 DEF FindUsers
    <2> DEFINE found == Found(all, failed)
               copies == [u \in found |-> users[u]]
    <2>1. was /\ ~failed => found = Listed(who)
      <3> DEFINE ps == {p \in Plans : \E g \in GroupsOf(p) : <<g, who>> \in groupAgents}
      <3>1. was => req[r].plans = ps
        BY <1>8, <1>o DEF FindUsers, CalmPoll
      <3>2. Listed(who) = {u \in Users : /\ users[u].live /\ users[u].enabled
                                         /\ users[u].plan \in ps}
        BY ListedByPlan
      <3> HIDE DEF ps, who, was
      <3> QED BY <3>1, <3>2 DEF Found
    <2>2. DOMAIN copies = found /\ \A u \in found : copies[u] = users[u]
      OBVIOUS
    <2>3. Allowed(who) \subseteq Listed(who)
      BY DEF Allowed
    <2>5. Continues(r, [pc |-> "limits", kind |-> "poll", who |-> who, copies |-> copies,
                        todo |-> found, allowed |-> {}], failed)
      BY <2>0
    <2> HIDE DEF found, copies
    <2>4. was /\ ~failed =>
            Calm([pc |-> "limits", kind |-> "poll", who |-> who, copies |-> copies,
                  todo |-> found, allowed |-> {}])
      BY <2>1, <2>2, <2>3 DEF CalmFetch, CalmPoll
    <2> HIDE DEF Calm
    <2> QED BY <1>c, <2>4, <2>5
  <1>9. ASSUME NEW u \in Users, LoadLimit(r, u) PROVE Good
    <2> DEFINE c == req[r].copies[u]
    <2>0. PICK failed \in BOOLEAN :
            LET limit == IF ~failed /\ PlanLive(c.plan) THEN plans[c.plan].limit ELSE 0
                ok == ~c.expired /\ ~Exhausted(c.used, limit)
            IN  /\ req' = [req EXCEPT ![r].todo = @ \ {u},
                                      ![r].allowed = IF ok THEN @ \union {u} ELSE @]
                /\ since' = [since EXCEPT ![r].calm = @ /\ ~failed,
                                          ![r].missed = IF failed THEN @ \union {u} ELSE @]
      BY <1>9 DEF LoadLimit
    <2> DEFINE limit == IF ~failed /\ PlanLive(c.plan) THEN plans[c.plan].limit ELSE 0
               ok == ~c.expired /\ ~Exhausted(c.used, limit)
               h == [req[r] EXCEPT !.todo = @ \ {u}, !.allowed = IF ok THEN @ \union {u} ELSE @]
               hist == [Noted(r, failed) EXCEPT !.missed = IF failed THEN @ \union {u} ELSE @]
    <2>1. /\ req[r] = [pc |-> "limits", kind |-> "poll", who |-> who,
                       copies |-> req[r].copies, todo |-> req[r].todo,
                       allowed |-> req[r].allowed]
          /\ u \in req[r].todo /\ req[r].todo \subseteq DOMAIN req[r].copies
      BY <1>9, <1>w DEF LoadLimit, ReaderOK
    <2>2. was => /\ DOMAIN req[r].copies = Listed(who)
                 /\ \A v \in Listed(who) : req[r].copies[v] = users[v]
                 /\ req[r].allowed = Allowed(who) \ req[r].todo
      BY <2>1, <1>o DEF CalmPoll
    <2>3. was /\ ~failed => (ok <=> u \in Allowed(who))
      BY <2>1, <2>2 DEF Allowed, Exhausted
    <2>4. /\ h.pc = "limits" /\ h.who = who /\ h.copies = req[r].copies
          /\ h.todo = req[r].todo \ {u}
          /\ h.allowed = IF ok THEN req[r].allowed \union {u} ELSE req[r].allowed
      <3> HIDE DEF ok
      <3> QED BY <2>1
    <2>5. Becomes(r, h, hist)
      <3>1. /\ req' = [req EXCEPT ![r].todo = @ \ {u},
                                  ![r].allowed = IF ok THEN @ \union {u} ELSE @]
            /\ since' = [since EXCEPT ![r].calm = @ /\ ~failed,
                                      ![r].missed = IF failed THEN @ \union {u} ELSE @]
        BY <2>0
      <3> HIDE DEF ok
      <3>2. req' = [req EXCEPT ![r] = h]
        BY <2>1, <3>1 DEF RequestsOK
      <3> HIDE DEF h
      <3> QED BY <3>1, <3>2, MissedBecomes
    <2>8. hist.calm => was /\ ~failed
      BY DEF Noted
    <2> HIDE DEF ok, h, c, hist
    <2>6. was /\ ~failed => h.allowed = Allowed(who) \ h.todo
      BY <2>1, <2>2, <2>3, <2>4
    <2>7. was /\ ~failed => Calm(h)
      BY <2>2, <2>4, <2>6 DEF CalmFetch, CalmPoll
    <2> HIDE DEF Calm, was
    <2> QED BY <2>5, <2>7, <2>8 DEF Good
  <1>10. ASSUME TellAgent(r) PROVE Good
    <2>1. was => Calm([pc |-> "done", kind |-> req[r].kind, who |-> who,
                       answer |-> [listed |-> DOMAIN req[r].copies,
                                   allowed |-> req[r].allowed]])
      <3>1. req[r].kind = "poll"
        BY <1>10, <1>w DEF TellAgent, ReaderOK
      <3>2. was => DOMAIN req[r].copies = Listed(who) /\ req[r].allowed = Allowed(who)
        BY <1>10, <1>o DEF TellAgent, CalmPoll
      <3> QED BY <3>1, <3>2 DEF CalmFetch, CalmPoll
    <2> HIDE DEF Calm
    <2> QED BY <1>10, <1>f, <2>1 DEF TellAgent
  <1>11. ASSUME FindGroups(r) PROVE Good
    <2> DEFINE rs == {g \in Groups : <<g, who>> \in groupAgents}
    <2>1. req[r].kind = "poll"
      BY <1>11, <1>w DEF FindGroups, ReaderOK
    <2>2. rs = {} => Listed(who) = {} /\ Allowed(who) = {}
      BY DEF Listed, Allowed
    <2>3. /\ Calm([pc |-> "plans", kind |-> "poll", who |-> who, groups |-> rs])
          /\ rs = {} => Calm([pc |-> "done", kind |-> req[r].kind, who |-> who,
                              answer |-> NoUsers])
      BY <2>1, <2>2 DEF CalmFetch, CalmPoll, NoUsers
    <2> HIDE DEF Calm, rs
    <2> QED BY <1>11, <1>c, <1>f, <2>3 DEF FindGroups, rs
  <1>12. ASSUME FindPlans(r) PROVE Good
    <2> DEFINE ps == {p \in Plans : GroupsOf(p) \cap req[r].groups # {}}
               all == {p \in Plans : \E g \in GroupsOf(p) : <<g, who>> \in groupAgents}
    <2>1. req[r].kind = "poll"
      BY <1>12, <1>w DEF FindPlans, ReaderOK
    <2>2. was => ps = all
      <3>1. was => req[r].groups = {g \in Groups : <<g, who>> \in groupAgents}
        BY <1>12, <1>o DEF FindPlans, CalmPoll
      <3>2. \A p \in Plans : GroupsOf(p) \subseteq Groups
        BY DEF GroupsOf
      <3> HIDE DEF who, was
      <3> QED BY <3>1, <3>2
    <2>3. all = {} => Listed(who) = {} /\ Allowed(who) = {}
      BY ListedByPlan DEF Allowed
    <2> HIDE DEF ps
    <2>4. /\ was => Calm([pc |-> "users", kind |-> "poll", who |-> who, plans |-> ps])
          /\ was /\ ps = {} => Calm([pc |-> "done", kind |-> req[r].kind, who |-> who,
                                     answer |-> NoUsers])
      BY <2>1, <2>2, <2>3 DEF CalmFetch, CalmPoll, NoUsers
    <2> HIDE DEF Calm
    <2> QED BY <1>12, <1>c, <1>f, <2>4 DEF FindPlans, ps
  <1>13. ASSUME GiveUp(r) PROVE Good
    <2>1. Becomes(r, NoRequest, Undisturbed)
      BY <1>13 DEF GiveUp, RequestsOK, Becomes
    <2>2. Calm(NoRequest)
      BY DEF CalmFetch, CalmPoll, NoRequest
    <2> HIDE DEF Calm
    <2> QED BY <2>1, <2>2 DEF Good
  <1> QED BY <1>1, <1>2, <1>3, <1>4, <1>5, <1>6, <1>7, <1>8, <1>9, <1>10, <1>11, <1>12, <1>13
           DEF ReadStep, Good

\* A SELECT of one reader says nothing of the others, and a statement of an
\* editor ends the quiet of every reader unless it changes nothing.
LEMMA StepCalm ==
  ASSUME TableOK, RequestsOK, CalmInv, Statement
  PROVE  CalmInv'
  <1> SUFFICES ASSUME NEW s \in Requests, NEW h \in {req'[s]}, since'[s].calm
               PROVE  CalmFetch(h)' /\ CalmPoll(h)'
    BY DEF CalmInv
  <1>1. CASE \E r \in Requests : \/ \E u \in Users : Fetch(r, u)
                                 \/ \E a \in Agents : Poll(r, a)
                                 \/ ReadStep(r)
    <2>1. PICK r \in Requests :
            (\E u \in Users : Fetch(r, u)) \/ (\E a \in Agents : Poll(r, a)) \/ ReadStep(r)
      BY <1>1
    <2>2. PICK mine, hist : /\ Becomes(r, mine, hist)
                            /\ hist.calm => CalmFetch(mine) /\ CalmPoll(mine)
      BY <2>1, CalmRead
    <2>3. CalmFetch(h) /\ CalmPoll(h)
      BY <2>2 DEF Becomes, CalmInv
    <2>4. UNCHANGED tables
      BY <2>1, ReadType
    <2> QED BY <2>3, <2>4, CalmKept
  <1>2. CASE Disturb
    <2>1. CASE req[s].pc = "idle"
      BY <1>2, <2>1, Disturbed DEF CalmFetch, CalmPoll
    <2>2. CASE req[s].pc # "idle"
      <3>1. req' = req /\ since[s].calm /\ tables' = tables
        BY <1>2, <2>2, Disturbed DEF RequestsOK
      <3> QED BY <3>1, CalmKept DEF CalmInv
    <2> QED BY <2>1, <2>2
  <1>3. CASE OnlyReads
    BY <1>3, CalmKept DEF OnlyReads, CalmInv
  <1>4. CASE Crash
    <2>1. CASE h = req[s] /\ since'[s] = since[s]
      BY <1>4, <2>1, CrashEnds, CalmKept DEF CalmInv
    <2>2. CASE h = NoRequest
      BY <2>2 DEF CalmFetch, CalmPoll, NoRequest
    <2> QED BY <1>4, <2>1, <2>2, CrashEnds
  <1> QED BY <1>1, <1>2, <1>3, <1>4, StepKinds

\* The bounds on traffic and on writing requests play no part in this: it is
\* inductive for the steps of Unbounded.
CalmTables == TableOK /\ RequestsOK /\ CalmInv

LEMMA CalmTablesInductive ==
  /\ Init => CalmTables
  /\ CalmTables /\ [Statement]_handlers => CalmTables'
  /\ CalmTables => QuietFetchIsExact /\ QuietPollIsExact
  <1>1. Init => CalmTables
    <2> SUFFICES ASSUME Init PROVE CalmInv
      BY InitTypeInv DEF TypeInv, CalmTables
    <2> QED BY DEF Init, NoRequest, CalmInv, CalmFetch, CalmPoll
  <1>2. ASSUME CalmTables, UNCHANGED handlers PROVE CalmTables'
    <2>1. req' = req /\ since' = since /\ edit' = edit /\ UNCHANGED tables
      BY <1>2 DEF handlers
    <2>2. TableOK' /\ RequestsOK'
      BY <1>2, <2>1 DEF CalmTables, TableOK, RequestsOK, tables
    <2>3. CalmInv'
      BY <1>2, <2>1, CalmKept DEF CalmTables, CalmInv
    <2> QED BY <2>2, <2>3 DEF CalmTables
  <1>3. ASSUME CalmTables, Statement PROVE CalmTables'
    BY <1>3, StepType, StepCalm DEF CalmTables
  <1>4. CalmTables => QuietFetchIsExact /\ QuietPollIsExact
    BY DEF CalmTables, CalmInv, CalmFetch, CalmPoll, QuietFetchIsExact, QuietPollIsExact,
           Answered
  <1> QED BY <1>1, <1>2, <1>3, <1>4

LEMMA WithoutBounds ==
  [Next]_vars => [Statement]_handlers
  BY DEF Next, vars, Statement

\* A subscription fetched while nothing changes holds exactly the nodes the
\* user's plan leads to, whatever other requests run before and after.
THEOREM QuietFetchExact == Spec => []QuietFetchIsExact
  BY CalmTablesInductive, WithoutBounds, PTL DEF Spec

\* And an agent's poll lists and lets in exactly the users it should.
THEOREM QuietPollExact == Spec => []QuietPollIsExact
  BY CalmTablesInductive, WithoutBounds, PTL DEF Spec

-----------------------------------------------------------------------------
\* What was held for a smaller history is held for a larger one.
LEMMA HeldGrows ==
  ASSUME NEW H, NEW K, H \subseteq K, NEW M, NEW h, HeldFetch(h, H), HeldPoll(h, H, M)
  PROVE  HeldFetch(h, K) /\ HeldPoll(h, K, M)
  <1>1. \A u : GateHeld(H, u) => GateHeld(K, u)
    BY DEF GateHeld
  <1>2. \A u, gs : NowHeld(H, u, gs) => NowHeld(K, u, gs)
    BY DEF NowHeld
  <1>3. \A a, p : LinkHeld(H, a, p) => LinkHeld(K, a, p)
    BY DEF LinkHeld
  <1>4. \A u, o : FetchHeld(H, u, o) => FetchHeld(K, u, o)
    BY <1>1, <1>3 DEF FetchHeld
  <1>5. \A a, u : PollHeld(H, M, a, u) => PollHeld(K, M, a, u)
    BY <1>3 DEF PollHeld
  <1>6. HeldFetch(h, K)
    BY <1>1, <1>2, <1>4 DEF HeldFetch
  <1>7. HeldPoll(h, K, M)
    BY <1>3, <1>5 DEF HeldPoll
  <1> QED BY <1>6, <1>7

\* And so it is if more SELECTs have failed.
LEMMA PollHeldGrows ==
  ASSUME NEW H, NEW M, NEW N, M \subseteq N, NEW a, NEW u, PollHeld(H, M, a, u)
  PROVE  PollHeld(H, N, a, u)
  BY DEF PollHeld

\* The explanations the property asks for.
LEMMA Explanations ==
  ASSUME NEW r
  PROVE  /\ \A o : FetchHeld(Held(r), req[r].who, o) => FetchExplained(r, o)
         /\ \A u : PollHeld(Held(r), since[r].missed, req[r].who, u) => PollExplained(r, u)
  <1>1. ASSUME NEW o, FetchHeld(Held(r), req[r].who, o) PROVE FetchExplained(r, o)
    BY <1>1 DEF FetchHeld, GateHeld, LinkHeld, FetchExplained
  <1>2. ASSUME NEW u, PollHeld(Held(r), since[r].missed, req[r].who, u)
        PROVE  PollExplained(r, u)
    BY <1>2 DEF PollHeld, LinkHeld, PollExplained
  <1> QED BY <1>1, <1>2

\* The rows of the tables are among what a reader may take from them.
LEMMA FactsHold ==
  ASSUME Recording
  PROVE  /\ \A u \in Users : <<u, users[u]>> \in Facts
         /\ \A p \in Plans : <<p, plans[p]>> \in Facts
         /\ groupSources \subseteq Facts /\ groupAgents \subseteq Facts
  BY DEF Facts

\* A SELECT takes what it adds to its reader's state from the tables.
LEMMA HeldRead ==
  ASSUME Recording, TableOK, RequestsOK, HeldInv, NEW r \in Requests,
         (\E u \in Users : Fetch(r, u)) \/ (\E a \in Agents : Poll(r, a)) \/ ReadStep(r)
  PROVE  \E h, hist : /\ Becomes(r, h, hist)
                      /\ \A H \in {Facts \union hist.lost} :
                           HeldFetch(h, H) /\ HeldPoll(h, H, hist.missed)
  <1> DEFINE OK(h, H, M) == HeldFetch(h, H) /\ HeldPoll(h, H, M)
             Good == \E h, hist : /\ Becomes(r, h, hist)
                                  /\ OK(h, Facts \union hist.lost, hist.missed)
             who == req[r].who
             K == Held(r)
             M == since[r].missed
  <1>o. HeldFetch(req[r], K) /\ HeldPoll(req[r], K, M)
    BY DEF HeldInv
  <1>k. /\ \A u \in Users : <<u, users[u]>> \in Facts /\ <<u, users[u]>> \in K
        /\ \A p \in Plans : <<p, plans[p]>> \in K
        /\ groupSources \subseteq K /\ groupAgents \subseteq Facts /\ groupAgents \subseteq K
    BY FactsHold DEF Held
  <1>w. ReaderOK(req[r])
    BY DEF RequestsOK
  <1>d. ASSUME NEW h, h.pc = "done", NEW H, NEW N PROVE OK(h, H, N)
    BY <1>d DEF HeldFetch, HeldPoll
  <1>f. ASSUME NEW answer, NEW failed, Finish(r, answer, failed) PROVE Good
    <2> DEFINE h == [pc |-> "done", kind |-> req[r].kind, who |-> who, answer |-> answer]
               hist == Ended(r, failed)
    <2>1. Becomes(r, h, hist)
      BY <1>f, FinishBecomes
    <2>2. OK(h, Facts \union hist.lost, hist.missed)
      BY <1>d
    <2> HIDE DEF h, hist, OK
    <2> QED BY <2>1, <2>2
  <1>c. ASSUME NEW h, NEW failed, Continues(r, h, failed), OK(h, K, M) PROVE Good
    <2>1. Becomes(r, h, Noted(r, failed))
      BY <1>c, ContinuesBecomes
    <2>2. Facts \union Noted(r, failed).lost = K /\ Noted(r, failed).missed = M
      BY DEF Noted, Held
    <2> HIDE DEF OK, K, M
    <2> QED BY <1>c, <2>1, <2>2
  <1>b. ASSUME NEW h, Begins(r, h), OK(h, Facts, {}) PROVE Good
    <2>1. Facts \union Undisturbed.lost = Facts /\ Undisturbed.missed = {}
      BY DEF Undisturbed
    <2> HIDE DEF OK
    <2> QED BY <1>b, <2>1, BeginsBecomes
  <1> HIDE DEF Good, K, M
  <1>1. ASSUME NEW u \in Users, Fetch(r, u) PROVE Good
    <2> DEFINE passes == /\ users[u].live /\ users[u].enabled /\ ~users[u].expired
                         /\ users[u].plan # None
    <2>1. passes =>
            OK([pc |-> "plan", kind |-> "fetch", who |-> u, copy |-> users[u]], Facts, {})
      BY <1>k DEF HeldFetch, HeldPoll
    <2>2. OK([pc |-> "done", kind |-> "fetch", who |-> u, answer |-> {}], Facts, {})
      BY <1>d
    <2> HIDE DEF OK
    <2> QED BY <1>1, <1>b, <2>1, <2>2 DEF Fetch
  <1>2. ASSUME NEW a \in Agents, Poll(r, a) PROVE Good
    <2>1. OK([pc |-> "groups", kind |-> "poll", who |-> a], Facts, {})
      BY DEF HeldFetch, HeldPoll
    <2> HIDE DEF OK
    <2> QED BY <1>2, <1>b, <2>1 DEF Poll
  <1>3. ASSUME LoadPlan(r) PROVE Good
    <2> DEFINE c == req[r].copy
               p == plans[c.plan]
               through == p.row = "live" /\ ~Exhausted(c.used, p.limit)
    <2>1. c.plan \in Plans
      BY <1>3, <1>w DEF LoadPlan, ReaderOK, UserRow
    <2>2. <<who, c>> \in K /\ c.live /\ c.enabled /\ ~c.expired
      BY <1>3, <1>o DEF LoadPlan, HeldFetch
    <2>3. <<c.plan, p>> \in K
      BY <1>k, <2>1
    <2>4. through => GateHeld(K, who)
      BY <2>2, <2>3 DEF GateHeld
    <2>5. GateHeld(K, who) => OK([pc |-> "collect", kind |-> "fetch", who |-> who], K, M)
      BY DEF HeldFetch, HeldPoll
    <2>6. PICK failed \in BOOLEAN :
            IF ~failed /\ through
            THEN Continues(r, [pc |-> "collect", kind |-> "fetch", who |-> who], failed)
            ELSE Finish(r, {}, failed)
      BY <1>3 DEF LoadPlan
    <2> HIDE DEF OK, through
    <2> QED BY <1>c, <1>f, <2>4, <2>5, <2>6
  <1>4. ASSUME Collect(r) PROVE Good
    <2> DEFINE gs == GroupsOf(users[who].plan)
    <2>1. GateHeld(K, who) /\ who \in Users
      BY <1>4, <1>o, <1>w DEF Collect, HeldFetch, ReaderOK, Fetching
    <2>2. users[who].live => NowHeld(K, who, gs)
      BY <1>k, <2>1 DEF NowHeld
    <2>3. users[who].live =>
            OK([pc |-> "sources", kind |-> "fetch", who |-> who, groups |-> gs], K, M)
      <3> HIDE DEF gs
      <3> QED BY <2>1, <2>2 DEF HeldFetch, HeldPoll
    <2>4. PICK failed \in BOOLEAN :
            IF ~failed /\ users[who].live /\ users[who].plan # None /\ gs # {}
            THEN Continues(r, [pc |-> "sources", kind |-> "fetch", who |-> who,
                               groups |-> gs], failed)
            ELSE Finish(r, {}, failed)
      BY <1>4 DEF Collect
    <2> HIDE DEF OK, gs
    <2> QED BY <1>c, <1>f, <2>3, <2>4
  <1>5. ASSUME FindSources(r) PROVE Good
    <2> DEFINE gs == req[r].groups
    <2>0. PICK failed \in BOOLEAN :
            Continues(r, [pc |-> "agents", kind |-> "fetch", who |-> who, groups |-> gs,
                          owners |-> Found(SourcesIn(gs), failed)], failed)
      BY <1>5 DEF FindSources
    <2>1. GateHeld(K, who) /\ NowHeld(K, who, gs)
      BY <1>5, <1>o DEF FindSources, HeldFetch
    <2>2. \A o \in SourcesIn(gs) : FetchHeld(K, who, o)
      BY <1>k, <2>1 DEF SourcesIn, FetchHeld, NowHeld, LinkHeld
    <2> HIDE DEF gs
    <2>3. OK([pc |-> "agents", kind |-> "fetch", who |-> who, groups |-> gs,
              owners |-> Found(SourcesIn(gs), failed)], K, M)
      BY <2>1, <2>2 DEF HeldFetch, HeldPoll, Found
    <2> HIDE DEF OK
    <2> QED BY <1>c, <2>0, <2>3
  <1>6. ASSUME FindAgents(r) PROVE Good
    <2> DEFINE gs == req[r].groups
    <2>0. PICK failed \in BOOLEAN :
            LET owners == req[r].owners \union Found(AgentsIn(gs), failed) IN
              IF owners # {}
              THEN Continues(r, [pc |-> "nodes", kind |-> "fetch", who |-> who,
                                 owners |-> owners], failed)
              ELSE Finish(r, {}, failed)
      BY <1>6 DEF FindAgents
    <2> DEFINE found == req[r].owners \union Found(AgentsIn(gs), failed)
    <2>1. /\ GateHeld(K, who) /\ NowHeld(K, who, gs)
          /\ \A o \in req[r].owners : FetchHeld(K, who, o)
      BY <1>6, <1>o DEF FindAgents, HeldFetch
    <2>2. \A o \in AgentsIn(gs) : FetchHeld(K, who, o)
      <3> SUFFICES ASSUME NEW o \in AgentsIn(gs) PROVE FetchHeld(K, who, o)
        OBVIOUS
      <3>1. PICK now \in K : now[1] = who /\ now[2].live /\ gs = GroupsOf(now[2].plan)
        BY <2>1 DEF NowHeld
      <3>2. PICK g \in gs : <<g, o>> \in groupAgents
        BY DEF AgentsIn
      <3>3. LinkHeld(K, o, now[2].plan)
        BY <1>k, <3>1, <3>2 DEF LinkHeld
      <3> QED BY <2>1, <3>1, <3>3 DEF FetchHeld
    <2>3. \A o \in found : FetchHeld(K, who, o)
      BY <2>1, <2>2 DEF Found
    <2>5. IF found # {}
          THEN Continues(r, [pc |-> "nodes", kind |-> "fetch", who |-> who,
                             owners |-> found], failed)
          ELSE Finish(r, {}, failed)
      BY <2>0
    <2> HIDE DEF gs, found
    <2>4. OK([pc |-> "nodes", kind |-> "fetch", who |-> who, owners |-> found], K, M)
      BY <2>3 DEF HeldFetch, HeldPoll
    <2> HIDE DEF OK
    <2> QED BY <1>c, <1>f, <2>4, <2>5
  <1>7. ASSUME ReadNodes(r) PROVE Good
    BY <1>7, <1>f DEF ReadNodes
  <1>8. ASSUME FindUsers(r) PROVE Good
    <2> DEFINE all == {u \in Users : /\ users[u].live /\ users[u].enabled
                                     /\ users[u].plan \in req[r].plans}
    <2>0. PICK failed \in BOOLEAN :
            Continues(r, [pc |-> "limits", kind |-> "poll", who |-> who,
                          copies |-> [u \in Found(all, failed) |-> users[u]],
                          todo |-> Found(all, failed), allowed |-> {}], failed)
      BY <1>8 DEF FindUsers
    <2> DEFINE found == Found(all, failed)
               copies == [u \in found |-> users[u]]
    <2>1. \A p \in req[r].plans : LinkHeld(K, who, p)
      BY <1>8, <1>o DEF FindUsers, HeldPoll
    <2>2. /\ DOMAIN copies = found
          /\ \A u \in found : /\ <<u, copies[u]>> \in K /\ LinkHeld(K, who, copies[u].plan)
                              /\ copies[u].live /\ copies[u].enabled
      BY <1>k, <2>1 DEF Found
    <2>4. Continues(r, [pc |-> "limits", kind |-> "poll", who |-> who, copies |-> copies,
                        todo |-> found, allowed |-> {}], failed)
      BY <2>0
    <2> HIDE DEF found, copies
    <2>3. OK([pc |-> "limits", kind |-> "poll", who |-> who, copies |-> copies,
              todo |-> found, allowed |-> {}], K, M)
      BY <2>2 DEF HeldFetch, HeldPoll
    <2> HIDE DEF OK
    <2> QED BY <1>c, <2>3, <2>4
  <1>9. ASSUME NEW u \in Users, LoadLimit(r, u) PROVE Good
    <2> DEFINE c == req[r].copies[u]
    <2>0. PICK failed \in BOOLEAN :
            LET limit == IF ~failed /\ PlanLive(c.plan) THEN plans[c.plan].limit ELSE 0
                ok == ~c.expired /\ ~Exhausted(c.used, limit)
            IN  /\ req' = [req EXCEPT ![r].todo = @ \ {u},
                                      ![r].allowed = IF ok THEN @ \union {u} ELSE @]
                /\ since' = [since EXCEPT ![r].calm = @ /\ ~failed,
                                          ![r].missed = IF failed THEN @ \union {u} ELSE @]
      BY <1>9 DEF LoadLimit
    <2> DEFINE limit == IF ~failed /\ PlanLive(c.plan) THEN plans[c.plan].limit ELSE 0
               ok == ~c.expired /\ ~Exhausted(c.used, limit)
               h == [req[r] EXCEPT !.todo = @ \ {u}, !.allowed = IF ok THEN @ \union {u} ELSE @]
               hist == [Noted(r, failed) EXCEPT !.missed = IF failed THEN @ \union {u} ELSE @]
               N == hist.missed
    <2>1. /\ req[r] = [pc |-> "limits", kind |-> "poll", who |-> who,
                       copies |-> req[r].copies, todo |-> req[r].todo,
                       allowed |-> req[r].allowed]
          /\ u \in DOMAIN req[r].copies /\ c.plan \in Plans
      BY <1>9, <1>w DEF LoadLimit, ReaderOK
    <2>2. /\ \A v \in DOMAIN req[r].copies :
               /\ <<v, req[r].copies[v]>> \in K /\ LinkHeld(K, who, req[r].copies[v].plan)
               /\ req[r].copies[v].live /\ req[r].copies[v].enabled
          /\ \A v \in req[r].allowed : PollHeld(K, M, who, v)
      BY <2>1, <1>o DEF HeldPoll
    <2>n. M \subseteq N /\ (failed => u \in N) /\ Facts \union hist.lost = K
      BY DEF Noted, M, K, Held
    <2>3. ok => PollHeld(K, N, who, u)
      <3>1. <<u, c>> \in K /\ <<c.plan, plans[c.plan]>> \in K
        BY <1>k, <2>1, <2>2
      <3>2. ok => /\ ~c.expired
                  /\ \/ ~(plans[c.plan].row = "live" /\ Exhausted(c.used, plans[c.plan].limit))
                     \/ failed
        BY DEF PlanLive
      <3> HIDE DEF ok, N
      <3> QED BY <2>1, <2>2, <2>n, <3>1, <3>2 DEF PollHeld
    <2>4. /\ h.pc = "limits" /\ h.who = who /\ h.copies = req[r].copies
          /\ h.allowed = IF ok THEN req[r].allowed \union {u} ELSE req[r].allowed
      <3> HIDE DEF ok
      <3> QED BY <2>1
    <2>5. Becomes(r, h, hist)
      <3>1. /\ req' = [req EXCEPT ![r].todo = @ \ {u},
                                  ![r].allowed = IF ok THEN @ \union {u} ELSE @]
            /\ since' = [since EXCEPT ![r].calm = @ /\ ~failed,
                                      ![r].missed = IF failed THEN @ \union {u} ELSE @]
        BY <2>0
      <3> HIDE DEF ok
      <3>2. req' = [req EXCEPT ![r] = h]
        BY <2>1, <3>1 DEF RequestsOK
      <3> HIDE DEF h
      <3> QED BY <3>1, <3>2, MissedBecomes
    <2> HIDE DEF ok, h, c, N
    <2>6. \A v \in h.allowed : PollHeld(K, N, who, v)
      <3>1. \A v \in req[r].allowed : PollHeld(K, N, who, v)
        BY <2>2, <2>n, PollHeldGrows
      <3> QED BY <2>3, <2>4, <3>1
    <2>7. OK(h, K, N)
      BY <2>2, <2>4, <2>6 DEF HeldFetch, HeldPoll
    <2> HIDE DEF OK
    <2>8. OK(h, Facts \union hist.lost, hist.missed)
      BY <2>7, <2>n DEF N
    <2> HIDE DEF hist
    <2> QED BY <2>5, <2>8 DEF Good, OK
  <1>10. ASSUME TellAgent(r) PROVE Good
    BY <1>10, <1>f DEF TellAgent
  <1>12. ASSUME FindGroups(r) PROVE Good
    <2> DEFINE gs == {g \in Groups : <<g, who>> \in groupAgents}
    <2>1. \A g \in gs : \E link \in K : link[2] = who /\ link[1] = g
      BY <1>k
    <2> HIDE DEF gs
    <2>2. OK([pc |-> "plans", kind |-> "poll", who |-> who, groups |-> gs], K, M)
      BY <2>1 DEF HeldFetch, HeldPoll
    <2> HIDE DEF OK
    <2> QED BY <1>12, <1>c, <1>f, <2>2 DEF FindGroups, gs
  <1>13. ASSUME FindPlans(r) PROVE Good
    <2> DEFINE ps == {p \in Plans : GroupsOf(p) \cap req[r].groups # {}}
    <2>1. \A g \in req[r].groups : \E link \in K : link[2] = who /\ link[1] = g
      BY <1>13, <1>o DEF FindPlans, HeldPoll
    <2>2. \A p \in ps : LinkHeld(K, who, p)
      BY <2>1 DEF LinkHeld
    <2> HIDE DEF ps
    <2>3. OK([pc |-> "users", kind |-> "poll", who |-> who, plans |-> ps], K, M)
      BY <2>2 DEF HeldFetch, HeldPoll
    <2> HIDE DEF OK
    <2> QED BY <1>13, <1>c, <1>f, <2>3 DEF FindPlans, ps
  <1>14. ASSUME GiveUp(r) PROVE Good
    <2>1. Becomes(r, NoRequest, Undisturbed)
      BY <1>14 DEF GiveUp, RequestsOK, Becomes
    <2>2. \A H, N : OK(NoRequest, H, N)
      BY DEF HeldFetch, HeldPoll, NoRequest
    <2> HIDE DEF OK
    <2> QED BY <2>1, <2>2 DEF Good, OK
  <1>11. Good
    BY <1>1, <1>2, <1>3, <1>4, <1>5, <1>6, <1>7, <1>8, <1>9, <1>10, <1>12, <1>13, <1>14
       DEF ReadStep
  <1> QED BY <1>11 DEF Good

\* A statement of an editor takes nothing from what a reader has held.
LEMMA StepHeld ==
  ASSUME Recording, TableOK, RequestsOK, HeldInv,
         Statement
  PROVE  HeldInv'
  <1> SUFFICES ASSUME NEW s \in Requests, NEW h \in {req'[s]},
                      NEW H, H = (Facts \union since[s].lost)'
               PROVE  HeldFetch(h, H) /\ HeldPoll(h, H, since'[s].missed)
    BY DEF HeldInv, Held
  <1>t. UNCHANGED tables => Facts' = Facts
    BY DEF tables, Facts
  <1>s. /\ HeldFetch(req[s], Held(s)) /\ HeldPoll(req[s], Held(s), since[s].missed)
        /\ Held(s) = Facts \union since[s].lost
    BY DEF HeldInv, Held
  <1>1. CASE \E r \in Requests : \/ \E u \in Users : Fetch(r, u)
                                 \/ \E a \in Agents : Poll(r, a)
                                 \/ ReadStep(r)
    <2>1. PICK r \in Requests :
            (\E u \in Users : Fetch(r, u)) \/ (\E a \in Agents : Poll(r, a)) \/ ReadStep(r)
      BY <1>1
    <2>2. PICK mine, hist :
            /\ Becomes(r, mine, hist)
            /\ \A K \in {Facts \union hist.lost} :
                 HeldFetch(mine, K) /\ HeldPoll(mine, K, hist.missed)
      BY <2>1, HeldRead
    <2>3. Facts' = Facts
      BY <1>t, <2>1, ReadType
    <2> QED BY <1>s, <2>2, <2>3 DEF Becomes
  <1>2. CASE Disturb
    <2>1. h = req[s]
      BY <1>2 DEF Disturb
    <2>2. CASE req[s].pc \in {"idle", "done"}
      BY <2>1, <2>2 DEF HeldFetch, HeldPoll
    <2>3. CASE req[s].pc \notin {"idle", "done"}
      <3>1. /\ since'[s].lost = (since[s].lost \union Facts) \ Facts'
            /\ since'[s].missed = since[s].missed
        BY <1>2, <2>3, Disturbed
      <3>2. Held(s) \subseteq H
        BY <1>s, <3>1
      <3>3. HeldFetch(req[s], H) /\ HeldPoll(req[s], H, since[s].missed)
        BY <1>s, <3>2, HeldGrows
      <3> QED BY <2>1, <3>1, <3>3
    <2> QED BY <2>2, <2>3
  <1>3. CASE OnlyReads
    BY <1>3, <1>s, <1>t DEF OnlyReads
  <1>4. CASE Crash
    <2>1. Facts' = Facts
      BY <1>4, <1>t, CrashEnds
    <2>2. CASE h = req[s] /\ since'[s] = since[s]
      BY <1>s, <2>1, <2>2
    <2>3. CASE h = NoRequest
      BY <2>3 DEF HeldFetch, HeldPoll, NoRequest
    <2> QED BY <1>4, <2>2, <2>3, CrashEnds
  <1> QED BY <1>1, <1>2, <1>3, <1>4, StepKinds

\* A SELECT that ends a request gives an answer whose parts are held.
LEMMA AnswerHeld ==
  ASSUME RequestsOK, HeldInv, NEW r \in Requests,
         (\E u \in Users : Fetch(r, u)) \/ (\E a \in Agents : Poll(r, a)) \/ ReadStep(r),
         req[r].pc # "done", req'[r].pc = "done"
  PROVE  LET answer == req'[r].answer IN
           IF req'[r].kind = "fetch" THEN \A x \in answer : FetchExplained(r, x[1])
           ELSE \A u \in answer.allowed : PollExplained(r, u)
  <1> DEFINE Explained(h) ==
               IF h.kind = "fetch" THEN \A x \in h.answer : FetchExplained(r, x[1])
               ELSE \A u \in h.answer.allowed : PollExplained(r, u)
             who == req[r].who
  <1>o. HeldFetch(req[r], Held(r)) /\ HeldPoll(req[r], Held(r), since[r].missed)
    BY DEF HeldInv
  <1>w. ReaderOK(req[r])
    BY DEF RequestsOK
  <1>e. \A h : h.kind = "fetch" /\ h.answer = {} => Explained(h)
    OBVIOUS
  <1>f. ASSUME NEW answer, NEW failed, Finish(r, answer, failed)
        PROVE  req'[r].kind = req[r].kind /\ req'[r].answer = answer
    <2> DEFINE h == [pc |-> "done", kind |-> req[r].kind, who |-> who, answer |-> answer]
               hist == Ended(r, failed)
    <2>1. Becomes(r, h, hist)
      BY <1>f, FinishBecomes
    <2>2. h.kind = req[r].kind /\ h.answer = answer
      OBVIOUS
    <2> HIDE DEF h, hist
    <2> QED BY <2>1, <2>2 DEF Becomes
  <1>c. ASSUME NEW h, NEW failed, Continues(r, h, failed) PROVE req'[r] = h
    BY <1>c, ContinuesBecomes DEF Becomes
  <1>b. ASSUME NEW h, Begins(r, h) PROVE req'[r] = h
    BY <1>b, BeginsBecomes DEF Becomes
  <1>k. LoadPlan(r) \/ Collect(r) \/ FindAgents(r) \/ ReadNodes(r) => req[r].kind = "fetch"
    BY <1>w DEF LoadPlan, Collect, FindAgents, ReadNodes, ReaderOK, Fetching
  <1>1. ASSUME NEW u \in Users, Fetch(r, u) PROVE Explained(req'[r])
    <2>1. \/ req'[r].pc = "plan"
          \/ req'[r] = [pc |-> "done", kind |-> "fetch", who |-> u, answer |-> {}]
      BY <1>1, <1>b DEF Fetch
    <2> QED BY <1>e, <2>1
  <1>2. ASSUME NEW a \in Agents, Poll(r, a) PROVE Explained(req'[r])
    BY <1>2, <1>b DEF Poll
  <1>3. ASSUME LoadPlan(r) PROVE Explained(req'[r])
    <2>1. \E failed : Finish(r, {}, failed)
      BY <1>3, <1>c DEF LoadPlan
    <2> QED BY <1>3, <1>e, <1>f, <1>k, <2>1
  <1>4. ASSUME Collect(r) PROVE Explained(req'[r])
    <2>1. \E failed : Finish(r, {}, failed)
      BY <1>4, <1>c DEF Collect
    <2> QED BY <1>4, <1>e, <1>f, <1>k, <2>1
  <1>5. ASSUME FindSources(r) PROVE FALSE
    <2>1. PICK groups, owners, failed :
            Continues(r, [pc |-> "agents", kind |-> "fetch", who |-> who,
                          groups |-> groups, owners |-> owners], failed)
      BY <1>5 DEF FindSources
    <2> QED BY <1>c, <2>1
  <1>6. ASSUME FindAgents(r) PROVE Explained(req'[r])
    <2>1. \E failed : Finish(r, {}, failed)
      BY <1>6, <1>c DEF FindAgents
    <2> QED BY <1>6, <1>e, <1>f, <1>k, <2>1
  <1>7. ASSUME ReadNodes(r) PROVE Explained(req'[r])
    <2>0. PICK failed \in BOOLEAN : Finish(r, Found(NodesOf(req[r].owners), failed), failed)
      BY <1>7 DEF ReadNodes
    <2>1. \A o \in req[r].owners : FetchExplained(r, o)
      BY <1>7, <1>o, Explanations DEF ReadNodes, HeldFetch
    <2>2. \A x \in Found(NodesOf(req[r].owners), failed) : FetchExplained(r, x[1])
      BY <2>1 DEF NodesOf, Found
    <2>3. /\ req'[r].kind = "fetch"
          /\ req'[r].answer = Found(NodesOf(req[r].owners), failed)
      BY <1>7, <1>f, <1>k, <2>0
    <2> QED BY <2>2, <2>3
  <1>8. ASSUME FindUsers(r) PROVE FALSE
    <2>1. PICK copies, todo, failed :
            Continues(r, [pc |-> "limits", kind |-> "poll", who |-> who, copies |-> copies,
                          todo |-> todo, allowed |-> {}], failed)
      BY <1>8 DEF FindUsers
    <2> QED BY <1>c, <2>1
  <1>9. ASSUME NEW u \in Users, LoadLimit(r, u) PROVE FALSE
    <2>1. PICK todo, allowed : req' = [req EXCEPT ![r].todo = todo, ![r].allowed = allowed]
      BY <1>9 DEF LoadLimit
    <2>2. req[r] = [pc |-> "limits", kind |-> "poll", who |-> who,
                    copies |-> req[r].copies, todo |-> req[r].todo,
                    allowed |-> req[r].allowed]
      BY <1>9, <1>w DEF LoadLimit, ReaderOK
    <2>3. req'[r].pc = "limits"
      BY <2>1, <2>2 DEF RequestsOK
    <2> QED BY <2>3
  <1>10. ASSUME TellAgent(r) PROVE Explained(req'[r])
    <2>1. \A u \in req[r].allowed : PollExplained(r, u)
      BY <1>10, <1>o, Explanations DEF TellAgent, HeldPoll
    <2>2. req[r].kind = "poll"
      BY <1>10, <1>w DEF TellAgent, ReaderOK
    <2>4. Finish(r, [listed |-> DOMAIN req[r].copies, allowed |-> req[r].allowed], FALSE)
      BY <1>10 DEF TellAgent
    <2>3. req'[r].kind = "poll" /\ req'[r].answer.allowed = req[r].allowed
      BY <2>2, <2>4 DEF Finish, RequestsOK
    <2> QED BY <2>1, <2>3
  <1>12. ASSUME FindGroups(r) \/ FindPlans(r) PROVE Explained(req'[r])
    <2>1. req'[r].kind = req[r].kind /\ req'[r].answer = NoUsers
      <3>1. CASE FindGroups(r)
        BY <3>1 DEF FindGroups, Finish, Continues, RequestsOK
      <3>2. CASE FindPlans(r)
        BY <3>2 DEF FindPlans, Finish, Continues, RequestsOK
      <3> QED BY <1>12, <3>1, <3>2
    <2>2. req[r].kind = "poll"
      BY <1>12, <1>w DEF FindGroups, FindPlans, ReaderOK
    <2> QED BY <2>1, <2>2 DEF NoUsers
  <1>13. ~GiveUp(r)
    BY DEF GiveUp, NoRequest, RequestsOK
  <1>11. Explained(req'[r])
    BY <1>1, <1>2, <1>3, <1>4, <1>5, <1>6, <1>7, <1>8, <1>9, <1>10, <1>12, <1>13 DEF ReadStep
  <1> QED BY <1>11

\* Whatever is written meanwhile, an answer is explained by rows each of which
\* existed while the request ran (Recording makes the history keep them).
THEOREM AnswersExplained == Recording => (Spec => AnswersAreExplained)
  <1> SUFFICES ASSUME Recording PROVE Spec => AnswersAreExplained
    OBVIOUS
  <1>1. Init => HeldInv
    BY DEF Init, NoRequest, HeldInv, HeldFetch, HeldPoll
  <1>2. TypeInv /\ HeldInv /\ [Next]_vars => HeldInv'
    <2> SUFFICES ASSUME TypeInv, HeldInv, [Next]_vars PROVE HeldInv'
      OBVIOUS
    <2>1. CASE UNCHANGED vars
      <3>1. req' = req /\ since' = since /\ Facts' = Facts
        BY <2>1 DEF vars, handlers, tables, Facts
      <3> QED BY <3>1 DEF HeldInv, Held
    <2>2. CASE Next
      BY <2>2, StepHeld DEF Next, TypeInv, Statement
    <2> QED BY <2>1, <2>2
  <1>3. TypeInv /\ HeldInv /\ [Next]_vars =>
          [\A r \in Requests :
             req[r].pc # "done" /\ req'[r].pc = "done" =>
               LET answer == req'[r].answer IN
                 IF req'[r].kind = "fetch" THEN \A x \in answer : FetchExplained(r, x[1])
                 ELSE \A u \in answer.allowed : PollExplained(r, u)]_vars
    <2> SUFFICES ASSUME TypeInv, HeldInv, Next, NEW r \in Requests,
                        req[r].pc # "done", req'[r].pc = "done"
                 PROVE  LET answer == req'[r].answer IN
                          IF req'[r].kind = "fetch"
                            THEN \A x \in answer : FetchExplained(r, x[1])
                          ELSE \A u \in answer.allowed : PollExplained(r, u)
      OBVIOUS
    <2>1. PICK q \in Requests :
            (\E u \in Users : Fetch(q, u)) \/ (\E a \in Agents : Poll(q, a)) \/ ReadStep(q)
      <3>1. Statement
        BY DEF Next, Statement
      <3>2. CASE Crash
        BY <3>2, CrashEnds DEF TypeInv, NoRequest
      <3> QED BY <3>1, <3>2, StepKinds DEF TypeInv, Disturb, OnlyReads
    <2>2. q = r
      BY <2>1, ReadType DEF TypeInv, Becomes
    <2> QED BY <2>1, <2>2, AnswerHeld DEF TypeInv
  <1> QED BY <1>1, <1>2, <1>3, TypeInvariant, PTL DEF Spec, AnswersAreExplained

=============================================================================
