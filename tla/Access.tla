------------------------------- MODULE Access -------------------------------
(***************************************************************************)
(* Who gets which nodes: GET /sub/:token as the user's client sees it and  *)
(* GET /api/agent/users as the agent sees it, read from the catalogue of   *)
(* plans, service groups, subscription sources and agents while the        *)
(* administrator edits it.                                                 *)
(*                                                                         *)
(* Both readers issue one SELECT after the other outside any transaction,  *)
(* and so do the editors with their writes; each statement is an action,   *)
(* and may fail.  Some handlers look at the error and some go on with what *)
(* a statement that failed leaves them.                                    *)
(* Sources and agents together are the owners of cached nodes.  The flags  *)
(* plans.enabled, service_groups.enabled and subscription_sources.enabled  *)
(* are read by no handler and are left out.                                *)
(***************************************************************************)
EXTENDS Integers, FiniteSets

CONSTANTS
  Users, Plans, Groups, Sources, Agents,     \* ids of rows the tables may hold
  PlanGroups,    \* plan_service_groups: no handler writes this table
  Limits,        \* the traffic limits an administrator gives to plans
  Requests,      \* the GET requests of clients and agents
  Editors,       \* administrator requests that may be in progress at once
  Nodes,         \* what tells the cached nodes of one owner apart
  Amounts,       \* byte counts an agent may report for a user
  MaxUsed,       \* bound on the traffic counted for one user
  MaxWrites,     \* bound on the writing requests of a run
  Recording,     \* whether readers record what they may have read (see Facts)
  Later,         \* ids of rows that are not created yet when the run starts
  None           \* NULL

Owners == Sources \union Agents

ASSUME TableAssumption == /\ PlanGroups \subseteq Plans \X Groups
                          /\ Sources \cap Agents = {}
                          /\ None \notin Plans
                          /\ Later \subseteq Plans \union Groups \union Owners
ASSUME LimitAssumption == /\ Limits \subseteq Int /\ Amounts \subseteq Int
                          /\ MaxUsed \in Nat /\ MaxWrites \in Nat
                          /\ Recording \in BOOLEAN

VARIABLES
  users,         \* plan_id, enabled, deleted_at, traffic_used, expire_at in the past
  plans,         \* state of the row, traffic_limit
  rows,          \* state of the service_groups, subscription_sources and agents rows
  groupSources,  \* group_subscription_sources
  groupAgents,   \* group_agents
  cached,        \* node_cache, one <<owner, node>> per row
  req,           \* the reading handlers
  edit,          \* the writing handlers
  writes,        \* writing requests so far, for the bound
  since          \* history of each reader: what changed since it began

tables == <<users, plans, rows, groupSources, groupAgents, cached>>
handlers == <<tables, req, edit, since>>
vars == <<handlers, writes>>

-----------------------------------------------------------------------------
(* What the tables say at one moment.                                      *)

RowStates == {"absent", "live", "deleted"}
PlanLive(p) == plans[p].row = "live"

GroupsOf(p) == {g \in Groups : <<p, g>> \in PlanGroups}
SourcesIn(gs) == {s \in Sources : \E g \in gs : <<g, s>> \in groupSources}
AgentsIn(gs) == {a \in Agents : \E g \in gs : <<g, a>> \in groupAgents}

Exhausted(used, limit) == limit > 0 /\ used >= limit

\* The user may fetch a subscription.
Entitled(u) ==
  /\ users[u].live /\ users[u].enabled /\ ~users[u].expired
  /\ users[u].plan # None /\ PlanLive(users[u].plan)
  /\ ~Exhausted(users[u].used, plans[users[u].plan].limit)

\* The cached nodes the user's subscription holds.
NodesOf(owners) == {x \in cached : x[1] \in owners}
Served(u) ==
  IF ~Entitled(u) THEN {}
  ELSE LET gs == GroupsOf(users[u].plan) IN NodesOf(SourcesIn(gs) \union AgentsIn(gs))

\* The users an agent is told about: not those the handler's query leaves out.
Listed(a) ==
  {u \in Users : /\ users[u].live /\ users[u].enabled
                 /\ \E g \in Groups : /\ <<g, a>> \in groupAgents
                                      /\ <<users[u].plan, g>> \in PlanGroups}

\* (Plausible mistakes, not part of the specification: the limit must be passed,
\* not reached; and a limit of 0 is taken for a limit.)
AllowedAtTheLimit(a) ==
  {u \in Listed(a) : LET p == users[u].plan IN
     /\ ~users[u].expired
     /\ ~(PlanLive(p) /\ plans[p].limit > 0 /\ users[u].used > plans[p].limit)}
AllowedNoUnlimited(a) ==
  {u \in Listed(a) : LET p == users[u].plan IN
     ~users[u].expired /\ ~(PlanLive(p) /\ users[u].used >= plans[p].limit)}

\* Those of them it is told to let in.
Allowed(a) ==
  {u \in Listed(a) :
     LET p == users[u].plan IN
       /\ ~users[u].expired
       /\ ~(PlanLive(p) /\ Exhausted(users[u].used, plans[p].limit))}

-----------------------------------------------------------------------------
(* Plausible mistakes in the handlers: none is part of the specification.  *)

\* The handler loads the plan but does not compare the traffic with it.
LoadPlanUnchecked(r) ==
  /\ req[r].pc = "plan"
  /\ req' = [req EXCEPT ![r] = [pc |-> "collect", kind |-> @.kind, who |-> @.who]]
  /\ UNCHANGED <<tables, edit, since>>

\* expire_at is shown to the agent and not acted upon.
LoadLimitOnly(r, u) ==
  /\ req[r].pc = "limits" /\ u \in req[r].todo
  /\ LET c == req[r].copies[u]
         p == plans[c.plan]
     IN  req' = [req EXCEPT ![r].todo = @ \ {u},
                            ![r].allowed = IF p.row = "live" /\ Exhausted(c.used, p.limit)
                                           THEN @ ELSE @ \union {u}]
  /\ UNCHANGED <<tables, edit, since>>

\* The query for the users of a plan forgets the enabled column.
FindUsersDisabledToo(r) ==
  /\ req[r].pc = "users"
  /\ LET found == {u \in Users : users[u].live /\ users[u].plan \in req[r].plans} IN
       req' = [req EXCEPT ![r] = [pc |-> "limits", kind |-> @.kind, who |-> @.who,
                                  copies |-> [u \in found |-> users[u]], todo |-> found,
                                  allowed |-> {}]]
  /\ UNCHANGED <<tables, edit, since>>

\* The two columns of the relation are exchanged.
AddSourceSwapped(e, s) ==
  /\ edit[e].op = "relink" /\ s \in edit[e].sources
  /\ groupSources' = groupSources \union {<<s, edit[e].on>>}
  /\ edit' = [edit EXCEPT ![e] = [op |-> "none"]]
  /\ UNCHANGED <<users, plans, rows, groupAgents, cached, req, since>>

-----------------------------------------------------------------------------
(* Reading requests.                                                       *)

\* What a reader may take from the tables, row by row.
Facts == IF ~Recording THEN {}
         ELSE {<<u, users[u]>> : u \in Users} \union {<<p, plans[p]>> : p \in Plans}
              \union groupSources \union groupAgents

\* calm: since the request began no table changed and no SELECT of it failed.
\* lost: the facts that held at some moment since then and no longer do.
\* missed: the users whose plan a SELECT failed to find.
Undisturbed == [calm |-> TRUE, lost |-> {}, missed |-> {}]

NoRequest == [pc |-> "idle"]
Finish(r, answer, failed) ==
  /\ req' = [req EXCEPT ![r] = [pc |-> "done", kind |-> @.kind, who |-> @.who,
                                answer |-> answer]]
  /\ since' = [since EXCEPT ![r] = [Undisturbed EXCEPT !.calm = since[r].calm /\ ~failed]]
Continues(r, handler, failed) ==
  /\ req' = [req EXCEPT ![r] = handler]
  /\ since' = [since EXCEPT ![r].calm = @ /\ ~failed]
Begins(r, handler) == /\ req[r].pc = "idle"
                      /\ req' = [req EXCEPT ![r] = handler]
                      /\ since' = [since EXCEPT ![r] = Undisturbed]
Reading == UNCHANGED <<tables, edit>>

\* What a SELECT finds, whose error the handler does not look at.
Found(found, failed) == IF failed THEN {} ELSE found

\* TokenAuth finds the user; the handler checks what it can on that copy.
Fetch(r, u) ==
  /\ Begins(r,
       IF /\ users[u].live /\ users[u].enabled /\ ~users[u].expired
          /\ users[u].plan # None
       THEN [pc |-> "plan", kind |-> "fetch", who |-> u, copy |-> users[u]]
       ELSE [pc |-> "done", kind |-> "fetch", who |-> u, answer |-> {}])
  /\ Reading

\* The plan of the copy, and the limit against the traffic of the copy.  An
\* error is answered like a plan that is not there: with no nodes, and 200.
LoadPlan(r) ==
  /\ req[r].pc = "plan"
  /\ \E failed \in BOOLEAN :
       LET p == plans[req[r].copy.plan] IN
         IF ~failed /\ p.row = "live" /\ ~Exhausted(req[r].copy.used, p.limit)
         THEN Continues(r, [pc |-> "collect", kind |-> "fetch", who |-> req[r].who], failed)
         ELSE Finish(r, {}, failed)
  /\ Reading

\* CollectNodesForUser reads the user again and follows the plan it finds now.
Collect(r) ==
  /\ req[r].pc = "collect"
  /\ \E failed \in BOOLEAN :
       LET u == users[req[r].who] IN
         IF ~failed /\ u.live /\ u.plan # None /\ GroupsOf(u.plan) # {}
         THEN Continues(r, [pc |-> "sources", kind |-> "fetch", who |-> req[r].who,
                            groups |-> GroupsOf(u.plan)], failed)
         ELSE Finish(r, {}, failed)
  /\ Reading

FindSources(r) ==
  /\ req[r].pc = "sources"
  /\ \E failed \in BOOLEAN :
       Continues(r, [pc |-> "agents", kind |-> "fetch", who |-> req[r].who,
                     groups |-> req[r].groups,
                     owners |-> Found(SourcesIn(req[r].groups), failed)], failed)
  /\ Reading

FindAgents(r) ==
  /\ req[r].pc = "agents"
  /\ \E failed \in BOOLEAN :
       LET owners == req[r].owners \union Found(AgentsIn(req[r].groups), failed) IN
         IF owners # {}
         THEN Continues(r, [pc |-> "nodes", kind |-> "fetch", who |-> req[r].who,
                            owners |-> owners], failed)
         ELSE Finish(r, {}, failed)
  /\ Reading

ReadNodes(r) ==
  /\ req[r].pc = "nodes"
  /\ \E failed \in BOOLEAN : Finish(r, Found(NodesOf(req[r].owners), failed), failed)
  /\ Reading

\* AgentTokenAuth finds the agent.  (agents.enabled is left out: a disabled
\* agent is refused before it gets here.)
Poll(r, a) ==
  /\ rows[a] = "live"
  /\ Begins(r, [pc |-> "groups", kind |-> "poll", who |-> a])
  /\ Reading

\* AgentUsersHandler: the agent's groups, the plans that include them, and the
\* users of those plans.
NoUsers == [listed |-> {}, allowed |-> {}]
FindGroups(r) ==
  /\ req[r].pc = "groups"
  /\ LET gs == {g \in Groups : <<g, req[r].who>> \in groupAgents} IN
       IF gs # {}
       THEN Continues(r, [pc |-> "plans", kind |-> "poll", who |-> req[r].who,
                          groups |-> gs], FALSE)
       ELSE Finish(r, NoUsers, FALSE)
  /\ Reading
FindPlans(r) ==
  /\ req[r].pc = "plans"
  /\ LET ps == {p \in Plans : GroupsOf(p) \cap req[r].groups # {}} IN
       IF ps # {}
       THEN Continues(r, [pc |-> "users", kind |-> "poll", who |-> req[r].who,
                          plans |-> ps], FALSE)
       ELSE Finish(r, NoUsers, FALSE)
  /\ Reading
\* One of these two SELECTs fails: the agent gets an error and no list.
GiveUp(r) ==
  /\ req[r].pc \in {"groups", "plans"}
  /\ req' = [req EXCEPT ![r] = NoRequest]
  /\ since' = [since EXCEPT ![r] = Undisturbed]
  /\ Reading

FindUsers(r) ==
  /\ req[r].pc = "users"
  /\ \E failed \in BOOLEAN :
       LET found == Found({u \in Users : /\ users[u].live /\ users[u].enabled
                                         /\ users[u].plan \in req[r].plans}, failed)
       IN  Continues(r, [pc |-> "limits", kind |-> "poll", who |-> req[r].who,
                         copies |-> [u \in found |-> users[u]], todo |-> found,
                         allowed |-> {}], failed)
  /\ Reading

\* One SELECT for the plan of each user; whatever its error is, a plan that is
\* not found means 0.
LoadLimit(r, u) ==
  /\ req[r].pc = "limits"
  /\ u \in req[r].todo
  /\ \E failed \in BOOLEAN :
       LET c == req[r].copies[u]
           limit == IF ~failed /\ PlanLive(c.plan) THEN plans[c.plan].limit ELSE 0
           ok == ~c.expired /\ ~Exhausted(c.used, limit)
       IN  /\ req' = [req EXCEPT ![r].todo = @ \ {u},
                                 ![r].allowed = IF ok THEN @ \union {u} ELSE @]
           /\ since' = [since EXCEPT ![r].calm = @ /\ ~failed,
                                     ![r].missed = IF failed THEN @ \union {u} ELSE @]
  /\ Reading

TellAgent(r) ==
  /\ req[r].pc = "limits"
  /\ req[r].todo = {}
  /\ Finish(r, [listed |-> DOMAIN req[r].copies, allowed |-> req[r].allowed], FALSE)
  /\ Reading

ReadStep(r) ==
  \/ LoadPlan(r) \/ Collect(r) \/ FindSources(r) \/ FindAgents(r) \/ ReadNodes(r)
  \/ FindGroups(r) \/ FindPlans(r) \/ GiveUp(r)
  \/ FindUsers(r) \/ TellAgent(r) \/ \E u \in Users : LoadLimit(r, u)

-----------------------------------------------------------------------------
(* Writing requests.                                                       *)

NoEdit == [op |-> "none"]

\* The readers in progress take note of what a statement changes in the tables.
Disturb ==
  /\ LET calm(r) == since[r].calm /\ tables' = tables
         lost(r) == (since[r].lost \union Facts) \ Facts'
     IN  since' = [r \in Requests |->
                     CASE req[r].pc = "idle" -> Undisturbed
                       [] req[r].pc = "done" -> [Undisturbed EXCEPT !.calm = calm(r)]
                       [] OTHER -> [since[r] EXCEPT !.calm = calm(r), !.lost = lost(r)]]
  /\ UNCHANGED req
\* A handler with a single statement; the first step of one with more, which
\* may only read; and a further statement of it.
OneStatement == Disturb /\ UNCHANGED edit
Begin(e, todo) == edit[e] = NoEdit /\ edit' = [edit EXCEPT ![e] = todo]
OnlyReads == UNCHANGED <<tables, req, since>>
Continue(e, todo) == edit' = [edit EXCEPT ![e] = todo] /\ Disturb

CreatePlan(p, n) ==
  /\ plans[p].row = "absent"
  /\ plans' = [plans EXCEPT ![p] = [row |-> "live", limit |-> n]]
  /\ UNCHANGED <<users, rows, groupSources, groupAgents, cached>> /\ OneStatement

UpdatePlan(p, n) ==
  /\ PlanLive(p)
  /\ plans' = [plans EXCEPT ![p].limit = n]
  /\ UNCHANGED <<users, rows, groupSources, groupAgents, cached>> /\ OneStatement

\* A soft delete: users.plan_id and plan_service_groups keep pointing to it.
DeletePlan(p) ==
  /\ PlanLive(p)
  /\ plans' = [plans EXCEPT ![p].row = "deleted"]
  /\ UNCHANGED <<users, rows, groupSources, groupAgents, cached>> /\ OneStatement

\* CreateSubscription and CreateAgent.
CreateOwner(o) ==
  /\ rows[o] = "absent"
  /\ rows' = [rows EXCEPT ![o] = "live"]
  /\ UNCHANGED <<users, plans, groupSources, groupAgents, cached>> /\ OneStatement

\* DeleteGroup and DeleteSubscription: the row, and nothing that refers to it.
DeleteRow(x) ==
  /\ x \in Groups \union Sources /\ rows[x] = "live"
  /\ rows' = [rows EXCEPT ![x] = "deleted"]
  /\ UNCHANGED <<users, plans, groupSources, groupAgents, cached>> /\ OneStatement

DeleteUser(u) ==
  /\ users[u].live
  /\ users' = [users EXCEPT ![u].live = FALSE]
  /\ UNCHANGED <<plans, rows, groupSources, groupAgents, cached>> /\ OneStatement

ResetTraffic(u) ==
  /\ users[u].live
  /\ users' = [users EXCEPT ![u].used = 0]
  /\ UNCHANGED <<plans, rows, groupSources, groupAgents, cached>> /\ OneStatement

\* A report of an agent counts traffic, and replaces the agent's nodes one
\* statement after the other; it may have been admitted before a deletion.
CountTraffic(u, n) ==
  /\ users[u].live
  /\ users' = [users EXCEPT ![u].used = @ + n]
  /\ UNCHANGED <<plans, rows, groupSources, groupAgents, cached>> /\ OneStatement
ClearNodes(a) ==
  /\ rows[a] # "absent"
  /\ cached' = {x \in cached : x[1] # a}
  /\ UNCHANGED <<users, plans, rows, groupSources, groupAgents>> /\ OneStatement
InsertNode(a, n) ==
  /\ rows[a] # "absent"
  /\ cached' = cached \union {<<a, n>>}
  /\ UNCHANGED <<users, plans, rows, groupSources, groupAgents>> /\ OneStatement

\* expire_at passes.  No handler writes that column.
Expire(u) ==
  /\ users' = [users EXCEPT ![u].expired = TRUE]
  /\ UNCHANGED <<plans, rows, groupSources, groupAgents, cached>> /\ OneStatement

\* ToggleUser and AssignPlan read the rows and write from what they read.  The
\* error of a statement is looked at by none of the requests that follow: it
\* may fail and leave its table as it is.
ReadToggle(e, u) ==
  /\ users[u].live
  /\ Begin(e, [op |-> "toggle", on |-> u, value |-> ~users[u].enabled])
  /\ OnlyReads
WriteToggle(e) ==
  /\ edit[e].op = "toggle"
  /\ LET u == edit[e].on IN
       \/ users' = users
       \/ users[u].live /\ users' = [users EXCEPT ![u].enabled = edit[e].value]
  /\ UNCHANGED <<plans, rows, groupSources, groupAgents, cached>> /\ Continue(e, NoEdit)
ReadAssign(e, u, p) ==
  /\ users[u].live
  /\ p # None => PlanLive(p)
  /\ Begin(e, [op |-> "assign", on |-> u, value |-> p])
  /\ OnlyReads
WriteAssign(e) ==
  /\ edit[e].op = "assign"
  /\ LET u == edit[e].on IN
       \/ users' = users
       \/ users[u].live /\ users' = [users EXCEPT ![u].plan = edit[e].value]
  /\ UNCHANGED <<plans, rows, groupSources, groupAgents, cached>> /\ Continue(e, NoEdit)

\* The relations of a group are rewritten row by row, sources first; the ids
\* of the request are not validated.  None is a list the request omits.
Listing(ids) == IF ids = None THEN {} ELSE ids
Relink(g, clear, ss, as) ==
  IF clear = {} /\ ss = {} /\ as = {} THEN NoEdit
  ELSE [op |-> "relink", on |-> g, clear |-> clear, sources |-> ss, agents |-> as]
CreateGroup(e, g, ss, as) ==
  /\ rows[g] = "absent"
  /\ rows' = [rows EXCEPT ![g] = "live"]
  /\ UNCHANGED <<users, plans, groupSources, groupAgents, cached>>
  /\ Begin(e, Relink(g, {}, Listing(ss), Listing(as)))
  /\ Disturb
UpdateGroup(e, g, ss, as) ==
  /\ rows[g] = "live"
  /\ LET given == [sources |-> ss, agents |-> as]
         clear == {list \in {"sources", "agents"} : given[list] # None}
     IN  Begin(e, Relink(g, clear, Listing(ss), Listing(as)))
  /\ OnlyReads
ClearSources(e) ==
  /\ edit[e].op = "relink" /\ "sources" \in edit[e].clear
  /\ UNCHANGED <<users, plans, rows, groupAgents, cached>>
  /\ LET t == edit[e] IN
       /\ groupSources' \in {groupSources, {x \in groupSources : x[1] # t.on}}
       /\ Continue(e, Relink(t.on, t.clear \ {"sources"}, t.sources, t.agents))
AddSource(e, s) ==
  /\ edit[e].op = "relink" /\ "sources" \notin edit[e].clear /\ s \in edit[e].sources
  /\ UNCHANGED <<users, plans, rows, groupAgents, cached>>
  /\ LET t == edit[e] IN
       /\ groupSources' \in {groupSources, groupSources \union {<<t.on, s>>}}
       /\ Continue(e, Relink(t.on, t.clear, t.sources \ {s}, t.agents))
ClearAgents(e) ==
  /\ edit[e].op = "relink" /\ edit[e].clear = {"agents"} /\ edit[e].sources = {}
  /\ UNCHANGED <<users, plans, rows, groupSources, cached>>
  /\ LET t == edit[e] IN
       /\ groupAgents' \in {groupAgents, {x \in groupAgents : x[1] # t.on}}
       /\ Continue(e, Relink(t.on, {}, {}, t.agents))
AddAgent(e, a) ==
  /\ edit[e].op = "relink" /\ edit[e].clear = {} /\ edit[e].sources = {}
  /\ a \in edit[e].agents
  /\ UNCHANGED <<users, plans, rows, groupSources, cached>>
  /\ LET t == edit[e] IN
       /\ groupAgents' \in {groupAgents, groupAgents \union {<<t.on, a>>}}
       /\ Continue(e, Relink(t.on, {}, {}, t.agents \ {a}))

\* DeleteAgent: node_cache, then group_agents, then the row.
Uncache(e, a) ==
  /\ cached' \in {cached, {x \in cached : x[1] # a}}
  /\ UNCHANGED <<users, plans, rows, groupSources, groupAgents>>
  /\ Begin(e, [op |-> "unlink", on |-> a])
  /\ Disturb
Unlink(e) ==
  /\ edit[e].op = "unlink"
  /\ groupAgents' \in {groupAgents, {x \in groupAgents : x[2] # edit[e].on}}
  /\ UNCHANGED <<users, plans, rows, groupSources, cached>>
  /\ Continue(e, [edit[e] EXCEPT !.op = "bury"])
Bury(e) ==
  /\ edit[e].op = "bury"
  /\ \/ rows' = rows
     \/ rows[edit[e].on] = "live" /\ rows' = [rows EXCEPT ![edit[e].on] = "deleted"]
  /\ UNCHANGED <<users, plans, groupSources, groupAgents, cached>>
  /\ Continue(e, NoEdit)

\* The process stops: every request that is not answered is lost.
EndAll ==
  LET answered(r) == req[r].pc = "done" IN
    /\ req' = [r \in Requests |-> IF answered(r) THEN req[r] ELSE NoRequest]
    /\ since' = [r \in Requests |-> IF answered(r) THEN since[r] ELSE Undisturbed]
Crash == EndAll /\ edit' = [e \in Editors |-> NoEdit] /\ UNCHANGED tables

-----------------------------------------------------------------------------
\* A database an administrator has built: references lead to live rows.
Init ==
  /\ rows = [x \in Groups \union Owners |-> IF x \in Later THEN "absent" ELSE "live"]
  /\ plans \in [Plans -> [row : {"live"}, limit : Limits]
                         \union {[row |-> "absent", limit |-> 0]}]
  /\ \A p \in Plans : PlanLive(p) <=> p \notin Later
  /\ users \in [Users -> [plan : (Plans \ Later) \union {None}, enabled : {TRUE},
                          live : {TRUE}, used : 0 .. MaxUsed, expired : {FALSE}]]
  /\ groupSources \in SUBSET ((Groups \ Later) \X (Sources \ Later))
  /\ groupAgents \in SUBSET ((Groups \ Later) \X (Agents \ Later))
  /\ cached \in SUBSET ((Owners \ Later) \X Nodes)
  /\ req = [r \in Requests |-> NoRequest]
  /\ edit = [e \in Editors |-> NoEdit]
  /\ since = [r \in Requests |-> Undisturbed]
  /\ writes = 0

Read ==
  \E r \in Requests : \/ \E u \in Users : Fetch(r, u)
                      \/ \E a \in Agents : Poll(r, a)
                      \/ ReadStep(r)

\* A writing request of one statement.
WriteOnce ==
  \/ \E p \in Plans : \/ \E n \in Limits : UpdatePlan(p, n) \/ CreatePlan(p, n)
                      \/ DeletePlan(p)
  \/ \E a \in Agents : ClearNodes(a) \/ \E n \in Nodes : InsertNode(a, n)
  \/ \E u \in Users : \/ DeleteUser(u) \/ ResetTraffic(u) \/ Expire(u)
                      \/ \E n \in Amounts : CountTraffic(u, n)
  \/ \E x \in Groups \union Sources : DeleteRow(x)
  \/ \E o \in Owners : CreateOwner(o)

\* The first statement of a longer one, and its other statements.
StartEdit(e) ==
  \/ \E u \in Users : ReadToggle(e, u) \/ \E p \in Plans \union {None} : ReadAssign(e, u, p)
  \/ \E g \in Groups, ss \in (SUBSET Sources) \union {None},
        as \in (SUBSET Agents) \union {None} :
       CreateGroup(e, g, ss, as) \/ UpdateGroup(e, g, ss, as)
  \/ \E a \in Agents : Uncache(e, a)
EditStep(e) ==
  \/ WriteToggle(e) \/ WriteAssign(e)
  \/ ClearSources(e) \/ (\E s \in Sources : AddSource(e, s))
  \/ ClearAgents(e) \/ (\E a \in Agents : AddAgent(e, a))
  \/ Unlink(e) \/ Bury(e)

Write == WriteOnce \/ \E e \in Editors : StartEdit(e)

Next ==
  \/ (Read \/ Crash \/ \E e \in Editors : EditStep(e)) /\ UNCHANGED writes
  \/ /\ writes < MaxWrites /\ Write /\ writes' = writes + 1
     /\ \A u \in Users : users'[u].used \in -MaxUsed .. MaxUsed
Spec == Init /\ [][Next]_vars

\* The same without the bounds, for a module that takes the place of the writers.
Statement == Read \/ Write \/ Crash \/ \E e \in Editors : EditStep(e)
Unbounded == Init /\ [][Statement]_handlers

-----------------------------------------------------------------------------
(* Properties.                                                             *)

Pcs == {"idle", "plan", "collect", "sources", "agents", "nodes",
        "groups", "plans", "users", "limits", "done"}

\* The shape of the tables and of the handlers.
TypeOK ==
  /\ users \in [Users -> [plan : Plans \union {None}, enabled : BOOLEAN, live : BOOLEAN,
                          used : -MaxUsed .. MaxUsed, expired : BOOLEAN]]
  /\ plans \in [Plans -> [row : RowStates, limit : Int]]
  /\ rows \in [Groups \union Owners -> RowStates]
  /\ groupSources \subseteq Groups \X Sources
  /\ groupAgents \subseteq Groups \X Agents
  /\ cached \subseteq Owners \X Nodes
  /\ \A r \in Requests : req[r].pc \in Pcs /\ since[r].calm \in BOOLEAN
  /\ \A e \in Editors : edit[e].op \in {"none", "toggle", "assign", "relink", "unlink", "bury"}
  /\ writes \in 0 .. MaxWrites

Answered(r, kind) == req[r].pc = "done" /\ req[r].kind = kind /\ since[r].calm

\* A subscription fetched while nothing changes or fails holds exactly the nodes
\* cached for the owners the user's plan leads to, and nothing when the user is
\* cut off: the seven reads of the middleware, the handler and CollectNodesForUser
\* together compute the one-moment answer.
QuietFetchIsExact ==
  \A r \in Requests : Answered(r, "fetch") => req[r].answer = Served(req[r].who)

\* An agent's poll while nothing changes or fails lists exactly the users of the
\* plans that lead to it, and lets in exactly those within time and traffic.
QuietPollIsExact ==
  \A r \in Requests : Answered(r, "poll") =>
    req[r].answer = [listed |-> Listed(req[r].who), allowed |-> Allowed(req[r].who)]

\* The two views agree: whoever is given an agent's nodes is let in by that
\* agent.  (The handlers compute the one from the user down to the agents and
\* the other from the agent up to the users, each with its own conditions.)
ServedIsAllowed ==
  \A u \in Users, a \in Agents :
    (\E x \in Served(u) : x[1] = a) => u \in Allowed(a)

\* Whatever is written meanwhile, an answer is explained by rows each of which
\* existed while the request ran: nobody is let in, and no node handed out,
\* because of what a writer had finished taking away before the request came.
\* (PLAN.md: a changed limit is in force at once.)  Statements may fail.  The one
\* failure that lets somebody in is that of the SELECT of the user's plan in an
\* agent's poll, which is then taken for a plan without a limit.
Held(r) == Facts \union since[r].lost
FetchExplained(r, owner) ==
  \E gate, plan, now, link \in Held(r) :
    /\ gate[1] = req[r].who /\ gate[2].live /\ gate[2].enabled /\ ~gate[2].expired
    /\ plan[1] = gate[2].plan /\ plan[2].row = "live"
    /\ ~Exhausted(gate[2].used, plan[2].limit)
    /\ now[1] = req[r].who /\ now[2].live
    /\ link[2] = owner /\ link[1] \in GroupsOf(now[2].plan)
PollExplained(r, u) ==
  \E user, plan, link \in Held(r) :
    /\ user[1] = u /\ user[2].live /\ user[2].enabled /\ ~user[2].expired
    /\ plan[1] = user[2].plan
    /\ \/ ~(plan[2].row = "live" /\ Exhausted(user[2].used, plan[2].limit))
       \/ u \in since[r].missed
    /\ link[2] = req[r].who /\ link[1] \in GroupsOf(user[2].plan)
AnswersAreExplained ==
  [][\A r \in Requests :
       req[r].pc # "done" /\ req'[r].pc = "done" =>
         LET answer == req'[r].answer IN
           IF req'[r].kind = "fetch" THEN \A x \in answer : FetchExplained(r, x[1])
           ELSE \A u \in answer.allowed : PollExplained(r, u)]_vars

\* Whoever an agent is told to let in may also fetch a subscription, the limit
\* reached exactly included, unless the user's plan is deleted: that ends the
\* access to the subscription, but the agents take the missing plan for one
\* without a limit and go on letting its users in.
AllowedIsEntitled ==
  \A u \in Users, a \in Agents :
    u \in Allowed(a) => Entitled(u) \/ ~PlanLive(users[u].plan)

\* What PLAN.md says of deletions: no relation is left without its row.  Only
\* DeleteAgent removes relations.
NoOrphanLinks ==
  (\A e \in Editors : edit[e] = NoEdit) =>
     \A x \in groupSources \union groupAgents : rows[x[1]] = "live" /\ rows[x[2]] = "live"
=============================================================================
