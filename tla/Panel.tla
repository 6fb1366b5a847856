-------------------------------- MODULE Panel --------------------------------
(***************************************************************************)
(* The panel put together: the handlers of AgentReport, which write the    *)
(* node cache, the counters and the agents table, and the readers of       *)
(* Access, which look at the same rows one SELECT after the other.         *)
(*                                                                         *)
(* Access has its own, much coarser account of what a report may do to the *)
(* tables while somebody reads.  Here the statements of the real handlers  *)
(* take its place, and every one of them has to be a step of Access.  The  *)
(* catalogue is small: one plan, and one group, which the agents are in or *)
(* not.  A deletion takes an agent out of the group, and an administrator  *)
(* rewrites the group's agents, statement by statement, meanwhile.  Any of *)
(* these statements may fail, and the process may crash.                   *)
(***************************************************************************)
EXTENDS AgentReport

CONSTANTS
  Plan, Group,   \* the plan of every user and the service group it leads to
  Lists,         \* the lists of agents a group update may carry
  Limit,         \* its traffic limit
  Gets,          \* the GET requests of clients and agents
  Admin          \* the administrator who edits the group, one request at a time

ASSUME CatalogueAssumption == /\ Limit \in Nat /\ Lists \subseteq SUBSET Agents
                              /\ {Plan, Group, Admin} \cap Agents = {}
                              /\ None \notin Lists \union {Plan}

VARIABLES
  links,         \* group_agents
  update,        \* what is left to do of an UpdateGroup in progress
  get,           \* the reading handlers
  since,         \* history of each reader, as Access keeps it
  \* What follows is history: no handler reads it.
  stray,         \* agents linked although a DELETE of theirs is past the links
  begun          \* the agents that were deleted, and linked no more, when a reader began

panelVars == <<vars, links, update, get, since, stray, begun>>

\* A cached node is the delivery it came with and its position there.
Positions == Deliveries \X UNION {1 .. b.nodes : b \in Bodies}
Volumes == UNION {{b.traffic[i].bytes : i \in DOMAIN b.traffic} : b \in Bodies}
NodeRows == {<<req[x[1]].agent, x>> : x \in cache}

UserRows == [u \in Users |-> [plan |-> Plan, enabled |-> TRUE, live |-> users[u].live,
                              used |-> users[u].used, expired |-> FALSE]]
OtherRows == [x \in {Group} \union Agents |-> IF x = Group THEN "live" ELSE agents[x].row]

\* A DELETE or a group update in progress is an editor of Access.
Removal(a) == CASE removing[a] = "no"    -> [op |-> "none"]
                [] removing[a] = "links" -> [op |-> "unlink", on |-> a]
                [] removing[a] = "row"   -> [op |-> "bury", on |-> a]

Catalogue == INSTANCE Access WITH
  Plans <- {Plan}, Groups <- {Group}, Sources <- {}, PlanGroups <- {<<Plan, Group>>},
  Limits <- {Limit}, Requests <- Gets, Editors <- Agents \union {Admin}, Nodes <- Positions,
  Amounts <- Volumes, MaxUsed <- 0, MaxWrites <- 0, Later <- Agents \ Known,
  users <- UserRows, plans <- [p \in {Plan} |-> [row |-> "live", limit |-> Limit]],
  rows <- OtherRows, groupSources <- {},
  groupAgents <- links, cached <- NodeRows, req <- get,
  Recording <- FALSE,
  edit <- [e \in Agents \union {Admin} |-> IF e = Admin THEN update ELSE Removal(e)],
  writes <- 0

-----------------------------------------------------------------------------
(* Plausible mistakes: none is part of the specification.                  *)

\* DELETE leaves the relations of the agent.
UnlinkNothing(a) == Works /\ UNCHANGED <<links, stray>>

\* The two columns of the relation are exchanged.
AddLinkSwapped(a) ==
  /\ update # Catalogue!NoEdit /\ update.clear = {} /\ a \in update.agents
  /\ links' = links \union {<<a, Group>>}
  /\ update' = Catalogue!Relink(Group, {}, {}, update.agents \ {a})
  /\ UNCHANGED <<vars, stray, begun>>
  /\ Catalogue!Disturb

\* The relations are inserted before the old ones are deleted.
AddLinkFirst(a) ==
  /\ update # Catalogue!NoEdit /\ a \in update.agents
  /\ links' = links \union {<<Group, a>>}
  /\ update' = Catalogue!Relink(Group, update.clear, {}, update.agents \ {a})
  /\ UNCHANGED <<vars, stray, begun>>
  /\ Catalogue!Disturb

-----------------------------------------------------------------------------
\* The second statement of a DELETE, which AgentReport knows by its pc only.  If
\* it fails the relations stay, and the agent's row is deleted all the same.
AtLinks(a) == removing[a] = "links" /\ removing'[a] = "row"
Unlink(a) ==
  \/ Works /\ links' = {x \in links : x[2] # a} /\ stray' = stray \ {a}
  \/ /\ Fails(<<a, "links">>) /\ links' = links
     /\ stray' = stray \union {b \in {a} : <<Group, b>> \in links}

\* A statement of AgentReport.  The readers take note if it changes what they see.
Handle ==
  /\ Running
  /\ \/ (\A a \in Agents : ~AtLinks(a)) /\ UNCHANGED <<links, stray>>
     \/ \E a \in Agents : AtLinks(a) /\ Unlink(a)
  /\ Catalogue!Disturb
  /\ UNCHANGED <<update, begun>>

\* The process stops in the middle of all of them.
Stop ==
  /\ Crash /\ Catalogue!EndAll /\ update' = Catalogue!NoEdit
  /\ UNCHANGED <<links, stray, begun>>

\* UpdateGroup with a list of agents: the group is read, its relations are
\* deleted, and one relation after the other is inserted.  The ids of the list
\* are not looked up: an agent that is deleted by then is linked as well.  Nor
\* are the errors of these statements looked at.
StartUpdate(as) ==
  /\ update = Catalogue!NoEdit
  /\ update' = Catalogue!Relink(Group, {"agents"}, {}, as)
  /\ UNCHANGED <<vars, links, get, since, stray, begun>>
ClearLinks ==
  /\ update # Catalogue!NoEdit /\ update.clear # {}
  /\ links' \in {links, {}}
  /\ update' = Catalogue!Relink(Group, {}, {}, update.agents)
  /\ UNCHANGED <<vars, stray, begun>>
  /\ Catalogue!Disturb
Dropped(a) == removing[a] = "row" \/ agents[a].row = "deleted"
AddLink(a) ==
  /\ update # Catalogue!NoEdit /\ update.clear = {} /\ a \in update.agents
  /\ \/ UNCHANGED <<links, stray, begun>>
     \/ /\ links' = links \union {<<Group, a>>}
        /\ stray' = stray \union {b \in {a} : Dropped(b)}
        /\ begun' = [r \in Gets |-> begun[r] \ {a}]
  /\ update' = Catalogue!Relink(Group, {}, {}, update.agents \ {a})
  /\ UNCHANGED vars
  /\ Catalogue!Disturb

\* A client asks for its nodes; an agent, whose row AgentTokenAuth finds and
\* finds enabled, for its users; and the SELECTs that follow.
Gone == {a \in Agents \ stray : agents[a].row = "deleted" /\ removing[a] = "no"}
AskNodes(r) ==
  /\ UNCHANGED <<vars, links, update, stray>>
  /\ \E u \in Users : Catalogue!Fetch(r, u)
  /\ begun' = [begun EXCEPT ![r] = Gone]
AskUsers(r) ==
  /\ UNCHANGED <<vars, links, update, stray, begun>>
  /\ \E a \in Agents : agents[a].enabled /\ Catalogue!Poll(r, a)
Look(r) ==
  /\ UNCHANGED <<vars, links, update, stray, begun>>
  /\ Catalogue!ReadStep(r)

PanelInit ==
  /\ Init
  /\ links \in SUBSET ({Group} \X Known)
  /\ update = Catalogue!NoEdit
  /\ get = [r \in Gets |-> Catalogue!NoRequest]
  /\ since = [r \in Gets |-> Catalogue!Undisturbed]
  /\ stray = {}
  /\ begun = [r \in Gets |-> {}]

PanelNext ==
  \/ Handle \/ Stop
  \/ (\E as \in Lists : StartUpdate(as)) \/ ClearLinks \/ \E a \in Agents : AddLink(a)
  \/ \E r \in Gets : AskNodes(r) \/ AskUsers(r) \/ Look(r)

PanelSpec == PanelInit /\ [][PanelNext]_panelVars

-----------------------------------------------------------------------------
(* Properties.                                                             *)

\* The shape of what this module adds.
PanelTypeOK ==
  /\ TypeOK
  /\ links \subseteq {Group} \X Agents
  /\ update.op \in {"none", "relink"} /\ stray \subseteq Agents
  /\ begun \in [Gets -> SUBSET Agents]

\* What Access says of its readers' surroundings is true of the real handlers:
\* every statement of a report, a reset or a DELETE, carried out or failed, is a
\* write of Access, a crash is its crash, and the readers' answers are as exact
\* and as well explained here as there.  (What Access lets its readers record is
\* history, and is left out here.)
ImplementsAccess == Catalogue!Unbounded

Fetched(r) == get[r].pc = "done" /\ get[r].kind = "fetch"

\* A DELETE whose requests have all ended may still leave nodes in the cache,
\* inserted by a report that was admitted before it, or because the DELETE of
\* the nodes failed or was cut short.  They are out of reach: no subscription
\* fetched after the agent's row was deleted holds a node of that agent, because
\* readers go through the relations.  There are two exceptions, and no third:
\* the DELETE of the relations itself failed, an error the handler ignores
\* before it deletes the row, so that the relations go on leading to whatever a
\* late report caches; or a group update that listed the agent, perhaps one that
\* was on its way already, linked it again.
DeletedAgentIsNotServed ==
  \A r \in Gets : Fetched(r) => \A x \in get[r].answer : x[1] \notin begun[r]

\* While agents wait for their answers, a subscription never mixes two reports
\* of an agent, unless the DELETE of one of them failed and its nodes came on top
\* of the old ones; and it holds a report in part only if the last SELECT runs
\* while that report is being written, a DELETE has taken nodes out of it, or a
\* crash or a statement that failed left it so.
FetchIsFromOneReport ==
  [][\A r \in Gets : get[r].pc = "nodes" /\ get'[r].pc = "done" =>
       \A a \in Agents :
         LET served == {x[2] : x \in {y \in get'[r].answer : y[1] = a}} IN
           \/ served = {}
           \/ \E x \in served : <<x[1], "clear">> \in failed
           \/ \E d \in Deliveries :
                /\ req[d].agent = a
                /\ \/ served = Cached(d, Body(d).nodes)
                   \/ /\ served \subseteq Cached(d, Body(d).nodes)
                      /\ InFlight(d) \/ d \in dropped \/ ~Undisturbed(d)
    ]_panelVars
=============================================================================
