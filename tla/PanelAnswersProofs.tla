-------------------------- MODULE PanelAnswersProofs --------------------------
(***************************************************************************)
(* What is proved of Access's readers, carried over to the panel: the      *)
(* theorem that the real handlers implement Access and the inductive       *)
(* invariant of Access together show that a subscription and a poll are    *)
(* exact there too.                                                        *)
(***************************************************************************)
EXTENDS PanelProofs

\* The proofs about Access, for the catalogue of the panel: the same
\* substitution as in Panel's Catalogue.
Proved == INSTANCE AccessProofs WITH
  Plans <- {Plan}, Groups <- {Group}, Sources <- {}, PlanGroups <- {<<Plan, Group>>},
  Limits <- {Limit}, Requests <- Gets, Editors <- Agents \union {Admin}, Nodes <- Positions,
  Amounts <- Volumes, MaxUsed <- 0, MaxWrites <- 0, Later <- Agents \ Known,
  users <- UserRows, plans <- [p \in {Plan} |-> [row |-> "live", limit |-> Limit]],
  rows <- OtherRows, groupSources <- {},
  groupAgents <- links, cached <- NodeRows, req <- get,
  Recording <- FALSE,
  edit <- [e \in Agents \union {Admin} |-> IF e = Admin THEN update ELSE Removal(e)],
  writes <- 0

\* What Access assumes of its constants is true of these.
LEMMA AssumptionsMet == Proved!TableAssumption /\ Proved!LimitAssumption
  <1>1. Volumes \subseteq Int
    <2> SUFFICES ASSUME NEW b \in Bodies, NEW i \in DOMAIN b.traffic
                 PROVE  b.traffic[i].bytes \in Int
      BY DEF Volumes
    <2>1. b.traffic \in Seq(Entry)
      BY BodyType
    <2>2. b.traffic[i] \in Entry
      BY <2>1
    <2> QED BY <2>2 DEF Entry
  <1>2. Plan # None
    BY CatalogueAssumption
  <1>3. Proved!TableAssumption
    BY <1>2 DEF Proved!TableAssumption, Proved!Owners
  <1>4. Proved!LimitAssumption
    BY <1>1, CatalogueAssumption DEF Proved!LimitAssumption
  <1> QED BY <1>3, <1>4

\* The two instances of Access say the same, definition by definition.
LEMMA SameSteps ==
  /\ Catalogue!Init => Proved!Init
  /\ Catalogue!Read => Proved!Read
  /\ Catalogue!Write => Proved!Write
  /\ \A e : Catalogue!EditStep(e) => Proved!EditStep(e)
  /\ Catalogue!Crash => Proved!Crash
  <1>1. Catalogue!Init => Proved!Init
    BY DEF Catalogue!Owners, Proved!Owners, Catalogue!PlanLive, Proved!PlanLive,
           Catalogue!NoRequest, Proved!NoRequest, Catalogue!NoEdit, Proved!NoEdit,
           Catalogue!Undisturbed, Proved!Undisturbed, Catalogue!Init, Proved!Init
  <1>2. Catalogue!Read => Proved!Read
    BY DEF Catalogue!Owners, Proved!Owners, Catalogue!tables, Proved!tables,
           Catalogue!PlanLive, Proved!PlanLive, Catalogue!GroupsOf, Proved!GroupsOf,
           Catalogue!SourcesIn, Proved!SourcesIn, Catalogue!AgentsIn, Proved!AgentsIn,
           Catalogue!Exhausted, Proved!Exhausted, Catalogue!NodesOf, Proved!NodesOf,
           Catalogue!Undisturbed, Proved!Undisturbed, Catalogue!Finish, Proved!Finish,
           Catalogue!Continues, Proved!Continues, Catalogue!Begins, Proved!Begins,
           Catalogue!Reading, Proved!Reading, Catalogue!Found, Proved!Found,
           Catalogue!NoRequest, Proved!NoRequest, Catalogue!NoUsers, Proved!NoUsers,
           Catalogue!Fetch, Proved!Fetch,
           Catalogue!LoadPlan, Proved!LoadPlan, Catalogue!Collect, Proved!Collect,
           Catalogue!FindSources, Proved!FindSources, Catalogue!FindAgents,
           Proved!FindAgents, Catalogue!ReadNodes, Proved!ReadNodes, Catalogue!Poll,
           Proved!Poll, Catalogue!FindGroups, Proved!FindGroups, Catalogue!FindPlans,
           Proved!FindPlans, Catalogue!GiveUp, Proved!GiveUp, Catalogue!FindUsers,
           Proved!FindUsers, Catalogue!LoadLimit,
           Proved!LoadLimit, Catalogue!TellAgent, Proved!TellAgent, Catalogue!ReadStep,
           Proved!ReadStep, Catalogue!Read, Proved!Read
  <1>3. Catalogue!WriteOnce => Proved!WriteOnce
    BY DEF Catalogue!Owners, Proved!Owners, Catalogue!tables, Proved!tables,
           Catalogue!PlanLive, Proved!PlanLive, Catalogue!Facts, Proved!Facts,
           Catalogue!Undisturbed, Proved!Undisturbed, Catalogue!NoEdit, Proved!NoEdit,
           Catalogue!Disturb, Proved!Disturb, Catalogue!OneStatement, Proved!OneStatement,
           Catalogue!CreatePlan, Proved!CreatePlan, Catalogue!UpdatePlan,
           Proved!UpdatePlan, Catalogue!DeletePlan, Proved!DeletePlan,
           Catalogue!CreateOwner, Proved!CreateOwner, Catalogue!DeleteRow,
           Proved!DeleteRow, Catalogue!DeleteUser, Proved!DeleteUser,
           Catalogue!ResetTraffic, Proved!ResetTraffic, Catalogue!CountTraffic,
           Proved!CountTraffic, Catalogue!ClearNodes, Proved!ClearNodes,
           Catalogue!InsertNode, Proved!InsertNode, Catalogue!Expire, Proved!Expire,
           Catalogue!WriteOnce, Proved!WriteOnce
  <1>4. ASSUME NEW e PROVE Catalogue!StartEdit(e) => Proved!StartEdit(e)
    BY DEF Catalogue!Owners, Proved!Owners, Catalogue!tables, Proved!tables,
           Catalogue!PlanLive, Proved!PlanLive, Catalogue!Facts, Proved!Facts,
           Catalogue!Undisturbed, Proved!Undisturbed, Catalogue!NoEdit, Proved!NoEdit,
           Catalogue!Disturb, Proved!Disturb, Catalogue!OneStatement, Proved!OneStatement,
           Catalogue!Begin, Proved!Begin, Catalogue!OnlyReads, Proved!OnlyReads,
           Catalogue!Continue, Proved!Continue, Catalogue!Listing, Proved!Listing,
           Catalogue!Relink, Proved!Relink, Catalogue!ReadToggle, Proved!ReadToggle,
           Catalogue!ReadAssign, Proved!ReadAssign, Catalogue!CreateGroup,
           Proved!CreateGroup, Catalogue!UpdateGroup, Proved!UpdateGroup,
           Catalogue!Uncache, Proved!Uncache, Catalogue!StartEdit, Proved!StartEdit
  <1>5. ASSUME NEW e PROVE Catalogue!EditStep(e) => Proved!EditStep(e)
    BY DEF Catalogue!Owners, Proved!Owners, Catalogue!tables, Proved!tables,
           Catalogue!PlanLive, Proved!PlanLive, Catalogue!Facts, Proved!Facts,
           Catalogue!Undisturbed, Proved!Undisturbed, Catalogue!NoEdit, Proved!NoEdit,
           Catalogue!Disturb, Proved!Disturb, Catalogue!OneStatement, Proved!OneStatement,
           Catalogue!Begin, Proved!Begin, Catalogue!OnlyReads, Proved!OnlyReads,
           Catalogue!Continue, Proved!Continue, Catalogue!Listing, Proved!Listing,
           Catalogue!Relink, Proved!Relink, Catalogue!WriteToggle, Proved!WriteToggle,
           Catalogue!WriteAssign, Proved!WriteAssign, Catalogue!ClearSources,
           Proved!ClearSources, Catalogue!AddSource, Proved!AddSource,
           Catalogue!ClearAgents, Proved!ClearAgents, Catalogue!AddAgent, Proved!AddAgent,
           Catalogue!Unlink, Proved!Unlink, Catalogue!Bury, Proved!Bury,
           Catalogue!EditStep, Proved!EditStep
  <1>6. Catalogue!Crash => Proved!Crash
    BY DEF Catalogue!tables, Proved!tables, Catalogue!NoRequest, Proved!NoRequest,
           Catalogue!Undisturbed, Proved!Undisturbed, Catalogue!NoEdit, Proved!NoEdit,
           Catalogue!EndAll, Proved!EndAll, Catalogue!Crash, Proved!Crash
  <1> QED BY <1>1, <1>2, <1>3, <1>4, <1>5, <1>6 DEF Catalogue!Write, Proved!Write

LEMMA SameAnswers ==
  /\ Proved!QuietFetchIsExact => Catalogue!QuietFetchIsExact
  /\ Proved!QuietPollIsExact => Catalogue!QuietPollIsExact
  BY DEF Catalogue!QuietFetchIsExact, Proved!QuietFetchIsExact,
         Catalogue!QuietPollIsExact, Proved!QuietPollIsExact, Catalogue!Answered,
         Proved!Answered, Catalogue!Served, Proved!Served, Catalogue!Entitled,
         Proved!Entitled, Catalogue!PlanLive, Proved!PlanLive, Catalogue!Exhausted,
         Proved!Exhausted, Catalogue!NodesOf, Proved!NodesOf, Catalogue!GroupsOf,
         Proved!GroupsOf, Catalogue!SourcesIn, Proved!SourcesIn, Catalogue!AgentsIn,
         Proved!AgentsIn, Catalogue!Listed, Proved!Listed, Catalogue!Allowed,
         Proved!Allowed

\* A subscription fetched and a poll answered while the real handlers change
\* nothing, and none of the request's own SELECTs fails, are exactly what the
\* tables say: the seven SELECTs of the one, and those of the other, amount to
\* one look at the database, whatever reports, DELETEs, group updates, crashes
\* and failures went before.
THEOREM PanelAnswersExact ==
  PanelSpec => [](Catalogue!QuietFetchIsExact /\ Catalogue!QuietPollIsExact)
  <1>1. PanelInit => Proved!CalmTables
    BY InitCatalogue, SameSteps, AssumptionsMet, Proved!CalmTablesInductive
  <1>2. PanelInv /\ Proved!CalmTables /\ [PanelNext]_panelVars => Proved!CalmTables'
    <2> SUFFICES ASSUME PanelInv, Proved!CalmTables, [PanelNext]_panelVars
                 PROVE  Proved!CalmTables'
      OBVIOUS
    <2>1. [Catalogue!Statement]_(Catalogue!handlers)
      BY PanelStepIsOne
    <2>2. [Proved!Statement]_(Proved!handlers)
      BY <2>1, SameSteps DEF Catalogue!handlers, Catalogue!tables, Proved!handlers,
         Proved!tables, Catalogue!Statement, Proved!Statement
    <2> QED BY <2>2, AssumptionsMet, Proved!CalmTablesInductive
  <1>3. Proved!CalmTables => Catalogue!QuietFetchIsExact /\ Catalogue!QuietPollIsExact
    BY SameAnswers, AssumptionsMet, Proved!CalmTablesInductive
  <1> QED BY <1>1, <1>2, <1>3, PanelInvariant, PTL DEF PanelSpec
=============================================================================
