----------------------------- MODULE AgentReport -----------------------------
(***************************************************************************)
(* POST /api/agent/report and the handlers that share its tables.          *)
(*                                                                         *)
(* Every request runs in a goroutine of its own over one database handle   *)
(* and opens no transaction, so each SQL statement of a handler is an      *)
(* action here and the pc of a delivery names the statement it executes    *)
(* next.  The error of a write is ignored by these handlers: a statement   *)
(* that fails leaves its table as it was and the handler goes on to the    *)
(* next one.  A crash of the process ends every handler where it is.       *)
(*                                                                         *)
(* A usage entry, its audit row and a cached node are all identified by    *)
(* the delivery they came with and their position in its body.             *)
(***************************************************************************)
EXTENDS Integers, Sequences, FiniteSets, Functions

CONSTANTS
  Agents,        \* ids of rows the agents table may hold
  Users,         \* ids of rows of the users table
  Deliveries,    \* the POSTs that reach the panel, retries included
  Bodies,        \* what a POST may carry (IsBody)
  Known,         \* the agents already created when the run starts
  Timeout,       \* AGENT_OFFLINE_TIMEOUT, in ticks of the clock
  Ticking,       \* FALSE stops the clock in runs that do not look at it
  Serial,        \* TRUE: an agent waits for the answer before it posts again
  MaxTokens,     \* bound on the tokens issued to one agent
  MaxAccidents,  \* bound on failing statements and crashes together
  None           \* no agent, no delivery

Never == -1                     \* last_report_at IS NULL

\* An agentReportRequest, or an agentRegisterRequest: only what the panel's
\* tables depend on.  `genuine` says whether the uuid sent is the user's.  Byte
\* counts are signed and nobody looks at their sign: a negative one is added too.
Entry == [user : Users, genuine : BOOLEAN, bytes : Int]
IsBody(b) ==
  b \in [kind : {"report", "register"}, status : STRING, up : Int, down : Int,
        traffic : Seq(Entry), nodes : Nat]

ASSUME BodyAssumption == \A b \in Bodies : IsBody(b)
ASSUME ClockAssumption == Timeout \in Nat /\ Ticking \in BOOLEAN
ASSUME ModeAssumption == Serial \in BOOLEAN /\ Known \subseteq Agents
ASSUME NoneAssumption == None \notin Agents \union Deliveries
ASSUME BoundAssumption == /\ MaxTokens \in Nat \ {0}
                          /\ MaxAccidents \in Nat

VARIABLES
  agents,        \* the agents table
  users,         \* the users table
  log,           \* user_traffic_logs, one <<delivery, position>> per row
  cache,         \* node_cache rows with source_type "agent"
  req,           \* the handler of each delivery
  removing,      \* the statement each DELETE /agents/:id executes next
  \* What follows is history: no handler reads it.
  charged,       \* usage entries some UPDATE added to users.traffic_used
  wiped,         \* those of them that a traffic reset has since cleared
  publisher,     \* the delivery that last cleared the agent's cached nodes
  dropped,       \* deliveries whose cached nodes a DELETE of the agent removed
  issued,        \* the newest token generated for the agent
  failed,        \* the statements that failed
  crashes        \* how often the process crashed

tables == <<agents, users, log, cache>>
bill == <<charged, wiped>>
published == <<publisher, dropped>>
history == <<bill, published, issued, failed, crashes>>
vars == <<tables, req, removing, history>>

-----------------------------------------------------------------------------
(* The statements a body calls for, in the order of the handler.           *)

AfterTraffic(b) == IF b.nodes > 0 THEN "clear" ELSE "done"
AfterVolume(b)  == IF b.traffic # <<>> THEN "charge" ELSE AfterTraffic(b)
AfterStamp(b)   == IF b.up > 0 \/ b.down > 0 THEN "volume" ELSE AfterVolume(b)
FirstStatement(b) == IF b.kind = "register" THEN "register" ELSE "stamp"

Steps == {"register", "stamp", "volume", "charge", "log", "clear", "insert"}
InFlight(d) == req[d].pc \in Steps
Busy(a) == \E d \in Deliveries : InFlight(d) /\ req[d].agent = a

Body(d) == req[d].body
EntryOf(d) == Body(d).traffic[req[d].at]
Position(d) == <<d, req[d].at>>
Goto(d, pc, at) == req' = [req EXCEPT ![d] = [@ EXCEPT !.pc = pc, !.at = at]]

Live(a) == agents[a].row = "live"
RowsOf(a) == {x \in cache : req[x[1]].agent = a}
Cached(d, n) == {d} \X (1 .. n)

\* A write that does not take effect: the handler never looks at the error.
Fails(stmt) == /\ Cardinality(failed) + crashes < MaxAccidents
               /\ failed' = failed \union {stmt}
Works == UNCHANGED failed

\* UPDATE agents ... WHERE id = a AND deleted_at IS NULL.
UpdateRow(a, new, stmt) ==
  \/ Fails(stmt) /\ UNCHANGED agents
  \/ Works /\ agents' = IF Live(a) THEN [agents EXCEPT ![a] = new] ELSE agents

FreshAgent == [row |-> "live", enabled |-> TRUE, token |-> 1,
               status |-> "unknown", seen |-> Never, used |-> 0]
NoAgent == [FreshAgent EXCEPT !.row = "absent"]
NoBody == [kind |-> "none", status |-> "", up |-> 0, down |-> 0, traffic |-> <<>>, nodes |-> 0]
Idle == [pc |-> "idle", agent |-> None, body |-> NoBody, at |-> 1, age |-> 0]

Init ==
  /\ agents = [a \in Agents |-> IF a \in Known THEN FreshAgent ELSE NoAgent]
  /\ users = [u \in Users |-> [live |-> TRUE, used |-> 0]]
  /\ log = {} /\ cache = {}
  /\ req = [d \in Deliveries |-> Idle]
  /\ removing = [a \in Agents |-> "no"]
  /\ charged = {} /\ wiped = {}
  /\ publisher = [a \in Agents |-> None] /\ dropped = {}
  /\ issued = [a \in Agents |-> 1]
  /\ failed = {} /\ crashes = 0

-----------------------------------------------------------------------------
(* Plausible mistakes in the handlers: none is part of the specification.  *)

\* The status query trusts the stored status.
ShownStored(a) == agents[a].status

\* The token check forgets that rows are deleted and disabled.
AcceptsAnyRow(a, t) == agents[a].token = t

\* traffic_used is assigned instead of incremented.
ChargeOverwrites(d) ==
  /\ req[d].pc = "charge" /\ EntryOf(d).genuine /\ users[EntryOf(d).user].live
  /\ Goto(d, "log", req[d].at)
  /\ users' = [users EXCEPT ![EntryOf(d).user].used = EntryOf(d).bytes]
  /\ charged' = charged \union {Position(d)}
  /\ UNCHANGED <<agents, log, cache, removing, wiped, published, issued, failed, crashes>>

\* A failed INSERT sends the handler back to the whole entry.
WriteLogRetries(d) ==
  /\ req[d].pc = "log"
  /\ \/ Fails(<<d, "log", req[d].at>>) /\ Goto(d, "charge", req[d].at) /\ UNCHANGED log
     \/ Works /\ log' = log \union {Position(d)} /\ Goto(d, "done", 1)
  /\ UNCHANGED <<agents, users, cache, removing, bill, published, issued, crashes>>

\* The new token is shown and not stored.
ResetTokenShown(a) ==
  /\ Live(a) /\ issued[a] < MaxTokens
  /\ issued' = [issued EXCEPT ![a] = @ + 1]
  /\ UNCHANGED <<tables, req, removing, bill, published, failed, crashes>>

\* One audit row for the whole loop: the last entry's.
WriteLogLast(d) ==
  /\ req[d].pc = "log" /\ Works
  /\ IF req[d].at < Len(Body(d).traffic)
       THEN Goto(d, "charge", req[d].at + 1) /\ UNCHANGED log
       ELSE Goto(d, AfterTraffic(Body(d)), 1) /\ log' = log \union {Position(d)}
  /\ UNCHANGED <<agents, users, cache, removing, bill, published, issued, crashes>>

\* New nodes are added to the old ones.
ClearNothing(d) ==
  /\ req[d].pc = "clear" /\ Works
  /\ Goto(d, "insert", 1)
  /\ publisher' = [publisher EXCEPT ![req[d].agent] = d]
  /\ UNCHANGED <<agents, users, log, cache, removing, bill, dropped, issued, crashes>>

\* The loop over the nodes starts at 0.
ClearFromZero(d) ==
  /\ req[d].pc = "clear" /\ Works
  /\ Goto(d, "insert", 0)
  /\ cache' = cache \ RowsOf(req[d].agent)
  /\ publisher' = [publisher EXCEPT ![req[d].agent] = d]
  /\ UNCHANGED <<agents, users, log, removing, bill, dropped, issued, crashes>>

\* The loop over the nodes returns after the first.
InsertFirst(d) ==
  /\ req[d].pc = "insert" /\ Works
  /\ Goto(d, "done", 1)
  /\ cache' = cache \union {Position(d)}
  /\ UNCHANGED <<agents, users, log, removing, bill, published, issued, crashes>>

-----------------------------------------------------------------------------
(* The agent's requests.                                                   *)

Accepts(a, t) == Live(a) /\ agents[a].token = t /\ agents[a].enabled

\* AgentTokenAuth finds a live row with this token, enabled; the handler
\* then binds the body and reads the clock it will store as last_report_at.
Admit(d, a, t, b) ==
  /\ req[d].pc = "idle"
  /\ Serial => ~Busy(a)
  /\ Accepts(a, t)
  /\ req' = [req EXCEPT ![d] = [pc |-> FirstStatement(b), agent |-> a,
                                body |-> b, at |-> 1, age |-> 0]]
  /\ UNCHANGED <<tables, removing, history>>

\* Unknown or replaced token, deleted row, disabled agent: 401 or 403.
Refuse(d, a, t) ==
  /\ req[d].pc = "idle"
  /\ ~Accepts(a, t)
  /\ Goto(d, "refused", 1)
  /\ UNCHANGED <<tables, removing, history>>

\* UPDATE agents SET status = 'online', registered_at: not last_report_at.
RegisterAgent(d) ==
  /\ req[d].pc = "register"
  /\ Goto(d, "done", 1)
  /\ LET a == req[d].agent IN
       UpdateRow(a, [agents[a] EXCEPT !.status = "online"], <<d, "register">>)
  /\ UNCHANGED <<users, log, cache, removing, bill, published, issued, crashes>>

Stamp(d) ==
  /\ req[d].pc = "stamp"
  /\ Goto(d, AfterStamp(Body(d)), 1)
  /\ LET a == req[d].agent IN
       UpdateRow(a, [agents[a] EXCEPT !.status = Body(d).status, !.seen = req[d].age],
                 <<d, "stamp">>)
  /\ UNCHANGED <<users, log, cache, removing, bill, published, issued, crashes>>

AddVolume(d) ==
  /\ req[d].pc = "volume"
  /\ Goto(d, AfterVolume(Body(d)), 1)
  /\ LET a == req[d].agent IN
       UpdateRow(a, [agents[a] EXCEPT !.used = @ + Body(d).up + Body(d).down], <<d, "volume">>)
  /\ UNCHANGED <<users, log, cache, removing, bill, published, issued, crashes>>

\* UPDATE users ... WHERE id = ? AND uuid = ?: no row when the uuid is not
\* the user's or the user is deleted, and the handler does not notice.
Charge(d) ==
  /\ req[d].pc = "charge"
  /\ Goto(d, "log", req[d].at)
  /\ \/ Fails(<<d, "charge", req[d].at>>) /\ UNCHANGED <<users, charged>>
     \/ /\ Works
        /\ IF EntryOf(d).genuine /\ users[EntryOf(d).user].live
             THEN /\ users' = [users EXCEPT ![EntryOf(d).user].used = @ + EntryOf(d).bytes]
                  /\ charged' = charged \union {Position(d)}
             ELSE UNCHANGED <<users, charged>>
  /\ UNCHANGED <<agents, log, cache, removing, wiped, published, issued, crashes>>

WriteLog(d) ==
  /\ req[d].pc = "log"
  /\ IF req[d].at < Len(Body(d).traffic)
       THEN Goto(d, "charge", req[d].at + 1)
       ELSE Goto(d, AfterTraffic(Body(d)), 1)
  /\ \/ Fails(<<d, "log", req[d].at>>) /\ UNCHANGED log
     \/ Works /\ log' = log \union {Position(d)}
  /\ UNCHANGED <<agents, users, cache, removing, bill, published, issued, crashes>>

ClearNodes(d) ==
  /\ req[d].pc = "clear"
  /\ Goto(d, "insert", 1)
  /\ LET a == req[d].agent IN
       \/ Fails(<<d, "clear">>) /\ UNCHANGED <<cache, publisher>>
       \/ /\ Works
          /\ cache' = cache \ RowsOf(a)
          /\ publisher' = [publisher EXCEPT ![a] = d]
  /\ UNCHANGED <<agents, users, log, removing, bill, dropped, issued, crashes>>

InsertNode(d) ==
  /\ req[d].pc = "insert"
  /\ IF req[d].at < Body(d).nodes THEN Goto(d, "insert", req[d].at + 1)
                                  ELSE Goto(d, "done", 1)
  /\ \/ Fails(<<d, "insert", req[d].at>>) /\ UNCHANGED cache
     \/ Works /\ cache' = cache \union {Position(d)}
  /\ UNCHANGED <<agents, users, log, removing, bill, published, issued, crashes>>

Step(d) == \/ RegisterAgent(d) \/ Stamp(d) \/ AddVolume(d) \/ Charge(d)
           \/ WriteLog(d) \/ ClearNodes(d) \/ InsertNode(d)

-----------------------------------------------------------------------------
(* The administrator's requests on the same rows.                          *)

CreateAgent(a) ==
  /\ agents[a].row = "absent"
  /\ agents' = [agents EXCEPT ![a] = FreshAgent]
  /\ UNCHANGED <<users, log, cache, req, removing, history>>

\* UpdateAgent, for the one column the protocol depends on.
SetEnabled(a, on) ==
  /\ Live(a)
  /\ UpdateRow(a, [agents[a] EXCEPT !.enabled = on], <<a, "enabled">>)
  /\ UNCHANGED <<users, log, cache, req, removing, bill, published, issued, crashes>>

\* The answer carries the new token, whatever the UPDATE did.
ResetToken(a) ==
  /\ Live(a)
  /\ issued[a] < MaxTokens
  /\ issued' = [issued EXCEPT ![a] = @ + 1]
  /\ UpdateRow(a, [agents[a] EXCEPT !.token = issued[a] + 1], <<a, "token", issued[a]>>)
  /\ UNCHANGED <<users, log, cache, req, removing, bill, published, crashes>>

\* DELETE /api/admin/agents/:id: three statements, the first two also for an
\* id that is no live agent.
DropNodes(a) ==
  /\ removing[a] = "no"
  /\ removing' = [removing EXCEPT ![a] = "links"]
  /\ \/ Fails(<<a, "nodes">>) /\ UNCHANGED <<cache, dropped>>
     \/ /\ Works
        /\ cache' = cache \ RowsOf(a)
        /\ dropped' = dropped \union ({publisher[a]} \ {None})
  /\ UNCHANGED <<agents, users, log, req, bill, publisher, issued, crashes>>

\* The group_agents rows: no handler of this module reads that table.  If the
\* DELETE fails they stay, and the row goes all the same.
DropLinks(a) ==
  /\ removing[a] = "links"
  /\ removing' = [removing EXCEPT ![a] = "row"]
  /\ Fails(<<a, "links">>) \/ Works
  /\ UNCHANGED <<tables, req, bill, published, issued, crashes>>

DropRow(a) ==
  /\ removing[a] = "row"
  /\ removing' = [removing EXCEPT ![a] = "no"]
  /\ UpdateRow(a, [agents[a] EXCEPT !.row = "deleted"], <<a, "row">>)
  /\ UNCHANGED <<users, log, cache, req, bill, published, issued, crashes>>

ChargesOf(u) == {x \in charged : Body(x[1]).traffic[x[2]].user = u}

ResetTraffic(u) ==
  /\ users[u].live
  /\ users' = [users EXCEPT ![u].used = 0]
  /\ wiped' = wiped \union ChargesOf(u)
  /\ UNCHANGED <<agents, log, cache, req, removing, charged, published, issued, failed, crashes>>

DeleteUser(u) ==
  /\ users[u].live
  /\ users' = [users EXCEPT ![u].live = FALSE]
  /\ UNCHANGED <<agents, log, cache, req, removing, history>>

-----------------------------------------------------------------------------
(* The process and the clock.                                              *)

\* docker restarts the panel: the tables survive, the handlers do not.
Crash ==
  /\ Cardinality(failed) + crashes < MaxAccidents
  /\ crashes' = crashes + 1
  /\ req' = [d \in Deliveries |->
               IF InFlight(d) THEN [req[d] EXCEPT !.pc = "lost"] ELSE req[d]]
  /\ removing' = [a \in Agents |-> "no"]
  /\ UNCHANGED <<tables, bill, published, issued, failed>>

\* Ages saturate one tick past the timeout: no comparison can tell more.
Older(age) == IF age > Timeout THEN age ELSE age + 1

Tick ==
  /\ Ticking
  /\ agents' = [a \in Agents |->
                  IF agents[a].seen = Never THEN agents[a]
                  ELSE [agents[a] EXCEPT !.seen = Older(@)]]
  /\ req' = [d \in Deliveries |->
               IF InFlight(d) THEN [req[d] EXCEPT !.age = Older(@)] ELSE req[d]]
  /\ UNCHANGED <<users, log, cache, removing, history>>

\* What GET /api/admin/agents/status shows of an agent.
Shown(a) == IF agents[a].seen # Never /\ agents[a].seen > Timeout
            THEN "offline" ELSE agents[a].status

Administer ==
  \/ \E a \in Agents : \/ CreateAgent(a) \/ ResetToken(a)
                       \/ \E on \in BOOLEAN : SetEnabled(a, on)
                       \/ DropNodes(a) \/ DropLinks(a) \/ DropRow(a)
  \/ \E u \in Users : ResetTraffic(u) \/ DeleteUser(u)

\* A step of the process while it is up.
Running ==
  \/ \E d \in Deliveries :
       \/ \E a \in Agents, t \in 1 .. MaxTokens :
            Refuse(d, a, t) \/ \E b \in Bodies : Admit(d, a, t, b)
       \/ Step(d)
  \/ Administer \/ Tick

Next == Running \/ Crash

Spec == Init /\ [][Next]_vars

\* A goroutine that may run does run, and time passes.  No agent and no
\* administrator is obliged to send anything.
Fairness == /\ \A d \in Deliveries : WF_vars(Step(d))
            /\ \A a \in Agents : WF_vars(DropLinks(a) \/ DropRow(a))
            /\ WF_vars(Tick)
FairSpec == Spec /\ Fairness

-----------------------------------------------------------------------------
(* Properties.                                                             *)

Pcs == {"idle", "refused", "done", "lost"} \union Steps

Statuses == {"unknown", "online"} \union {b.status : b \in Bodies}
AgentRow == [row : {"absent", "live", "deleted"}, enabled : BOOLEAN, token : Nat,
             status : Statuses, seen : Nat \union {Never}, used : Int]
UserRow == [live : BOOLEAN, used : Int]
Handler == [pc : Pcs, agent : Agents \union {None}, body : Bodies \union {NoBody},
            at : Nat \ {0}, age : Nat]

\* The shape of every table and of every handler's local state.
TypeOK ==
  /\ agents \in [Agents -> AgentRow]
  /\ users \in [Users -> UserRow]
  /\ req \in [Deliveries -> Handler]
  /\ log \subseteq Deliveries \X Nat
  /\ cache \subseteq Deliveries \X Nat
  /\ charged \subseteq Deliveries \X Nat
  /\ wiped \subseteq Deliveries \X Nat
  /\ removing \in [Agents -> {"no", "links", "row"}]
  /\ publisher \in [Agents -> Deliveries \union {None}]
  /\ dropped \subseteq Deliveries
  /\ issued \in [Agents -> Nat]
  /\ crashes \in Nat

\* A user's counter is the sum of the entries charged to it since the last
\* reset: no update is lost between concurrent reports and resets, and no
\* failed statement or crash leaves half of an entry in it.
BytesOf == [x \in charged |-> Body(x[1]).traffic[x[2]].bytes]
UsageMatches ==
  \A u \in Users : users[u].used = SumFunctionOnSet(BytesOf, ChargesOf(u) \ wiped)

\* A usage entry that was added to a user's counter has its audit row, with
\* these exceptions only: the handler is between the two statements, it died
\* exactly there, or the INSERT itself failed.  (agent.go writes the counter
\* first and the log second, entry by entry, without a transaction.)
AuditTrail ==
  \A x \in charged \ log :
    \/ req[x[1]].pc \in {"log", "lost"} /\ req[x[1]].at = x[2]
    \/ <<x[1], "log", x[2]>> \in failed

\* The nodes cached for an agent are those of one of its reports, the last
\* one that began to replace them: two reports are never mixed.  It needs an
\* agent that waits for its answer (Serial) and a DELETE that did not fail.
CacheOfOneReport ==
  \A a \in Agents : \A x \in RowsOf(a) :
    x[1] = publisher[a] \/ <<x[1], "clear">> \in failed

\* A delivery no accident disturbs: no crash hit it, and none of its
\* statements failed, nor the DELETE of another delivery.
Undisturbed(d) == /\ req[d].pc # "lost"
                  /\ \A s \in failed : s[1] # d /\ s[2] # "clear"

\* Once the report that last replaced an agent's nodes is answered, all its
\* nodes are in the cache and nothing else is, unless a statement failed or an
\* administrator's DELETE of the agent, finished or not, took them out.
PublishedWhole ==
  \A a \in Agents :
    LET d == publisher[a] IN
      (/\ d # None /\ d \notin dropped /\ ~Busy(a) /\ Undisturbed(d))
      => RowsOf(a) = Cached(d, Body(d).nodes)

\* Once an agent's row is deleted or disabled and the requests admitted before
\* that have ended, nothing it sends gets past the middleware, is charged,
\* logged, cached or counted, until an administrator enables the row again.
ShutOut(a) == ~(Live(a) /\ agents[a].enabled) /\ ~Busy(a)
ShutOutAgentIsQuiet ==
  [][\A a \in Agents : ShutOut(a) =>
       /\ ~Busy(a)' /\ agents'[a].used = agents[a].used
       /\ \A x \in (charged' \union log' \union cache') \ (charged \union log \union cache) :
            req[x[1]].agent # a]_vars

\* What the answer to a token reset says, "Old token invalidated", is true of
\* every token handed out before it, unless the UPDATE of that reset failed:
\* the error is ignored, the administrator is shown the new token, and it is
\* the old one that goes on working, until a later reset succeeds.
OldTokensAreRefused ==
  \A a \in Agents, t \in 1 .. MaxTokens :
    t < issued[a] /\ Accepts(a, t) =>
      \A n \in t .. issued[a] - 1 : <<a, "token", n>> \in failed

\* The panel implements the ledger of UsageLedger: no entry of a delivery is
\* added twice or in part, whatever its sign, and apart from the entries it is
\* charged a counter moves only when it is reset.  (A negative entry lowers it:
\* the code does not refuse one, and the ledger does not either.)
Used == [u \in Users |-> users[u].used]
Entries == Deliveries \X UNION {DOMAIN b.traffic : b \in Bodies}
Amounts == UNION {{b.traffic[i].bytes : i \in DOMAIN b.traffic} : b \in Bodies}
Ledger == INSTANCE UsageLedger WITH used <- Used
ImplementsLedger == Ledger!Spec

\* An agent that has reported once and then goes silent is shown as no longer
\* online, for good unless it reports again; the register call alone, which
\* stores "online" without last_report_at, cannot undo that.
SilentAgentGoesOffline ==
  \A a \in Agents :
    (agents[a].seen # Never) ~> [](Shown(a) # "online")

\* A report that reaches its node statements gets exactly its nodes published,
\* unless an accident or an administrator's DELETE comes in between.
ReportLands ==
  \A d \in Deliveries :
    (req[d].pc = "clear") ~>
      LET a == req[d].agent IN
        \/ RowsOf(a) = Cached(d, Body(d).nodes)
        \/ d \in dropped \/ ~Live(a)
        \/ ~Undisturbed(d)

\* What PLAN.md promises of the cache: an agent's report replaces its nodes in
\* full, so that what is cached at rest comes from one report.  Two overlapping
\* reports of one agent break it.
CacheReplacedInFull ==
  \A a \in Agents : ~Busy(a) => \E d \in Deliveries : RowsOf(a) \subseteq {d} \X Nat
=============================================================================
