# SubBoard panel: specification and verification

SubBoard is a self-hosted panel for proxy subscriptions. One Go process (gin, a goroutine per
request, GORM over SQLite or PostgreSQL) serves four kinds of callers: VPS agents that report
traffic and nodes, clients that fetch their subscription, users, and administrators. No handler
opens a transaction, most handlers ignore the error of a write, and Docker restarts the process
when it ends. What can go wrong therefore lies between SQL statements: of one handler that is cut
short, or of several that interleave. The specification models the handlers at that grain.

Paths below are under `src/backend`.

## Inventory

| Component | State | Operations | Hard behaviour | What makes it correct |
|---|---|---|---|---|
| Agent reports (`handler/agent.go`, `middleware/agent_token.go`) | `agents`, `users.traffic_used`, `user_traffic_logs`, `node_cache` | register, report | overlapping reports, retries, failing statements, crash between statements, agent deleted or disabled meanwhile | each entry, of either sign, charged at most once and in one piece, with an audit row; whole node lists; shut-out agents have no effect |
| Agent administration (`handler/admin_agent.go`) | `agents`, `group_agents`, `node_cache` | create, update, delete, reset token, status | three-statement delete, the stored status against the age of the last report | silent agents are shown offline; a deleted agent is served to nobody once its relations are gone; a replaced token is refused |
| Subscription output (`handler/subscribe.go`, `service/node_filter.go`, `middleware/token.go`) | reads only | `GET /sub/:token` | seven SELECTs, the user read twice, the errors of some ignored | the nodes the user is entitled to, and no others; while the catalogue changes, nothing that the time of the request does not explain |
| Agent user list (`handler/agent_users.go`) | reads only | `GET /api/agent/users` | 4 + n SELECTs, the errors of some ignored | agrees with what clients are given |
| Catalogue (`admin_plan.go`, `admin_group.go`, `admin_sub.go`, `admin_user.go`) | `plans`, `service_groups`, `subscription_sources`, link tables, `users.plan_id` | CRUD, assign, toggle, reset traffic | relations rewritten row by row; soft deletes | no relation without its row |
| Accounts and start-up (`main.go`, `system.go`, `auth.go`, `user.go`, `admin_user.go`, `middleware/auth.go`, `admin.go`) | `users`, JWTs | boot, init, register, login, password, user CRUD | check-then-insert, soft deletes that stay in the unique index, restarts | unique names, no administrator added to one that could be seen, the process comes up, with either database |
| Node formats (`service/subscription.go`, `converter_*.go`, `model/models.go` JSONMap) | `node_cache` rows | parse, store, load, convert | JSON types, two converters written apart, unsupported protocols | the formats agree and load; storage loses nothing, or what it loses is known |
| Configuration, router, install script, front end, deployment | none that matters here | | | not modelled |

The components meet in the database only: the report handler writes the cache and the counters
that the subscription output and the user list read; catalogue editors write what both follow.
`Access` has the readers meet every editor and an open world of reports; `Panel` has them meet the
statements of the real report, delete and group handlers, and shows that `Access` was right about those.

The settings `plans.enabled`, `service_groups.enabled` and `subscription_sources.enabled` are
written but read by no handler. `plan_service_groups`, `users.expire_at` and the cached nodes of
subscription sources are read but written by no handler (the refresh is a stub): they are a
constant, an action of the environment and an arbitrary initial value here.

## Modules

| Module | Models | Actions and code |
|---|---|---|
| `UsageLedger` | the abstract promise of traffic accounting: an entry, of either sign, is added at most once and in one piece, and the counter moves otherwise only when it is reset | |
| `AgentReport` | agents' requests and the administrator's requests on the same rows. `req[d].pc` is the next SQL statement of the handler of POST `d`; `removing[a]` that of a DELETE of the agent | `Admit`/`Refuse`: AgentTokenAuth; `RegisterAgent`; `Stamp`, `AddVolume`, `Charge`, `WriteLog`, `ClearNodes`, `InsertNode`: the statements of AgentReportHandler; `DropNodes`, `DropLinks`, `DropRow`: DeleteAgent; `Crash`, `Tick` |
| `MCAgentReport` | the bodies TLC posts | |
| `AgentReportProofs`, `AgentCacheProofs` | theorems about `AgentReport`: accounting and tokens; the cache and what is shut out | |
| `Access` | the two readers and all writers of the catalogue | one action per SELECT (`Fetch`, `LoadPlan`, `Collect`, `FindSources`, `FindAgents`, `ReadNodes`; `Poll`, `FindGroups`, `FindPlans`, `FindUsers`, `LoadLimit`) and per write; only `Collect` takes two, because the second reads a table nobody writes. A SELECT may fail: where the handler ignores the error it goes on with nothing found, where it does not the request ends (`GiveUp`). Handlers with several statements keep what is left to do in `edit`, and each of their writes may fail and be passed over; `Crash` |
| `MCAccess` | a catalogue of two plans and two groups | |
| `AccessProofs` | theorems about `Access` | |
| `Panel` | `AgentReport` and the readers of `Access` over the same rows, with a catalogue of one plan and one group whose agents are edited. `Catalogue` is `Access` seen through a mapping: a cached row is an owner and a node, a DELETE or a group update in progress an editor | `Handle`: a statement of `AgentReport`, where the second one of a DELETE takes the relations away, or fails and leaves them (`Unlink`); `Stop`: a crash, which ends the readers and editors too; `StartUpdate`, `ClearLinks`, `AddLink`: UpdateGroup; `AskNodes`: TokenAuth; `AskUsers`: AgentTokenAuth; `Look`: the other SELECTs of `Access` |
| `MCPanel` | the two reports TLC posts | |
| `PanelProofs`, `PanelAnswersProofs` | theorems about `Panel`: its own properties and that it implements `Access`; what follows from that for its readers | |
| `Accounts` | the users table, JWTs, handlers in progress, and whether the process is up | a check (`StartInit`, `StartRegister`, `StartCreate`, `EnterSelf`, `ReadToggle`) and a write (`Insert`, `ChangePassword`, `WriteToggle`) are separate actions; `Boot`, `Crash`; `Seen` is what a COUNT that answers 0 may have seen, `Failing` lets it fail; `Reject` is an error answer or a single write that fails; `Refused` is an INSERT the unique index or, under `DBDriver`, the width of a column turns down |
| `MCAccounts` | symmetry of the requests | |
| `AccountsProofs` | theorems about `Accounts` | |
| `NodeFormats` | parser, JSON column, converters, choice of the format | `Import`, `Report`, `Fetch`; the functions keep the names of the source |
| `MCNodeFormats` | the links and nodes TLC tries | |
| `NodeFormatsProofs` | theorems about `NodeFormats` | |
| `Inductions` | induction over numbers and finite sets, and the facts about sums that follow; used by the proofs | |

Each module has a few operators marked as plausible mistakes. They are no part of the
specification: with one of them in place of the definition it imitates, the property named in
`PROJECT.json` fails, which shows that the property depends on the code.

`AgentReport` keeps history variables that no action reads: what was charged and wiped, which
delivery last began to publish, which statements failed. They let properties speak about the past.
`Access` keeps in `since`, for each reader, whether a table has changed or a SELECT of it has failed
since it began (`calm`), which rows held at some moment since then and no longer do (`lost`), and
which users' plans a SELECT failed to find (`missed`); `Recording = FALSE` leaves out `lost`, as
`Panel` does, which states nothing about it. `Panel` keeps which agents were gone when a reader began
(`begun`), and which are linked although a DELETE of theirs is past the relations (`stray`).
`Accounts` keeps with an administrator how many rows the COUNT behind its creation could see (`asked`).

## Runs

| Run | Question | Bounds |
|---|---|---|
| `billing` | is traffic accounted right under overlap, failure and crash? are old tokens refused? | one agent, one user, two deliveries at once, bodies with two entries (one with a wrong uuid) and with one, one accident, two tokens |
| `cache` | are whole node lists published, and silent agents shown offline? | one agent that is created in the run and waits for answers, lists of one and two nodes and the register call, one accident, a clock whose ages saturate one tick past the timeout |
| `access` | do the SELECT-by-SELECT readers compute the one-moment answer, do clients and agents agree, and what is answered when the tables change or statements fail? | every initial catalogue over two plans, groups and sources with one of each still to be created, one agent, limits 0 and 1, reports of one byte more or one less, one reader, one editor, two writing requests at any moment; any SELECT and any write of an editor may fail, and crashes come at any moment; a run ends with the reader's answer, and sources have a node (`Focus`) |
| `panel` | does the composition implement `Access`? what does a subscription hold while reports and a DELETE run, fail or crash? | one agent, one user, one reader, two deliveries one after the other that each use up the limit or list two nodes, any number of group updates that list the agent, whose statements may all fail, and one accident elsewhere (`MaxAccidents = 1`); deliveries are symmetric; the constraint `Focus` ends a run where it shows nothing new |
| `accounts` | do names stay unique, and who becomes an administrator beside another? | three names, two passwords, two requests at once, failing COUNTs, no count begins with two rows or more in the table, which so gets to hold all three names |
| `formats` | do the formats agree and survive storage? | all contents of up to two links of nine kinds, four kinds of reported nodes, every format, both drivers |
| `overlap` | PLAN.md on the node cache | two deliveries, no accident |
| `relations` | PLAN.md on deletions | one write |
| `boot` | main.go on the default administrator | one request |
| `postgres` | the same, with the database of docker-compose.yml | an empty database |
| `init` | system.go and PLAN.md on the one-time init | two requests at once, no failing COUNT |
| `sqlite` | models.go and PLAN.md on the settings of a node | nodes an agent reports, the default database |

Why the bounds are enough: a handler touches rows of one agent and, entry by entry, of one user,
so interference needs two deliveries, or one delivery and one administrator; a second accident
would only mask the first. Two plans that share a group are the smallest catalogue in which the
route from a user to its nodes and the route back differ. In `panel` the catalogue is small, because
`access` has varied it; what is new is two node lists, a DELETE, a group update and a reader. Both
runs end with the reader's answer (`Focus`), since no handler looks at the readers and what the others
do afterwards they also do before a reader comes. In `access` every source has a node from the start:
no handler writes those, and a source without one adds nothing to an answer. In `panel` `Focus` also
leaves out the user's deletion and disabled agents, which end the readers' or the reports' part;
failures of statements on tables no reader sees; and accidents beside a report of usage, whose
statements reach a reader one by one or not at all. The theorems about `Access` and `Panel` cover what
these constraints leave out. The accidents, tokens, rows, writes and counted traffic
are bounded by constants (`MaxAccidents`, `MaxTokens`, `MaxRows`, `MaxWrites`, `MaxUsed`, `MaxNodes`).
The failures and crashes of `Access` and of the group update in `Panel` have no bound.

What the passing runs show:

* Accounting (`billing`): the counters equal the sums of what was charged since the last reset;
  no entry is charged twice; the audit log lacks a row only where a handler is, or died, exactly
  between the two statements, or the INSERT failed. A retry of a report is another delivery and is
  charged again: reports carry no identity. Nor does the code look at the sign of a byte count: an
  agent that sends a negative one lowers the counter, and one of the bodies TLC posts does so. What
  is claimed is that the sums are right, not that counters only grow.
* Shutting out (`billing`): once the requests that were admitted before have ended, a deleted or
  disabled agent has no effect any more, whatever token it uses.
* Cache (`cache`): if an agent waits for its answers, two reports are never mixed, and a report
  that is answered has published all of its nodes unless a statement failed or the agent was being
  deleted. `overlap` shows that waiting is necessary.
* Tokens (`billing`): an old token is accepted only as long as the UPDATE of the reset that replaced
  it, and of every reset since, has failed. The answer to such a reset says the opposite; that case
  is left out of `OldTokensAreRefused`, not hidden by it.
* Access (`access`): if nothing is written and none of its SELECTs fails meanwhile, an answer is
  exact. Otherwise the gate may have been checked against one plan and the nodes collected for
  another, but every row an answer rests on existed at some moment of the request
  (`AnswersAreExplained`): what a writer had finished before the request came is in force, as PLAN.md
  says of changed limits. The one exception is a poll whose SELECT of a user's plan fails: its error
  is taken for a plan without a limit (agent_users.go:84). The converse is not claimed: a reader in
  the middle of a relinked group, or one with a failed SELECT whose error is ignored
  (node_filter.go:37, 45, agent_users.go:73), answers 200 and too little. Whoever is served an agent's
  nodes is let in by it (`ServedIsAllowed`), and whoever is let in may fetch a subscription, with one
  exception (`AllowedIsEntitled`): the agents take a deleted plan for one without a limit.
* Composition (`panel`): every statement of a report, a reset or a DELETE, carried out or failed, is a
  write, an editor's step or a stutter of `Access`, and a crash is its crash (`ImplementsAccess`), so
  the readers are as exact there. A report that was admitted before the DELETE of its agent inserts
  its nodes afterwards and they stay in `node_cache` for ever, where PLAN.md promises a cascade;
  `DeletedAgentIsNotServed` shows that no subscription fetched later holds them, with two exceptions.
  The DELETE of the relations may have failed: the handler ignores the error (admin_agent.go:138),
  deletes the row, and the relations go on leading to whatever is cached. And a group update that
  lists the agent, perhaps one that was on its way when the DELETE came, inserts its relation again
  (the ids are not looked up). `FetchIsFromOneReport` says what a client sees of a report that is
  being published, if the agent waits for its answers: a part of it, never a mixture, unless the
  DELETE of the old rows failed. A part is also what a crash or a failed INSERT leaves until the
  agent reports again.
* Accounts (`accounts`): the unique index, not the count before an INSERT, keeps names unique. There
  may be two administrators: two init requests that overlap both count none (`init`), and a COUNT
  that fails counts none either. `AdminsOverlap` shows that nothing else makes a second one: whoever
  became an administrator beside an older one was created after a COUNT that could not see that one.
* Formats (`formats`): Clash and sing-box clients are told the same of every node but for three
  differences that `FormatsAgree` names, one of them the Host header of a vless node without a path,
  which Clash gets outside `ws-opts` although PLAN.md promises lists that import. `SelectorIsClosed`
  names the other: the Clash group contains nodes of protocols it has no proxy for.
  `AllOrNothing` says what the database does to a node: with a driver that hands over bytes nothing a
  client could notice, with SQLite's the settings go, all of them and nothing else.

Findings, each shown by a run of its own: `overlap`, `relations`, `boot`, `postgres`, `init`, `sqlite`;
`PROJECT.json` quotes the line of the documentation each one contradicts. In two of them the code's
side is certain and what the database does is external: 64 characters for a column of 32, which
PostgreSQL refuses (`TokenFits`), and a JSON column written as a string, which the SQLite driver hands
back to `Scan` as a string (`Drivers`). `Scan` drops what is not `[]byte` (models.go:27). Together they
leave no database with which both the start and the settings of the nodes work.

## Fairness

`cache` uses `FairSpec` of `AgentReport`: weak fairness of each admitted handler's next statement
(a goroutine that may run is scheduled, and no handler waits for another), of the rest of a DELETE
once begun, and of the clock. No caller is obliged to send anything. `boot` and `postgres` use weak fairness
of `Boot`: `restart: unless-stopped` in docker-compose.yml. The other runs check safety only.

## Proofs

Every safety property of the passing runs is also a theorem, for all values of the constants that
the modules' named assumptions allow, and the refinement of `UsageLedger` and of `Access` too.
The runs came first: TLC has checked every inductive invariant named below on the instance of a run,
except `NodeInv`, whose sets of parsed values are too large to enumerate.

### Accounting and tokens (`AgentReportProofs`)

* `TypeCorrect`: `Spec => []TypeOK`; `AuditTrailHolds`: `Spec => []AuditTrail`.
* `LedgerImplemented`: `Spec => ImplementsLedger`, every statement of every handler is a step of
  the ledger or leaves it as it was, whatever the sign of the entries.
* `OldTokensStayRefused`: `Spec => []OldTokensAreRefused`.
* `UsageAlwaysMatches`: `Spec => []UsageMatches`.

They rest on the assumptions the module names about its constants and on one inductive invariant,
`IInv == TypeOK /\ HandlerOK /\ ChargedBehind /\ AuditTrail`. `HandlerOK` ties a handler's pc to its
body: a handler at `charge` or `log` stands at one of its entries and belongs to an agent.
`ChargedBehind` says that whatever a delivery has charged lies
behind its handler's position; without it a step could charge an entry again, and the ledger would
not follow. `AuditTrail` alone is not inductive for the same reason: the step from `log` to the
next entry must know that the entry left behind is the only one without its row.
`OldTokensAreRefused` rests on `TokenInv` beside `TypeOK`: the token in an agent's row is one of those
issued, and every reset since that one was issued has failed. No step but `ResetToken` moves a token
back or forth (`StepKeepsTokens`, `AdministerKeepsTokens`), although five handlers write the row.
`UsageMatches` needs `ChargesOK`: the charges are finitely many, each names an entry of its
delivery's body, and nothing is wiped that was not charged. The body of a delivery that has charged
never changes again (`BodiesStay`), so old charges keep their weight. A step then charges one entry,
resets one user, or leaves every sum as it was (`UsageCases`).

The sum is `SumFunctionOnSet` of the community modules, which adds in an order of its own. That it
grows by the last element whichever that is (`SumAdd`) and depends only on the weights (`SumSame`) is
proved in `Inductions` by induction. The library's induction theorems take the property as an
operator, which the provers cannot instantiate; `NumberInduction` and `FiniteInduction` take it as
the set of those that have it, and follow from the well-foundedness of `<`.

### The cache and shut-out agents (`AgentCacheProofs`)

* `CacheIsOfOneReport`: `Serial => (Spec => []CacheOfOneReport)`.
* `ReportIsPublishedWhole`: `Serial => (Spec => []PublishedWhole)`.
* `ShutOutStaysQuiet`: `Spec => ShutOutAgentIsQuiet`.

`Serial` is the mode in which an agent waits for its answers; `overlap` shows that the first two
fail without it. `PlaceInv` says what is true in either mode: a cached row, an audit row and a
publisher belong to handlers that got as far as to write them, of the agent they are counted for.
`CacheInv` adds what a handler at `insert` has behind it: it is the publisher, unless its DELETE
failed or the agent was dropped, and the cache holds its nodes up to its position. `PublishedWhole`
is that at the last position. Neither property is inductive: between the DELETE and the last INSERT
the cache says nothing about the end of the list.

### Who gets which nodes (`AccessProofs`)

* `TypeCorrect`: `Spec => []TypeOK`; `ServedAreAllowed`: `Spec => []ServedIsAllowed`;
  `AllowedAreEntitled`: `Spec => []AllowedIsEntitled`.
* `QuietFetchExact`, `QuietPollExact`: `Spec => []QuietFetchIsExact`, `Spec => []QuietPollIsExact`.
* `AnswersExplained`: `Recording => (Spec => AnswersAreExplained)`.

`ServedIsAllowed` and `AllowedIsEntitled` compare two computations over the same tables and hold of any
tables of the right shape, so they need no induction beyond that: they are the argument that the gate
and the walk of the one code imply the conditions of the other, and which of its conditions the other
lacks. Exactness rests on `CalmInv`: it says, statement by statement, what a reader during whose
request nothing was written and nothing failed has gathered so far. Every write and every failure
ends its calm, so the invariant asks of writers only that they keep the shape of the tables.
`CalmTables` is inductive for steps without the bounds `MaxWrites` and `MaxUsed`, failing statements
and crashes included. `AnswersAreExplained` rests on `HeldInv`: whatever a reader holds
was in the tables at some moment since it began, which is why the history keeps the rows that are
gone (`Recording`).

### The composition (`PanelProofs`, `PanelAnswersProofs`)

* `PanelTypeCorrect`: `PanelSpec => []PanelTypeOK`.
* `DeletedIsNotServed`: `PanelSpec => []DeletedAgentIsNotServed`.
* `FetchFromOneReport`: `Serial => (PanelSpec => FetchIsFromOneReport)`.
* `AccessImplemented`: `PanelSpec => ImplementsAccess`.
* `PanelAnswersExact`: `PanelSpec => [](Catalogue!QuietFetchIsExact /\ Catalogue!QuietPollIsExact)`.

They hold for any number of failing statements and crashes, with the exceptions the properties name.

`PanelInv` is the type invariant, the handlers of the report protocol (`IInv`, `PlaceInv`), the group
update in progress and the polls. `DeletedAgentIsNotServed` needs `DeletedInv`: an agent whose DELETE
has passed its relations has none, unless it is `stray` (that DELETE failed, or a group update linked
the agent since); what was gone when a reader began is still gone and not stray; and such a reader has
read none of it. A late report may still fill the cache, but no route leads there.

`AccessImplemented` shows that every statement of a handler is a write of `Access`, a step of one of
its editors, or changes nothing its readers see; that a statement that fails is the same step of the
editor with the table left alone; that a crash ends in `Access` what it ends in the handlers; and that
every SELECT is the same SELECT. `PanelAnswersExact` is the use of it: the theorems of `AccessProofs`
hold of the readers that run beside the real handlers. No run states it, since `ImplementsAccess` and
`access` together do.

### Accounts (`AccountsProofs`)

For any names, passwords and number of requests, and tables of any length
(`MaxRows` is an arbitrary natural number):

* `AccountsTypeCorrect`: `Spec => []TypeOK`, `NamesStayUnique`: `Spec => []UniqueNames`.
* `AdministratorsOverlap`: `Spec => []AdminsOverlap`.

A step writes the table in one of three ways: not at all, an UPDATE that raises no row from the dead
and makes no administrator, or an INSERT of a name the index does not hold. `NextCases` sorts the
actions by that, and only the six cases it leaves are checked against the invariants.
`UniqueNames` needs nothing but the index. `AdminsOverlap` needs `CountHolds`: no row that an init handler
in progress could see when it counted is an administrator now. Deleting, renaming or disabling
an administrator does not disturb that, and no UPDATE makes one. `DownIsIdle` says that a process that
is down runs no handler, so that the boot, which counts and inserts in one step, runs beside none.

### Node formats (`NodeFormatsProofs`)

For links and reported nodes of any content and lists of any length:

* `NodesTypeCorrect`: `Spec => []TypeOK`; `SelectorAlwaysClosed`: `Spec => []SelectorIsClosed`.
* `RawListsReimport`: `Spec => []LinksReimport`; `SettingsKeptOrLost`: `Spec => []AllOrNothing`.
* `FormatsAlwaysAgree`: `Spec => []FormatsAgree`.

The last needs no invariant: the two converters agree on every node whatever, but for the differences
named, present or missing settings included (`ConvertersAgree`, one lemma per protocol); for
`SettingsKeptOrLost` the same is shown of a node and what is left of it in storage (`LoadedWritten`). The others rest
on `NodeInv == RowsOK(cache) /\ AnswerOK(answer)`: every imported row comes from a link that parses, and
the answer was right about the rows it was made of. What a loop with `continue` leaves of a list
(`Only`) is proved by induction over its length (`OnlyFacts`): its elements are elements of the list at
the places asked for, and if nothing is skipped it is the list. `Only` stands where `SelectSeq` could,
because the provers know nothing of `SelectSeq`. `Text` is `STRING` with the words of the code named,
because they do not know either that a literal is a string.

### Only model-checked

`SilentAgentGoesOffline` and `ReportLands`: liveness under fairness, out of the prover's reach. The
properties of the `violation` runs are false.

## Not modelled, and why

* `FetchSubscription`, `IsPrivateIP`: network input, and no handler calls them.
* JWT signatures and expiry, bcrypt, random tokens: assumed to do what they are for. Two generated
  tokens are assumed to differ.
* GORM's `default:true` columns: a row created with `enabled = false` is stored as `true`. The
  rows here are created enabled; `SetEnabled` and the toggle disable them.
* The database drivers: what they hand to `JSONMap.Scan` and whether they refuse a value that is too
  long is external. `NodeFormats` and `Accounts` have both kinds of either.
* `GET /api/agent/config`, the install script and command, the profile and subscription pages: they
  read one row, or a user and its plan, and print it.
* An agent that registered and never reported has no `last_report_at` and is shown online for ever
  (admin_agent.go:233); nothing in the repository promises otherwise.
* Failing statements: `AgentReport` and `Access` have those whose error a handler ignores before it
  goes on, for reads and writes, and so does `Panel`. A handler with a single write that fails has done
  nothing, which is a step not taken (in `Accounts`, `Reject`). In `Accounts` COUNTs may fail; a failed
  look-up of a row is an error answer there. The queries of the admin pages are not modelled.
* `int64` overflow of byte counts: counters are integers, of either sign.
* Front end, nginx, deployment scripts, configuration, router: no state of their own.

## Plan

1. Done: the core (`AgentReport` with its ledger, runs and proofs), `Access`, `Accounts` and
   `NodeFormats`, each with a passing run and the runs of its findings; then what an answer means
   while the tables change, the composition `Panel`, tokens, and the database driver.
2. Done: every safety property of the passing runs proved, and both refinements.
3. Done: failing statements and crashes in `Access` and `Panel`, so that `AccessImplemented` and
   `PanelAnswersExact` hold without a hypothesis on accidents and `FetchIsFromOneReport` says which
   failure leaves a subscription mixed; overlapping init requests; both drivers; signed byte counts.
   Next: from `ReportLands` the part that is safety: a handler past its node statements has published,
   whichever handlers ran beside it.
4. Left to model if the code grows into it: a refresh of subscription sources that does something,
   readers of the `enabled` flags of plans, groups and sources.
