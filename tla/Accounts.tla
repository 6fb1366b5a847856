------------------------------ MODULE Accounts ------------------------------
(***************************************************************************)
(* The users table as the account handlers, the two creators of            *)
(* administrators and the restarts of the process change it.               *)
(*                                                                         *)
(* A request is admitted by the middleware on a copy of the caller's row,  *)
(* then checks something, then writes; other requests run in between, and  *)
(* no transaction covers the steps.  Deletes are soft: a deleted row keeps *)
(* its username in the unique index.  Row i of the table is users[i]; an   *)
(* administrator's `asked` is history: how many rows the COUNT behind its  *)
(* creation could see.                                                     *)
(***************************************************************************)
EXTENDS Integers, Sequences

CONSTANTS
  Names,         \* usernames
  Passwords,     \* passwords; a hash matches the password it was made of
  AdminName, AdminPassword,   \* ADMIN_USERNAME and ADMIN_PASSWORD
  HasInitToken,  \* INIT_TOKEN is set; whoever calls /api/system/init knows it
  AllowRegister, \* ALLOW_REGISTER
  Failing,       \* TRUE: a COUNT may fail
  DBDriver,      \* DB_DRIVER: "sqlite" unless it is "postgres"
  Requests,      \* requests that may be in progress at once
  MaxRows        \* bound on the rows counted before another one is requested

ASSUME ConfigAssumption == /\ AdminName \in Names /\ AdminPassword \in Passwords
                           /\ {HasInitToken, AllowRegister, Failing} \subseteq BOOLEAN
                           /\ DBDriver \in {"sqlite", "postgres"}
                           /\ MaxRows \in Nat

VARIABLES
  users,         \* the users table, in order of id
  sessions,      \* ids named by the JWTs handed out so far
  req,           \* the handlers in progress
  up             \* whether the process serves requests

vars == <<users, sessions, req, up>>

Ids == DOMAIN users
Live(i) == i \in Ids /\ users[i].live
Admins == {i \in Ids : users[i].live /\ users[i].admin}
TakenByLive(n) == \E i \in Ids : users[i].live /\ users[i].name = n
\* (A plausible mistake, not part of the specification: no unique index, so
\* that only the count before an INSERT protects a name.)
InIndexNever(n) == FALSE
\* The unique index on username covers the deleted rows too.
InIndex(n) == \E i \in Ids : users[i].name = n

\* generateToken(32) writes 32 random bytes in hexadecimal; the column for it
\* is a varchar(32), a width that PostgreSQL enforces and SQLite ignores.
TokenLength == 2 * 32
TokenWidth == 32
TokenFits == DBDriver = "postgres" => TokenLength <= TokenWidth

\* The database refuses an INSERT into users.
Refused(n) == InIndex(n) \/ ~TokenFits

Row(n, p, isAdmin, asked) ==
  [name |-> n, pass |-> p, admin |-> isAdmin, enabled |-> TRUE, live |-> TRUE,
   asked |-> asked]
Idle == [op |-> "idle"]

\* How many rows a COUNT that answers 0 has seen: all of them, when there is
\* none to count, or no row at all, when it failed; nobody looks at its error.
Seen(none) == (IF none THEN {Len(users)} ELSE {}) \union (IF Failing THEN {0} ELSE {})

-----------------------------------------------------------------------------
(* Plausible mistakes in the handlers: none is part of the specification.  *)

\* The count of administrators leaves out the disabled ones.
EnabledAdmins == {i \in Ids : users[i].live /\ users[i].admin /\ users[i].enabled}
BootCountingEnabled ==
  /\ ~up /\ EnabledAdmins = {} /\ ~Refused(AdminName)
  /\ users' = Append(users, Row(AdminName, AdminPassword, TRUE, Len(users)))
  /\ up' = TRUE
  /\ UNCHANGED <<sessions, req>>

\* A hard delete: sessions and handlers may name a row that is gone.
DeleteUserHard(r, i) ==
  /\ up /\ req[r].op = "admin" /\ users[i].live
  /\ users' = [j \in Ids \ {i} |-> users[j]]
  /\ req' = [req EXCEPT ![r] = Idle]
  /\ UNCHANGED <<sessions, up>>

-----------------------------------------------------------------------------
(* The process.                                                            *)

\* main: ensureDefaultAdmin runs before the first request is served.  When
\* there is no administrator and the INSERT fails, main exits and docker starts
\* it again: Boot then is not enabled.
Boot ==
  /\ ~up
  /\ \/ Admins # {} /\ UNCHANGED users
     \/ /\ ~Refused(AdminName)
        /\ \E asked \in Seen(Admins = {}) :
             users' = Append(users, Row(AdminName, AdminPassword, TRUE, asked))
  /\ up' = TRUE
  /\ UNCHANGED <<sessions, req>>

Crash ==
  /\ up
  /\ up' = FALSE
  /\ req' = [r \in Requests |-> Idle]
  /\ UNCHANGED <<users, sessions>>

-----------------------------------------------------------------------------
(* Requests that need no session.                                          *)

Enter(r, handler) == up /\ req[r] = Idle /\ req' = [req EXCEPT ![r] = handler]
Leave(r) == req' = [req EXCEPT ![r] = Idle]

Login(n, p) ==
  /\ up
  /\ \E i \in Ids : /\ Live(i) /\ users[i].name = n
                    /\ users[i].enabled /\ users[i].pass = p
                    /\ sessions' = sessions \union {i}
  /\ UNCHANGED <<users, req, up>>

\* The init token is right and the count of administrators is 0.
StartInit(r, n, p) ==
  /\ HasInitToken /\ Len(users) < MaxRows
  /\ \E asked \in Seen(Admins = {}) :
       Enter(r, [op |-> "init", name |-> n, pass |-> p, asked |-> asked])
  /\ UNCHANGED <<users, sessions, up>>

\* Register: the count of users with this name is 0.
StartRegister(r, n, p) ==
  /\ AllowRegister /\ Len(users) < MaxRows
  /\ Seen(~TakenByLive(n)) # {}
  /\ Enter(r, [op |-> "create", name |-> n, pass |-> p])
  /\ UNCHANGED <<users, sessions, up>>

\* The INSERT of InitHandler, RegisterHandler and CreateUser: a row that the
\* database refuses is answered with an error.
Insert(r) ==
  /\ req[r].op \in {"init", "create"}
  /\ LET h == req[r] IN
       users' = IF Refused(h.name) THEN users
                ELSE Append(users, IF h.op = "init" THEN Row(h.name, h.pass, TRUE, h.asked)
                                   ELSE Row(h.name, h.pass, FALSE, 0))
  /\ Leave(r)
  /\ UNCHANGED <<sessions, up>>

-----------------------------------------------------------------------------
(* Requests with a session.                                                *)

Caller(i) == i \in sessions /\ Live(i) /\ users[i].enabled

\* JWTAuth keeps the copy of the row the handler compares the password with.
EnterSelf(r, i) ==
  /\ Caller(i)
  /\ Enter(r, [op |-> "self", on |-> i, pass |-> users[i].pass])
  /\ UNCHANGED <<users, sessions, up>>

ChangePassword(r, old, new) ==
  /\ req[r].op = "self"
  /\ LET i == req[r].on IN
       users' = IF old = req[r].pass /\ Live(i) THEN [users EXCEPT ![i].pass = new] ELSE users
  /\ Leave(r)
  /\ UNCHANGED <<sessions, up>>

\* JWTAuth and AdminAuth.
EnterAdmin(r, i) ==
  /\ Caller(i) /\ users[i].admin
  /\ Enter(r, [op |-> "admin"])
  /\ UNCHANGED <<users, sessions, up>>

Managing(r) == req[r].op = "admin"

\* CreateUser counts the name like the registration, and inserts later.
StartCreate(r, n, p) ==
  /\ Managing(r) /\ Len(users) < MaxRows
  /\ Seen(~TakenByLive(n)) # {}
  /\ req' = [req EXCEPT ![r] = [op |-> "create", name |-> n, pass |-> p]]
  /\ UNCHANGED <<users, sessions, up>>

\* One UPDATE for the columns given; the index refuses it as a whole, and the
\* handler does not look at the error.
UpdateUser(r, i, n, p) ==
  /\ Managing(r) /\ Live(i)
  /\ users' = IF n # users[i].name /\ InIndex(n) THEN users
              ELSE [users EXCEPT ![i].name = n, ![i].pass = p]
  /\ Leave(r)
  /\ UNCHANGED <<sessions, up>>

DeleteUser(r, i) ==
  /\ Managing(r) /\ Live(i)
  /\ users' = [users EXCEPT ![i].live = FALSE]
  /\ Leave(r)
  /\ UNCHANGED <<sessions, up>>

ReadToggle(r, i) ==
  /\ Managing(r) /\ Live(i)
  /\ req' = [req EXCEPT ![r] = [op |-> "toggle", on |-> i, value |-> ~users[i].enabled]]
  /\ UNCHANGED <<users, sessions, up>>

WriteToggle(r) ==
  /\ req[r].op = "toggle"
  /\ LET i == req[r].on IN
       users' = IF Live(i) THEN [users EXCEPT ![i].enabled = req[r].value] ELSE users
  /\ Leave(r)
  /\ UNCHANGED <<sessions, up>>

\* 401, 403, 404, 409, 500, or a write that fails: nothing is written.
Reject(r) ==
  /\ req[r] # Idle
  /\ Leave(r)
  /\ UNCHANGED <<users, sessions, up>>

-----------------------------------------------------------------------------
Init == /\ users = <<>>
        /\ sessions = {}
        /\ req = [r \in Requests |-> Idle]
        /\ up = FALSE

Start(r) == \E n \in Names, p \in Passwords : StartInit(r, n, p) \/ StartRegister(r, n, p)

Manage(r) ==
  \/ \E n \in Names, p \in Passwords :
       StartCreate(r, n, p) \/ \E i \in Ids : UpdateUser(r, i, n, p)
  \/ \E i \in Ids : DeleteUser(r, i) \/ ReadToggle(r, i)
  \/ WriteToggle(r)

Next ==
  \/ Boot \/ Crash
  \/ \E n \in Names, p \in Passwords : Login(n, p)
  \/ \E r \in Requests :
       \/ Start(r) \/ Insert(r) \/ Manage(r) \/ Reject(r)
       \/ \E i \in Ids : EnterSelf(r, i) \/ EnterAdmin(r, i)
       \/ \E old, new \in Passwords : ChangePassword(r, old, new)

Spec == Init /\ [][Next]_vars

\* docker: restart: unless-stopped.
FairSpec == Spec /\ WF_vars(Boot)

-----------------------------------------------------------------------------
(* Properties.                                                             *)

Rows == [name : Names, pass : Passwords, admin : BOOLEAN, enabled : BOOLEAN,
         live : BOOLEAN, asked : Nat]
Handlers ==
  {Idle, [op |-> "admin"]}
  \union [op : {"create"}, name : Names, pass : Passwords]
  \union [op : {"init"}, name : Names, pass : Passwords, asked : Nat]
  \union [op : {"self"}, on : Ids, pass : Passwords]
  \union [op : {"toggle"}, on : Ids, value : BOOLEAN]

\* The shape of the table and of the handlers; JWTs and handlers name rows
\* that exist, deleted ones included.
TypeOK == /\ users \in Seq(Rows)
          /\ sessions \subseteq Ids
          /\ req \in [Requests -> Handlers]
          /\ up \in BOOLEAN

\* No two rows ever share a username, although each creator checks the name
\* in one statement and inserts in another, and renames do not check at all:
\* the unique index decides, for deleted rows too.
UniqueNames == \A i, j \in Ids : users[i].name = users[j].name => i = j

\* An administrator is added to another one only by a request that counted
\* before that other one existed: neither an init nor a restart, however late
\* its INSERT comes and whatever was deleted, renamed or disabled meanwhile,
\* makes a second administrator out of a count that could see the first.  (A
\* COUNT that fails sees no row: its error is ignored, and so is the first.)
AdminsOverlap == \A i, j \in Admins : i < j => users[j].asked < i

\* What the comment of InitHandler says: init is one-time only, and nobody but
\* init and the boot makes administrators.  Two init requests that both count
\* before either inserts break it.
AtMostOneAdmin == \A i, j \in Admins : i = j

\* What the comment of main says: a default administrator is created if there
\* is none.  So the process, restarted by docker, comes up again and serves.
ComesUpAgain == ~up ~> up
=============================================================================
