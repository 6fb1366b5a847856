---------------------------- MODULE AccountsProofs ----------------------------
(***************************************************************************)
(* The users table keeps its shape, its names stay distinct, and no        *)
(* administrator is added to one its count could see: for any names, any   *)
(* number of requests and tables of any length.                            *)
(***************************************************************************)
EXTENDS Accounts, SequenceTheorems, TLAPS

\* A process that is down runs no handler.
DownIsIdle == ~up => \A r \in Requests : req[r] = Idle

\* What an init handler has counted is still so, as far as the count could
\* see: nothing turns a row that exists into an administrator.
CountHolds == \A r \in Requests : req[r].op = "init" =>
                /\ req[r].asked <= Len(users)
                /\ \A i \in Admins : req[r].asked < i

TableInv == TypeOK /\ DownIsIdle /\ UniqueNames
AdminInv == CountHolds /\ AdminsOverlap

-----------------------------------------------------------------------------
(* The table.                                                              *)

\* An UPDATE of rows that exist leaves a table.
LEMMA Overwrite ==
  ASSUME NEW s \in Seq(Rows), NEW f \in [DOMAIN s -> Rows]
  PROVE  f \in Seq(Rows)
<1>1. DOMAIN s = 1..Len(s) /\ Len(s) \in Nat
  BY LenProperties
<1> QED BY <1>1, SeqDef

\* An INSERT adds a row behind the others and changes none.
LEMMA Inserted ==
  ASSUME NEW s \in Seq(Rows), NEW w \in Rows
  PROVE  /\ Append(s, w) \in Seq(Rows)
         /\ DOMAIN Append(s, w) = DOMAIN s \union {Len(s) + 1}
         /\ Len(s) + 1 \notin DOMAIN s
         /\ \A i \in DOMAIN s : Append(s, w)[i] = s[i]
         /\ Append(s, w)[Len(s) + 1] = w
<1>1. DOMAIN s = 1..Len(s) /\ Len(s) \in Nat
  BY LenProperties
<1>2. DOMAIN Append(s, w) = 1..(Len(s) + 1)
  BY AppendProperties, LenProperties
<1> QED BY <1>1, <1>2, AppendProperties

\* The three kinds of writes the handlers make of the table.
Inserts == \E w \in Rows : ~InIndex(w.name) /\ users' = Append(users, w)
Updates == /\ users' \in [Ids -> Rows]
           /\ \A i \in Ids : /\ users'[i].live => users[i].live
                             /\ users'[i].admin = users[i].admin
                             /\ users'[i].asked = users[i].asked
           /\ \/ \A i \in Ids : users'[i].name = users[i].name
              \/ \E i \in Ids : /\ ~InIndex(users'[i].name)
                                /\ \A j \in Ids \ {i} : users'[j].name = users[j].name

LEMMA InsertKeepsTable ==
  ASSUME users \in Seq(Rows), UniqueNames, Inserts
  PROVE  users' \in Seq(Rows) /\ Ids \subseteq Ids' /\ UniqueNames'
<1>1. PICK w \in Rows : ~InIndex(w.name) /\ users' = Append(users, w)
  BY DEF Inserts
<1>2. /\ users' \in Seq(Rows)
      /\ Ids' = Ids \union {Len(users) + 1} /\ Len(users) + 1 \notin Ids
      /\ \A i \in Ids : users'[i] = users[i]
      /\ users'[Len(users) + 1] = w
  BY <1>1, Inserted DEF Ids
<1>3. \A i \in Ids : users[i].name # w.name
  BY <1>1 DEF InIndex
<1>4. UniqueNames'
  BY <1>2, <1>3 DEF UniqueNames
<1> QED BY <1>2, <1>4

LEMMA UpdateKeepsTable ==
  ASSUME users \in Seq(Rows), UniqueNames, Updates
  PROVE  /\ users' \in Seq(Rows) /\ Ids' = Ids /\ Len(users') = Len(users)
         /\ UniqueNames' /\ Admins' \subseteq Admins
<1>1. users' \in Seq(Rows) /\ Ids' = Ids
  BY Overwrite DEF Updates, Ids
<1>2. UniqueNames'
  <2>1. CASE \A i \in Ids : users'[i].name = users[i].name
    BY <1>1, <2>1 DEF UniqueNames
  <2>2. CASE \E i \in Ids : /\ ~InIndex(users'[i].name)
                            /\ \A j \in Ids \ {i} : users'[j].name = users[j].name
    <3>1. PICK i \in Ids : /\ ~InIndex(users'[i].name)
                           /\ \A j \in Ids \ {i} : users'[j].name = users[j].name
      BY <2>2
    <3>2. \A j \in Ids \ {i} : users'[j].name # users'[i].name
      BY <3>1 DEF InIndex
    <3>3. ASSUME NEW j \in Ids, NEW k \in Ids, users'[j].name = users'[k].name
          PROVE  j = k
      <4>1. CASE j = i \/ k = i
        BY <3>2, <3>3, <4>1
      <4>2. CASE j # i /\ k # i
        BY <3>1, <3>3, <4>2 DEF UniqueNames
      <4> QED BY <4>1, <4>2
    <3> QED BY <1>1, <3>3 DEF UniqueNames
  <2> QED BY <2>1, <2>2 DEF Updates
<1>3. Admins' \subseteq Admins
  BY <1>1 DEF Updates, Admins
<1>4. Len(users') = Len(users)
  BY <1>1, LenProperties DEF Ids
<1> QED BY <1>1, <1>2, <1>3, <1>4

-----------------------------------------------------------------------------
(* What a request in progress does next.  Only an init makes a handler     *)
(* that has counted administrators; an INSERT is a step of its own below.  *)

Served(r, h) == /\ up /\ UNCHANGED <<sessions, up>>
                /\ UNCHANGED users \/ Updates
                /\ req' = [req EXCEPT ![r] = h]

LEMMA RowWritten ==
  ASSUME users \in Seq(Rows), NEW i \in Ids, NEW w \in Rows,
         w.live => users[i].live, w.admin = users[i].admin, w.asked = users[i].asked,
         w.name = users[i].name \/ ~InIndex(w.name)
  PROVE  users' = [users EXCEPT ![i] = w] => Updates
<1> SUFFICES ASSUME users' = [users EXCEPT ![i] = w] PROVE Updates
  OBVIOUS
<1>1. users \in [Ids -> Rows]
  BY LenProperties, SeqDef DEF Ids
<1>2. users' \in [Ids -> Rows] /\ users'[i] = w /\ \A j \in Ids \ {i} : users'[j] = users[j]
  BY <1>1
<1>3. \A j \in Ids : /\ users'[j].live => users[j].live
                     /\ users'[j].admin = users[j].admin
                     /\ users'[j].asked = users[j].asked
  <2> TAKE j \in Ids
  <2>1. CASE j = i
    BY <1>2, <2>1, Zenon
  <2>2. CASE j # i
    BY <1>2, <2>2, Zenon
  <2> QED BY <2>1, <2>2
<1>4. CASE w.name = users[i].name
  BY <1>2, <1>3, <1>4 DEF Updates
<1>5. CASE ~InIndex(w.name)
  BY <1>2, <1>3, <1>5 DEF Updates
<1> QED BY <1>4, <1>5

LEMMA SelfServed ==
  ASSUME TableInv, NEW r \in Requests, NEW i \in Ids,
         EnterSelf(r, i) \/ EnterAdmin(r, i)
  PROVE  \E h \in Handlers : h.op # "init" /\ Served(r, h)
<1>0. users[i] \in Rows
  BY ElementOfSeq DEF TableInv, TypeOK, Ids
<1>1. CASE EnterSelf(r, i)
  <2> DEFINE h == [op |-> "self", on |-> i, pass |-> users[i].pass]
  <2>1. h \in Handlers /\ h.op # "init"
    BY <1>0 DEF Handlers, Rows
  <2> QED BY <1>1, <2>1 DEF EnterSelf, Enter, Served
<1>2. CASE EnterAdmin(r, i)
  <2> DEFINE h == [op |-> "admin"]
  <2>1. h \in Handlers /\ h.op # "init"
    BY DEF Handlers
  <2> QED BY <1>2, <2>1 DEF EnterAdmin, Enter, Served
<1> QED BY <1>1, <1>2

LEMMA CountedServed ==
  ASSUME TableInv, NEW r \in Requests, NEW n \in Names, NEW p \in Passwords,
         StartRegister(r, n, p) \/ StartCreate(r, n, p)
  PROVE  \E h \in Handlers : h.op # "init" /\ Served(r, h)
<1> DEFINE h == [op |-> "create", name |-> n, pass |-> p]
<1>1. h \in Handlers /\ h.op # "init"
  BY DEF Handlers
<1>2. up
  BY DEF TableInv, DownIsIdle, StartRegister, Enter, StartCreate, Managing, Idle
<1>3. req' = [req EXCEPT ![r] = h] /\ UNCHANGED <<users, sessions, up>>
  BY DEF StartRegister, Enter, StartCreate
<1> QED BY <1>1, <1>2, <1>3 DEF Served

\* The handlers that end here, with or without an UPDATE of one row.
LEMMA EndServed ==
  ASSUME TableInv, NEW r \in Requests, req[r] # Idle, Leave(r),
         UNCHANGED <<sessions, up>>, UNCHANGED users \/ Updates
  PROVE  \E h \in Handlers : h.op # "init" /\ Served(r, h)
<1>1. Idle \in Handlers /\ Idle.op # "init"
  BY DEF Handlers, Idle
<1>2. up
  BY DEF TableInv, DownIsIdle
<1>3. req' = [req EXCEPT ![r] = Idle]
  BY DEF Leave
<1> QED BY <1>1, <1>2, <1>3 DEF Served

LEMMA PasswordServed ==
  ASSUME TableInv, NEW r \in Requests, NEW old \in Passwords, NEW new \in Passwords,
         ChangePassword(r, old, new)
  PROVE  \E h \in Handlers : h.op # "init" /\ Served(r, h)
<1> DEFINE i == req[r].on
           w == [users[i] EXCEPT !.pass = new]
<1>1. CASE UNCHANGED users
  BY <1>1, EndServed DEF ChangePassword, Idle
<1>2. CASE Live(i) /\ users' = [users EXCEPT ![i].pass = new]
  <2>1. users \in Seq(Rows) /\ i \in Ids
    BY <1>2 DEF TableInv, TypeOK, Live
  <2>2. users[i] \in Rows
    BY <2>1, ElementOfSeq DEF Ids
  <2>3. /\ w \in Rows /\ w.live = users[i].live /\ w.admin = users[i].admin
        /\ w.asked = users[i].asked /\ w.name = users[i].name
    BY <2>2 DEF Rows
  <2>4. users' = [users EXCEPT ![i] = w]
    BY <1>2
  <2>5. Updates
    BY <2>1, <2>3, <2>4, RowWritten
  <2> QED BY <2>5, EndServed DEF ChangePassword, Idle
<1> QED BY <1>1, <1>2 DEF ChangePassword

LEMMA UpdateServed ==
  ASSUME TableInv, NEW r \in Requests, NEW i \in Ids, NEW n \in Names, NEW p \in Passwords,
         UpdateUser(r, i, n, p)
  PROVE  \E h \in Handlers : h.op # "init" /\ Served(r, h)
<1> DEFINE w == [users[i] EXCEPT !.name = n, !.pass = p]
<1>1. CASE UNCHANGED users
  BY <1>1, EndServed DEF UpdateUser, Managing, Idle
<1>2. CASE /\ n = users[i].name \/ ~InIndex(n)
           /\ users' = [users EXCEPT ![i].name = n, ![i].pass = p]
  <2>1. users \in Seq(Rows)
    BY DEF TableInv, TypeOK
  <2>2. users[i] \in Rows
    BY <2>1, ElementOfSeq DEF Ids
  <2>3. /\ w \in Rows /\ w.live = users[i].live /\ w.admin = users[i].admin
        /\ w.asked = users[i].asked /\ w.name = n
    BY <2>2 DEF Rows
  <2>4. users' = [users EXCEPT ![i] = w]
    BY <1>2, <2>1
  <2>5. Updates
    BY <1>2, <2>1, <2>3, <2>4, RowWritten
  <2> QED BY <2>5, EndServed DEF UpdateUser, Managing, Idle
<1> QED BY <1>1, <1>2 DEF UpdateUser

LEMMA DeleteServed ==
  ASSUME TableInv, NEW r \in Requests, NEW i \in Ids, DeleteUser(r, i)
  PROVE  \E h \in Handlers : h.op # "init" /\ Served(r, h)
<1> DEFINE w == [users[i] EXCEPT !.live = FALSE]
<1>1. users \in Seq(Rows)
  BY DEF TableInv, TypeOK
<1>2. users[i] \in Rows
  BY <1>1, ElementOfSeq DEF Ids
<1>3. /\ w \in Rows /\ ~w.live /\ w.admin = users[i].admin
      /\ w.asked = users[i].asked /\ w.name = users[i].name
  BY <1>2 DEF Rows
<1>4. users' = [users EXCEPT ![i] = w]
  BY DEF DeleteUser
<1>5. Updates
  BY <1>1, <1>3, <1>4, RowWritten
<1> QED BY <1>5, EndServed DEF DeleteUser, Managing, Idle

LEMMA ToggleServed ==
  ASSUME TableInv, NEW r \in Requests, NEW i \in Ids, ReadToggle(r, i)
  PROVE  \E h \in Handlers : h.op # "init" /\ Served(r, h)
<1> DEFINE h == [op |-> "toggle", on |-> i, value |-> ~users[i].enabled]
<1>1. h \in Handlers /\ h.op # "init"
  BY DEF Handlers
<1>2. up
  BY DEF TableInv, DownIsIdle, ReadToggle, Managing, Idle
<1> QED BY <1>1, <1>2 DEF Served, ReadToggle

LEMMA ToggledServed ==
  ASSUME TableInv, NEW r \in Requests, WriteToggle(r)
  PROVE  \E h \in Handlers : h.op # "init" /\ Served(r, h)
<1> DEFINE i == req[r].on
           w == [users[i] EXCEPT !.enabled = req[r].value]
<1>1. CASE UNCHANGED users
  BY <1>1, EndServed DEF WriteToggle, Idle
<1>2. CASE Live(i) /\ users' = [users EXCEPT ![i].enabled = req[r].value]
  <2>1. users \in Seq(Rows) /\ i \in Ids
    BY <1>2 DEF TableInv, TypeOK, Live
  <2>2. users[i] \in Rows
    BY <2>1, ElementOfSeq DEF Ids
  <2>3. req[r].value \in BOOLEAN
    <3>1. req[r] \in Handlers /\ req[r].op = "toggle"
      BY DEF TableInv, TypeOK, WriteToggle
    <3> QED BY <3>1 DEF Handlers, Idle
  <2>4. /\ w \in Rows /\ w.live = users[i].live /\ w.admin = users[i].admin
        /\ w.asked = users[i].asked /\ w.name = users[i].name
    BY <2>2, <2>3 DEF Rows
  <2>5. users' = [users EXCEPT ![i] = w]
    BY <1>2
  <2>6. Updates
    BY <2>1, <2>4, <2>5, RowWritten
  <2> QED BY <2>6, EndServed DEF WriteToggle, Idle
<1> QED BY <1>1, <1>2 DEF WriteToggle

-----------------------------------------------------------------------------
(* The INSERTs and the boots.                                              *)

\* A boot or an INSERT of a request leaves the table or adds one row.
LEMMA BootWrites ==
  ASSUME TableInv, Boot
  PROVE  \/ UNCHANGED users
         \/ \E asked \in Seen(Admins = {}) :
              LET w == Row(AdminName, AdminPassword, TRUE, asked) IN
                w \in Rows /\ ~InIndex(w.name) /\ users' = Append(users, w)
<1>1. CASE UNCHANGED users
  BY <1>1
<1>2. CASE /\ ~Refused(AdminName)
           /\ \E asked \in Seen(Admins = {}) :
                users' = Append(users, Row(AdminName, AdminPassword, TRUE, asked))
  <2>1. PICK asked \in Seen(Admins = {}) :
               users' = Append(users, Row(AdminName, AdminPassword, TRUE, asked))
    BY <1>2
  <2> DEFINE w == Row(AdminName, AdminPassword, TRUE, asked)
  <2>2. asked \in Nat
    BY LenProperties DEF TableInv, TypeOK, Seen
  <2>3. w \in Rows /\ w.name = AdminName
    BY <2>2, ConfigAssumption DEF Row, Rows
  <2> QED BY <1>2, <2>1, <2>3 DEF Refused
<1> QED BY <1>1, <1>2 DEF Boot

\* The row an INSERT adds, when the database takes it.
NewRow(h) == IF h.op = "init" THEN Row(h.name, h.pass, TRUE, h.asked)
                              ELSE Row(h.name, h.pass, FALSE, 0)

LEMMA InsertWrites ==
  ASSUME TableInv, NEW r \in Requests, Insert(r)
  PROVE  \/ UNCHANGED users
         \/ LET w == NewRow(req[r]) IN
              w \in Rows /\ ~InIndex(w.name) /\ users' = Append(users, w)
<1> DEFINE h == req[r]
           w == NewRow(h)
<1>1. /\ h.name \in Names /\ h.pass \in Passwords
      /\ h.op = "init" => h.asked \in Nat
  <2>1. h \in Handlers /\ h.op \in {"init", "create"}
    BY DEF TableInv, TypeOK, Insert
  <2> QED BY <2>1 DEF Handlers, Idle
<1>2. w \in Rows /\ w.name = h.name
  <2>1. CASE h.op = "init"
    BY <1>1, <2>1 DEF NewRow, Row, Rows
  <2>2. CASE h.op # "init"
    <3>1. 0 \in Nat
      OBVIOUS
    <3> QED BY <1>1, <2>2, <3>1 DEF NewRow, Row, Rows
  <2> QED BY <2>1, <2>2
<1>3. users' = IF Refused(h.name) THEN users ELSE Append(users, w)
  BY DEF Insert, NewRow
<1> QED BY <1>2, <1>3 DEF Refused

\* A table that only grows keeps the handlers' types.
LEMMA HandlersGrow ==
  ASSUME Ids \subseteq Ids'
  PROVE  Handlers \subseteq Handlers'
BY DEF Handlers, Idle

LEMMA RejectServed ==
  ASSUME TableInv, NEW r \in Requests, Reject(r)
  PROVE  \E h \in Handlers : h.op # "init" /\ Served(r, h)
BY EndServed DEF Reject, Idle

-----------------------------------------------------------------------------
(* The steps, by what they do to the table.                                *)

OtherRequests == \E r \in Requests : \E h \in Handlers : h.op # "init" /\ Served(r, h)

LEMMA NextCases ==
  ASSUME TableInv, Next
  PROVE  \/ Boot \/ Crash
         \/ \E n \in Names, p \in Passwords : Login(n, p)
         \/ \E r \in Requests : Insert(r)
         \/ \E r \in Requests, n \in Names, p \in Passwords : StartInit(r, n, p)
         \/ OtherRequests
<1>1. ASSUME NEW r \in Requests, NEW n \in Names, NEW p \in Passwords, StartRegister(r, n, p)
      PROVE  OtherRequests
  BY <1>1, CountedServed DEF OtherRequests
<1>2. ASSUME NEW r \in Requests, Manage(r)
      PROVE  OtherRequests
  BY <1>2, CountedServed, UpdateServed, DeleteServed, ToggleServed, ToggledServed
     DEF Manage, OtherRequests
<1>3. ASSUME NEW r \in Requests, Reject(r)
      PROVE  OtherRequests
  BY <1>3, RejectServed DEF OtherRequests
<1>4. ASSUME NEW r \in Requests, NEW i \in Ids, EnterSelf(r, i) \/ EnterAdmin(r, i)
      PROVE  OtherRequests
  BY <1>4, SelfServed DEF OtherRequests
<1>5. ASSUME NEW r \in Requests, NEW old \in Passwords, NEW new \in Passwords,
             ChangePassword(r, old, new)
      PROVE  OtherRequests
  BY <1>5, PasswordServed DEF OtherRequests
<1> QED BY <1>1, <1>2, <1>3, <1>4, <1>5 DEF Next, Start

\* Growing the table keeps every part of TableInv but the handlers'.
LEMMA Kept ==
  ASSUME TableInv, UNCHANGED users \/ Updates \/ Inserts
  PROVE  /\ users' \in Seq(Rows) /\ UniqueNames'
         /\ Ids \subseteq Ids' /\ Handlers \subseteq Handlers'
<1>1. users \in Seq(Rows) /\ UniqueNames
  BY DEF TableInv, TypeOK
<1>2. CASE UNCHANGED users
  <2>1. Ids' = Ids
    BY <1>2 DEF Ids
  <2>2. UniqueNames'
    BY <1>1, <1>2, <2>1 DEF UniqueNames
  <2> QED BY <1>1, <1>2, <2>1, <2>2, HandlersGrow
<1>3. CASE Updates
  BY <1>1, <1>3, UpdateKeepsTable, HandlersGrow
<1>4. CASE Inserts
  BY <1>1, <1>4, InsertKeepsTable, HandlersGrow
<1> QED BY <1>2, <1>3, <1>4

\* Every step keeps TableInv.
LEMMA TableStep ==
  ASSUME TableInv, [Next]_vars
  PROVE  TableInv'
<1>1. CASE UNCHANGED vars
  <2>1. UNCHANGED <<users, sessions, req, up>>
    BY <1>1 DEF vars
  <2> QED BY <2>1 DEF TableInv, TypeOK, DownIsIdle, UniqueNames, Ids, Handlers
<1>2. CASE Boot
  <2>1. /\ users' \in Seq(Rows) /\ UniqueNames'
        /\ Ids \subseteq Ids' /\ Handlers \subseteq Handlers'
    BY <1>2, BootWrites, Kept DEF Inserts
  <2>2. up' = TRUE /\ UNCHANGED <<sessions, req>>
    BY <1>2 DEF Boot
  <2> QED BY <2>1, <2>2 DEF TableInv, TypeOK, DownIsIdle
<1>3. CASE Crash
  <2>1. /\ users' \in Seq(Rows) /\ UniqueNames'
        /\ Ids \subseteq Ids' /\ Handlers \subseteq Handlers'
    BY <1>3, Kept DEF Crash
  <2>2. /\ up' = FALSE /\ UNCHANGED sessions
        /\ req' = [r \in Requests |-> Idle] /\ Idle \in Handlers
    BY <1>3 DEF Crash, Handlers
  <2> QED BY <2>1, <2>2 DEF TableInv, TypeOK, DownIsIdle
<1>4. CASE \E n \in Names, p \in Passwords : Login(n, p)
  <2>1. /\ users' \in Seq(Rows) /\ UniqueNames'
        /\ Ids \subseteq Ids' /\ Handlers \subseteq Handlers'
    BY <1>4, Kept DEF Login
  <2>2. UNCHANGED <<users, req, up>> /\ sessions' \subseteq Ids
    BY <1>4 DEF Login, TableInv, TypeOK
  <2> QED BY <2>1, <2>2 DEF TableInv, TypeOK, DownIsIdle
<1>5. CASE \E r \in Requests : Insert(r)
  <2>1. PICK r \in Requests : Insert(r)
    BY <1>5
  <2>2. /\ users' \in Seq(Rows) /\ UniqueNames'
        /\ Ids \subseteq Ids' /\ Handlers \subseteq Handlers'
    BY <2>1, InsertWrites, Kept DEF Inserts
  <2>3. req' = [req EXCEPT ![r] = Idle] /\ UNCHANGED <<sessions, up>> /\ Idle \in Handlers
    BY <2>1 DEF Insert, Leave, Handlers
  <2> QED BY <2>2, <2>3 DEF TableInv, TypeOK, DownIsIdle
<1>6. CASE \E r \in Requests, n \in Names, p \in Passwords : StartInit(r, n, p)
  <2>1. PICK r \in Requests, n \in Names, p \in Passwords : StartInit(r, n, p)
    BY <1>6
  <2>0. PICK asked \in Seen(Admins = {}) :
               Enter(r, [op |-> "init", name |-> n, pass |-> p, asked |-> asked])
    BY <2>1 DEF StartInit
  <2> DEFINE h == [op |-> "init", name |-> n, pass |-> p, asked |-> asked]
  <2>2. /\ users' \in Seq(Rows) /\ UniqueNames'
        /\ Ids \subseteq Ids' /\ Handlers \subseteq Handlers'
    BY <2>1, Kept DEF StartInit
  <2>3. h \in Handlers
    <3>1. asked \in Nat
      BY LenProperties DEF TableInv, TypeOK, Seen
    <3> QED BY <3>1 DEF Handlers
  <2>4. up /\ UNCHANGED <<sessions, up>> /\ req' = [req EXCEPT ![r] = h]
    BY <2>0, <2>1 DEF StartInit, Enter
  <2> QED BY <2>2, <2>3, <2>4 DEF TableInv, TypeOK, DownIsIdle
<1>7. CASE OtherRequests
  <2>1. PICK r \in Requests, h \in Handlers : Served(r, h)
    BY <1>7 DEF OtherRequests
  <2>2. /\ users' \in Seq(Rows) /\ UniqueNames'
        /\ Ids \subseteq Ids' /\ Handlers \subseteq Handlers'
    BY <2>1, Kept DEF Served
  <2> QED BY <2>1, <2>2 DEF TableInv, TypeOK, DownIsIdle, Served
<1> QED BY <1>1, <1>2, <1>3, <1>4, <1>5, <1>6, <1>7, NextCases

-----------------------------------------------------------------------------
(* The administrators.                                                     *)

\* A step that makes neither an administrator nor an init handler.
LEMMA NoNewAdmin ==
  ASSUME TableInv, TableInv', AdminInv, Len(users) <= Len(users'), Admins' \subseteq Admins,
         \A i \in Admins' : users'[i].asked = users[i].asked,
         \A r \in Requests : req'[r].op = "init" => req'[r] = req[r]
  PROVE  AdminInv'
<1>1. AdminsOverlap'
  BY DEF AdminInv, AdminsOverlap
<1>2. CountHolds'
  <2> SUFFICES ASSUME NEW r \in Requests, req'[r].op = "init"
               PROVE  /\ req'[r].asked <= Len(users')
                      /\ \A i \in Admins' : req'[r].asked < i
    BY DEF CountHolds
  <2>1. req'[r] = req[r] /\ req[r].asked <= Len(users)
        /\ \A i \in Admins : req[r].asked < i
    BY DEF AdminInv, CountHolds
  <2>2. Len(users) \in Nat /\ Len(users') \in Nat /\ req[r].asked \in Nat
    <3>1. req[r] \in Handlers /\ req[r].op = "init"
      BY <2>1 DEF TableInv, TypeOK
    <3> QED BY <3>1, LenProperties DEF TableInv, TypeOK, Handlers, Idle
  <2> QED BY <2>1, <2>2
<1> QED BY <1>1, <1>2 DEF AdminInv

\* An INSERT of a row makes an administrator exactly when the row is one.
LEMMA AdminInserted ==
  ASSUME users \in Seq(Rows), NEW w \in Rows, users' = Append(users, w)
  PROVE  /\ Admins' = Admins \union (IF w.live /\ w.admin THEN {Len(users) + 1} ELSE {})
         /\ Len(users) \in Nat /\ Len(users') = Len(users) + 1
         /\ \A i \in Admins : i \in 1..Len(users) /\ users'[i] = users[i]
         /\ users'[Len(users) + 1] = w
<1>1. /\ Ids' = Ids \union {Len(users) + 1} /\ Len(users) + 1 \notin Ids
      /\ \A i \in Ids : users'[i] = users[i]
      /\ users'[Len(users) + 1] = w
  BY Inserted DEF Ids
<1>2. Len(users) \in Nat /\ Ids = 1..Len(users) /\ Len(users') = Len(users) + 1
  BY LenProperties, AppendProperties DEF Ids
<1> QED BY <1>1, <1>2 DEF Admins

\* An INSERT of an administrator whose COUNT saw none, by a handler that ends
\* or by no handler, keeps the others apart from it.
LEMMA AdminAdded ==
  ASSUME TableInv, AdminInv, NEW w \in Rows, users' = Append(users, w),
         \A i \in Admins : w.asked < i,
         \A r \in Requests : req'[r].op = "init" => req'[r] = req[r]
  PROVE  AdminInv'
<1>1. /\ Admins' \subseteq Admins \union {Len(users) + 1}
      /\ Len(users) \in Nat /\ Len(users') = Len(users) + 1
      /\ \A i \in Admins : i \in 1..Len(users) /\ users'[i] = users[i]
      /\ users'[Len(users) + 1] = w
  BY AdminInserted DEF TableInv, TypeOK
<1>2. AdminsOverlap'
  <2> SUFFICES ASSUME NEW i \in Admins', NEW j \in Admins', i < j
               PROVE  users'[j].asked < i
    BY DEF AdminsOverlap
  <2>1. i \in Admins
    BY <1>1
  <2>2. CASE j \in Admins
    BY <1>1, <2>1, <2>2 DEF AdminInv, AdminsOverlap
  <2>3. CASE j = Len(users) + 1
    BY <1>1, <2>1, <2>3
  <2> QED BY <1>1, <2>2, <2>3
<1>3. CountHolds'
  <2> SUFFICES ASSUME NEW r \in Requests, req'[r].op = "init"
               PROVE  /\ req'[r].asked <= Len(users')
                      /\ \A i \in Admins' : req'[r].asked < i
    BY DEF CountHolds
  <2>1. /\ req'[r] = req[r] /\ req[r].asked <= Len(users)
        /\ \A i \in Admins : req[r].asked < i
    BY DEF AdminInv, CountHolds
  <2>2. req[r].asked \in Nat
    <3>1. req[r] \in Handlers /\ req[r].op = "init"
      BY <2>1 DEF TableInv, TypeOK
    <3> QED BY <3>1 DEF Handlers, Idle
  <2> QED BY <1>1, <2>1, <2>2
<1> QED BY <1>2, <1>3 DEF AdminInv

\* Every step keeps AdminInv.
LEMMA AdminStep ==
  ASSUME TableInv, TableInv', AdminInv, [Next]_vars
  PROVE  AdminInv'
<1>1. users \in Seq(Rows) /\ req \in [Requests -> Handlers] /\ Len(users) \in Nat
  BY LenProperties DEF TableInv, TypeOK
<1>2. CASE UNCHANGED users /\ \A r \in Requests : req'[r].op = "init" => req'[r] = req[r]
  <2>1. Admins' = Admins
    BY <1>2 DEF Admins, Ids
  <2> QED BY <1>1, <1>2, <2>1, NoNewAdmin
<1>3. CASE UNCHANGED vars
  BY <1>2, <1>3 DEF vars
<1>4. CASE Boot
  <2>1. req' = req
    BY <1>4 DEF Boot
  <2>2. CASE UNCHANGED users
    BY <1>2, <2>1, <2>2
  <2>3. CASE \E asked \in Seen(Admins = {}) :
               LET w == Row(AdminName, AdminPassword, TRUE, asked) IN
                 w \in Rows /\ ~InIndex(w.name) /\ users' = Append(users, w)
    <3>1. PICK asked \in Seen(Admins = {}) :
                 LET w == Row(AdminName, AdminPassword, TRUE, asked) IN
                   w \in Rows /\ users' = Append(users, w)
      BY <2>3
    <3> DEFINE w == Row(AdminName, AdminPassword, TRUE, asked)
    <3>2. \A i \in Admins : asked < i
      <4>1. Admins = {} \/ asked = 0
        BY <3>1 DEF Seen
      <4>2. \A i \in Admins : i \in 1..Len(users)
        BY <1>1, LenProperties DEF Admins, Ids
      <4> QED BY <1>1, <4>1, <4>2
    <3>3. w.asked = asked
      BY DEF Row
    <3> HIDE DEF w
    <3> QED BY <2>1, <3>1, <3>2, <3>3, AdminAdded DEF w
  <2> QED BY <1>4, <2>2, <2>3, BootWrites
<1>5. CASE Crash
  BY <1>2, <1>5 DEF Crash, Idle
<1>6. CASE \E n \in Names, p \in Passwords : Login(n, p)
  BY <1>2, <1>6 DEF Login
<1>7. CASE \E r \in Requests : Insert(r)
  <2>1. PICK r \in Requests : Insert(r)
    BY <1>7
  <2>2. \A o \in Requests : req'[o].op = "init" => req'[o] = req[o]
    BY <1>1, <2>1 DEF Insert, Leave, Idle
  <2>3. CASE UNCHANGED users
    BY <1>2, <2>2, <2>3
  <2> DEFINE w == NewRow(req[r])
  <2>4. CASE w \in Rows /\ users' = Append(users, w)
    <3>1. CASE req[r].op = "init"
      <4>1. w.asked = req[r].asked
        BY <3>1 DEF NewRow, Row
      <4>2. \A i \in Admins : w.asked < i
        BY <3>1, <4>1 DEF AdminInv, CountHolds
      <4> HIDE DEF w
      <4> QED BY <2>2, <2>4, <4>2, AdminAdded
    <3>2. CASE req[r].op # "init"
      <4>1. ~w.admin
        BY <3>2 DEF NewRow, Row
      <4> HIDE DEF w
      <4>2. /\ Admins' = Admins /\ Len(users') = Len(users) + 1
            /\ \A i \in Admins : users'[i] = users[i]
        BY <1>1, <2>4, <4>1, AdminInserted
      <4>3. Len(users) <= Len(users')
        BY <1>1, <4>2
      <4> QED BY <2>2, <4>2, <4>3, NoNewAdmin
    <3> QED BY <3>1, <3>2
  <2> QED BY <2>1, <2>3, <2>4, InsertWrites
<1>8. CASE \E r \in Requests, n \in Names, p \in Passwords : StartInit(r, n, p)
  <2>1. PICK r \in Requests, n \in Names, p \in Passwords : StartInit(r, n, p)
    BY <1>8
  <2>2. PICK asked \in Seen(Admins = {}) :
               Enter(r, [op |-> "init", name |-> n, pass |-> p, asked |-> asked])
    BY <2>1 DEF StartInit
  <2>3. /\ req'[r].asked = asked
        /\ \A o \in Requests \ {r} : req'[o] = req[o]
    BY <1>1, <2>2 DEF Enter
  <2>4. users' = users /\ Admins' = Admins
    BY <2>1 DEF StartInit, Admins, Ids
  <2>5. asked <= Len(users) /\ \A i \in Admins : asked < i
    <3>1. asked = 0 \/ (Admins = {} /\ asked = Len(users))
      BY <2>2 DEF Seen
    <3>2. \A i \in Admins : i \in 1..Len(users)
      BY <1>1, LenProperties DEF Admins, Ids
    <3> QED BY <1>1, <3>1, <3>2
  <2>6. CountHolds'
    BY <2>3, <2>4, <2>5 DEF AdminInv, CountHolds
  <2>7. AdminsOverlap'
    BY <2>4 DEF AdminInv, AdminsOverlap
  <2> QED BY <2>6, <2>7 DEF AdminInv
<1>9. CASE OtherRequests
  <2>1. PICK r \in Requests, h \in Handlers : h.op # "init" /\ Served(r, h)
    BY <1>9 DEF OtherRequests
  <2>2. \A o \in Requests : req'[o].op = "init" => req'[o] = req[o]
    BY <1>1, <2>1 DEF Served
  <2>3. CASE UNCHANGED users
    BY <1>2, <2>2, <2>3
  <2>4. CASE Updates
    <3>1. /\ Ids' = Ids /\ Len(users') = Len(users) /\ Admins' \subseteq Admins
      BY <1>1, <2>4, UpdateKeepsTable DEF TableInv
    <3>2. \A i \in Admins' : users'[i].asked = users[i].asked
      BY <2>4, <3>1 DEF Updates, Admins
    <3> QED BY <1>1, <2>2, <3>1, <3>2, NoNewAdmin
  <2> QED BY <2>1, <2>3, <2>4 DEF Served
<1> QED BY <1>3, <1>4, <1>5, <1>6, <1>7, <1>8, <1>9, NextCases

-----------------------------------------------------------------------------
LEMMA InitTable ==
  ASSUME Init
  PROVE  TableInv /\ AdminInv
<1>1. users \in Seq(Rows) /\ Ids = {}
  BY EmptySeq DEF Init, Ids
<1>2. \A r \in Requests : req[r] = Idle /\ Idle.op # "init" /\ Idle \in Handlers
  BY DEF Init, Idle, Handlers
<1> QED BY <1>1, <1>2
        DEF Init, TableInv, AdminInv, TypeOK, DownIsIdle, UniqueNames, CountHolds,
            AdminsOverlap, Admins

LEMMA TableHolds == Spec => []TableInv
<1> QED BY InitTable, TableStep, PTL DEF Spec

\* The table, the sessions and the handlers keep their shape (TypeOK).
THEOREM AccountsTypeCorrect == Spec => []TypeOK
<1>1. TableInv => TypeOK
  BY DEF TableInv
<1> QED BY <1>1, TableHolds, PTL

\* No two rows share a username, however the creators, the renames and the
\* restarts interleave (UniqueNames).
THEOREM NamesStayUnique == Spec => []UniqueNames
<1>1. TableInv => UniqueNames
  BY DEF TableInv
<1> QED BY <1>1, TableHolds, PTL

\* Administrators that exist together were all asked for before the first of
\* them existed, or by a request whose COUNT failed (AdminsOverlap).
THEOREM AdministratorsOverlap == Spec => []AdminsOverlap
<1>1. TableInv /\ TableInv' /\ AdminInv /\ [Next]_vars => AdminInv'
  BY AdminStep
<1>2. AdminInv => AdminsOverlap
  BY DEF AdminInv
<1> QED BY <1>1, <1>2, InitTable, TableHolds, PTL DEF Spec
================================================================================
