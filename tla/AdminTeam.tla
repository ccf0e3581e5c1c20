------------------------------ MODULE AdminTeam ------------------------------
(***************************************************************************)
(* The people who may sign in to the admin site (src/src/db/admin-users.ts *)
(* and src/src/routes/admin-users.ts): staff change each other's role,     *)
(* status and access, or remove each other, while people redeem the links  *)
(* that set a password.                                                    *)
(*                                                                         *)
(* A staff request looks first, with no lock, whether it would leave       *)
(* nobody to run the team; then each of its changes is a transaction of    *)
(* its own that takes one advisory lock, writes, counts again and commits. *)
(* READ COMMITTED: until then only the transaction sees its write, and     *)
(* the row it wrote is locked.  Inviting and setting a password take       *)
(* neither lock.                                                           *)
(***************************************************************************)
EXTENDS Integers, Sequences

CONSTANTS
  Users,         \* the rows of users there may ever be
  Requests,      \* staff requests at work
  Redeemers,     \* visits of a set-password link at work
  Bodies,        \* what staff requests ask: the changes of each, in order
  MaxPasswords,  \* bound: how many passwords a user sets
  None           \* no row, nobody

VARIABLES
  users,   \* the table, as committed
  lock,    \* who holds TEAM_MUTATION_LOCK
  req,     \* staff requests: where each is, on whom, what it read, its changes and which is next
  visit    \* visits of such a link: where each is, and which link

vars == <<users, lock, req, visit>>

Row == [role : {"admin", "editor"}, status : {"invited", "active", "disabled"},
        team : {"byRole", "edit", "less"}, pwd : 0..MaxPasswords]
Link == [user : Users, bind : 0..MaxPasswords]
Change == [kind : {"role"}, to : {"admin", "editor"}]
          \cup [kind : {"status"}, to : {"active", "disabled"}]
          \cup [kind : {"permissions"}, to : {"edit", "less"}]
          \cup [kind : {"delete"}, to : {"gone"}]

\* What patchAdminUser, patchUserPermissions and deleteAdminUser may ask.
Asked ==
  {<<c>> : c \in Change}
  \cup {<<c, d>> : c \in {x \in Change : x.kind = "role"}, d \in {x \in Change : x.kind = "status"}}

ASSUME TeamAssumption ==
  /\ None \notin Users \cup Requests \cup Row \cup Link /\ MaxPasswords \in Nat
  /\ Bodies \subseteq Asked

TypeOK ==
  /\ users \in [Users -> Row \cup {None}]
  /\ lock \in Requests \cup {None}
  /\ req \in [Requests -> [pc : {"idle", "look", "check", "lock", "write", "remain", "commit"},
                           user : Users \cup {None}, held : BOOLEAN, todo : Seq(Change), k : Nat]]
  /\ visit \in [Redeemers -> [pc : {"idle", "status", "hash", "write"}, link : Link \cup {None}]]

\* ADMIN_HOLDER_SQL, and effectivePermissions and can of "team", "edit".
Holds(row) ==
  /\ row # None /\ row.status # "disabled"
  /\ row.team = "edit" \/ (row.team = "byRole" /\ row.role = "admin")
Holders(table) == {u \in Users : Holds(table[u])}

NoRequest == [pc |-> "idle", user |-> None, held |-> FALSE, todo |-> <<>>, k |-> 0]
NoVisit == [pc |-> "idle", link |-> None]

\* Any team with somebody to run it.
Init ==
  /\ users \in [Users -> [role : {"admin", "editor"}, status : {"active"},
                          team : {"byRole"}, pwd : {0}] \cup {None}]
  /\ Holders(users) # {}
  /\ lock = None
  /\ req = [r \in Requests |-> NoRequest]
  /\ visit = [v \in Redeemers |-> NoVisit]
----------------------------------------------------------------------------
(* A staff request                                                          *)

Next1(r) == req[r].todo[req[r].k]
At(r, pc) == req[r].pc = pc
Goto(r, pc) == req' = [req EXCEPT ![r].pc = pc]
Done(r) == req' = [req EXCEPT ![r] = NoRequest]
Unlocked == lock' = None
KeepTeam == UNCHANGED <<users, visit>>

\* authorizeSection(team, edit), of the row as it is now.
Arrive(r, actor, u, todo) ==
  /\ At(r, "idle") /\ Holds(users[actor])
  /\ req' = [req EXCEPT ![r] = [pc |-> "look", user |-> u, held |-> FALSE, todo |-> todo, k |-> 1]]
  /\ KeepTeam /\ UNCHANGED lock

\* getManagedUser.
Look(r) ==
  /\ At(r, "look")
  /\ IF users[req[r].user] = None THEN Done(r)
     ELSE req' = [req EXCEPT ![r].pc = "check", ![r].held = Holds(users[req[r].user])]
  /\ KeepTeam /\ UNCHANGED lock

\* isLastEnabledAdmin, for each change that could take the team from its last holder.
TakesTeam(c) == <<c.kind, c.to>> \in {<<"role", "editor">>, <<"status", "disabled">>,
                                      <<"permissions", "less">>, <<"delete", "gone">>}
WouldOrphanAdmins(held) == held /\ \A u, w \in Holders(users) : u = w
Check(r) ==
  /\ At(r, "check")
  /\ IF TakesTeam(Next1(r)) /\ WouldOrphanAdmins(req[r].held) THEN Done(r)
     ELSE IF req[r].k < Len(req[r].todo) THEN req' = [req EXCEPT ![r].k = @ + 1]
     ELSE req' = [req EXCEPT ![r].pc = "lock", ![r].held = FALSE, ![r].k = 1]
  /\ KeepTeam /\ UNCHANGED lock

\* setUserRole, setUserStatus, setUserPermissions, deleteUser: pg_advisory_xact_lock, ...
LockShared == TRUE   \* mutant: the lock keeps nobody out
LockFree == lock = None
TakeLock(r) ==
  /\ At(r, "lock") /\ LockFree
  /\ lock' = r /\ Goto(r, "write")
  /\ KeepTeam

\* ... the write, which the row's lock keeps to the transaction, ...
RowFree(u) == \A r \in Requests : req[r].user = u => req[r].pc \notin {"remain", "commit"}
Write(r) ==
  /\ At(r, "write") /\ RowFree(req[r].user)
  /\ IF users[req[r].user] = None THEN Done(r) /\ Unlocked
     ELSE Goto(r, "remain") /\ UNCHANGED lock
  /\ KeepTeam

\* mutant: a removal keeps the row, disabled
ChangedSoftly(row, c) ==
  CASE c.kind = "role" -> [row EXCEPT !.role = c.to]
    [] c.kind = "permissions" -> [row EXCEPT !.team = c.to]
    [] OTHER -> [row EXCEPT !.status = c.to]

Changed(row, c) ==
  CASE c.kind = "role" -> [row EXCEPT !.role = c.to]
    [] c.kind = "status" -> [row EXCEPT !.status = c.to]
    [] c.kind = "permissions" -> [row EXCEPT !.team = c.to]
    [] OTHER -> None
After(r) == [users EXCEPT ![req[r].user] = Changed(@, Next1(r))]

\* ... assertAdminsRemain, which sees that write, and LastAdminError rolls it back; ...
AssertAdminsRemain(table) == Holders(table) # {}
Remain(r) ==
  /\ At(r, "remain")
  /\ IF AssertAdminsRemain(After(r)) THEN Goto(r, "commit") /\ UNCHANGED lock
     ELSE Done(r) /\ Unlocked
  /\ KeepTeam

\* ... and the commit.  A patch of role and status goes on to the second.
Commit(r) ==
  /\ At(r, "commit")
  /\ users' = After(r)
  /\ IF req[r].k < Len(req[r].todo) THEN req' = [req EXCEPT ![r].pc = "lock", ![r].k = @ + 1]
     ELSE Done(r)
  /\ Unlocked /\ UNCHANGED visit
----------------------------------------------------------------------------
(* Invitations and passwords                                                *)

KeepRequests == UNCHANGED <<lock, req>>

\* inviteUser.
Invite(actor, u, role) ==
  /\ Holds(users[actor]) /\ users[u] = None
  /\ users' = [users EXCEPT ![u] = [role |-> role, status |-> "invited", team |-> "byRole", pwd |-> 0]]
  /\ KeepRequests /\ UNCHANGED visit

\* postAdminSetPassword: a link, bound to the password of the day it was sent (inviteUser's, that
\* of postAdminUserReset or of postAdminForgot); then the status, then the password now, ...
OpenLink(v, u, bind) ==
  /\ visit[v].pc = "idle" /\ users[u] # None /\ bind \in 0..users[u].pwd
  /\ visit' = [visit EXCEPT ![v] = [pc |-> "status", link |-> [user |-> u, bind |-> bind]]]
  /\ KeepRequests /\ UNCHANGED users

CheckLink(v) ==
  LET row == users[visit[v].link.user] IN
  /\ \/ /\ visit[v].pc = "status"
        /\ visit' = IF row = None \/ (row # None /\ row.status = "disabled")
                    THEN [visit EXCEPT ![v] = NoVisit] ELSE [visit EXCEPT ![v].pc = "hash"]
     \/ /\ visit[v].pc = "hash"
        /\ visit' = IF visit[v].link.bind # (IF row = None THEN 0 ELSE row.pwd)
                    THEN [visit EXCEPT ![v] = NoVisit] ELSE [visit EXCEPT ![v].pc = "write"]
  /\ KeepRequests /\ UNCHANGED users

\* ... and setUserPassword, whose CASE lets only an invited user become active.
PasswordActivates(row) == [row EXCEPT !.pwd = @ + 1, !.status = "active"]   \* mutant: a new password makes anybody active
PasswordSet(row) == [row EXCEPT !.pwd = @ + 1, !.status = IF @ = "invited" THEN "active" ELSE @]
SetPassword(v) ==
  LET u == visit[v].link.user IN
  /\ visit[v].pc = "write" /\ RowFree(u)
  /\ users[u] # None => users[u].pwd < MaxPasswords
  /\ users' = IF users[u] = None THEN users ELSE [users EXCEPT ![u] = PasswordSet(@)]
  /\ visit' = [visit EXCEPT ![v] = NoVisit]
  /\ KeepRequests

\* setOwnPassword, of somebody who was signed in when the request came: they may have been disabled
\* since, which the write does not ask (somebody only invited cannot sign in).
SetOwnPassword(u) ==
  /\ users[u] # None /\ RowFree(u) /\ users[u].status # "invited" /\ users[u].pwd < MaxPasswords
  /\ users' = [users EXCEPT ![u].pwd = @ + 1]
  /\ KeepRequests /\ UNCHANGED visit
----------------------------------------------------------------------------
Request(r) ==
  \/ \E actor, u \in Users, todo \in Bodies : Arrive(r, actor, u, todo)
  \/ Look(r) \/ Check(r) \/ TakeLock(r) \/ Write(r) \/ Remain(r) \/ Commit(r)
Visit(v) == (\E u \in Users, bind \in 0..MaxPasswords : OpenLink(v, u, bind)) \/ CheckLink(v) \/ SetPassword(v)
Next ==
  \/ \E r \in Requests : Request(r)
  \/ \E v \in Redeemers : Visit(v)
  \/ \E actor, u \in Users, role \in {"admin", "editor"} : Invite(actor, u, role)
  \/ \E u \in Users : SetOwnPassword(u)

Spec == Init /\ [][Next]_vars
----------------------------------------------------------------------------
(* What the team is promised                                                *)

\* Somebody can always run the team: two staff who disable, demote, restrict or remove each other
\* at the same moment cannot lock everyone out (TEAM_MUTATION_LOCK, assertAdminsRemain).
TeamKept == Holders(users) # {}

\* Only staff bring a disabled user back: a password set through a link that was checked just
\* before the user was disabled does not (the CASE of setUserPassword).
OnlyStaffReactivate ==
  [][\A u \in Users :
       users[u] # None /\ users[u].status = "disabled" /\ users'[u] # None /\ users'[u].status # "disabled"
         => \E r \in Requests : At(r, "commit") /\ Next1(r).kind = "status" /\ req'[r] # req[r]]_vars
=============================================================================
