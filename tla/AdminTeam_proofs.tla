--------------------------- MODULE AdminTeam_proofs ---------------------------
(* The admin team always has somebody to run it, for any number of people,   *)
(* requests and links.                                                       *)
(*                                                                           *)
(* TeamKept is not inductive: that a commit leaves a holder was seen a step  *)
(* before it, by assertAdminsRemain.  What makes that look still true at the *)
(* commit is that only the transaction with the lock can take a holder away, *)
(* and that nobody else writes the row it has written.                       *)
EXTENDS AdminTeam, SequenceTheorems, TLAPS

InTransaction(r) == req[r].pc \in {"write", "remain", "commit"}

\* Only the request that has the lock is in a transaction.
OneTransaction == \A r \in Requests : InTransaction(r) => lock = r

\* A request past "idle" has a change to make, on a row that there may be.
HasChange == \A r \in Requests : req[r].pc # "idle" =>
  /\ req[r].user \in Users
  /\ req[r].k \in 1..Len(req[r].todo)
  /\ \A i \in 1..Len(req[r].todo) : req[r].todo[i] \in Change

\* The row that has been written is there, and whoever passed assertAdminsRemain leaves a holder.
RowThere == \A r \in Requests : req[r].pc \in {"remain", "commit"} => users[req[r].user] # None
Remains == \A r \in Requests : req[r].pc = "commit" => Holders(After(r)) # {}

\* A visit past "idle" has a link.
HasLink == \A v \in Redeemers : visit[v].pc # "idle" => visit[v].link \in Link

IInv == TypeOK /\ OneTransaction /\ HasChange /\ RowThere /\ Remains /\ HasLink /\ TeamKept
-------------------------------------------------------------------------------
(* What the operators do                                                      *)

\* Every request has one change or two.
LEMMA AskedIsChanges ==
  ASSUME NEW b \in Asked
  PROVE  b \in Seq(Change) /\ 1 \in 1..Len(b) /\ \A i \in 1..Len(b) : b[i] \in Change
<1>1. CASE \E c \in Change : b = <<c>>
  BY <1>1
<1>2. CASE \E c, d \in Change : b = <<c, d>>
  BY <1>2
<1> QED BY <1>1, <1>2 DEF Asked

\* A change leaves a row, or none.
LEMMA ChangedRow ==
  ASSUME NEW row \in Row, NEW c \in Change
  PROVE  Changed(row, c) \in Row \cup {None}
<1>1. CASE c \in [kind : {"role"}, to : {"admin", "editor"}]
  BY <1>1 DEF Changed, Row
<1>2. CASE c \in [kind : {"status"}, to : {"active", "disabled"}]
  BY <1>2 DEF Changed, Row
<1>3. CASE c \in [kind : {"permissions"}, to : {"edit", "less"}]
  BY <1>3 DEF Changed, Row
<1>4. CASE c \in [kind : {"delete"}, to : {"gone"}]
  BY <1>4 DEF Changed
<1> QED BY <1>1, <1>2, <1>3, <1>4 DEF Change

\* A new password leaves a row, and takes nobody's place in the team.
LEMMA PasswordKeepsHolder ==
  ASSUME NEW row \in Row, row.pwd < MaxPasswords
  PROVE  /\ PasswordSet(row) \in Row /\ [row EXCEPT !.pwd = @ + 1] \in Row
         /\ Holds(row) => Holds(PasswordSet(row)) /\ Holds([row EXCEPT !.pwd = @ + 1])
<1>1. row.pwd + 1 \in 0..MaxPasswords
  BY TeamAssumption DEF Row
<1>2. PasswordSet(row) \in Row /\ [row EXCEPT !.pwd = @ + 1] \in Row
  BY <1>1 DEF PasswordSet, Row
<1>3. PasswordSet(row) # None /\ [row EXCEPT !.pwd = @ + 1] # None
  BY <1>2, TeamAssumption
<1> QED BY <1>2, <1>3 DEF Holds, PasswordSet, Row

\* A table in which nobody has lost the team has its holders still.
LEMMA HoldersGrow ==
  ASSUME NEW before, NEW after, \A u \in Users : Holds(before[u]) => Holds(after[u])
  PROVE  Holders(before) # {} => Holders(after) # {}
BY DEF Holders
-------------------------------------------------------------------------------
(* Steps                                                                      *)

RequestRow == [pc : {"idle", "look", "check", "lock", "write", "remain", "commit"},
               user : Users \cup {None}, held : BOOLEAN, todo : Seq(Change), k : Nat]

\* A step of one request that writes no row keeps the invariant, if the request's new place does.
LEMMA QuietRequest ==
  ASSUME IInv, NEW r \in Requests, NEW q \in RequestRow,
         req' = [req EXCEPT ![r] = q], UNCHANGED <<users, visit>>,
         lock' \in Requests \cup {None},
         q.pc \in {"write", "remain", "commit"} => lock' = r,
         \A o \in Requests \ {r} : InTransaction(o) => lock' = o,
         q.pc # "idle" => /\ q.user \in Users /\ q.k \in 1..Len(q.todo)
                         /\ \A i \in 1..Len(q.todo) : q.todo[i] \in Change,
         q.pc \in {"remain", "commit"} => users[q.user] # None,
         q.pc = "commit" =>
           Holders([users EXCEPT ![q.user] = Changed(@, q.todo[q.k])]) # {}
  PROVE  IInv'
<1>1. /\ req'[r] = q /\ \A o \in Requests \ {r} : req'[o] = req[o]
  BY DEF IInv, TypeOK
<1>2. TypeOK'
  BY DEF IInv, TypeOK, RequestRow
<1>3. OneTransaction'
  BY <1>1 DEF IInv, OneTransaction, InTransaction
<1>4. HasChange'
  BY <1>1 DEF IInv, HasChange
<1>5. RowThere'
  BY <1>1 DEF IInv, RowThere
<1>6. Remains'
  <2> SUFFICES ASSUME NEW o \in Requests, req'[o].pc = "commit" PROVE Holders(After(o)') # {}
    BY DEF Remains, Holders
  <2>1. CASE o = r
    BY <2>1, <1>1 DEF After, Next1
  <2>2. CASE o # r
    BY <2>2, <1>1 DEF IInv, Remains, After, Next1
  <2> QED BY <2>1, <2>2
<1>7. HasLink' /\ TeamKept'
  BY DEF IInv, HasLink, TeamKept, Holders
<1> QED BY <1>2, <1>3, <1>4, <1>5, <1>6, <1>7 DEF IInv

\* A write of one row that nobody else has written, and that takes nobody's place, keeps it.
LEMMA OneRowGrows ==
  ASSUME IInv, NEW u \in Users, NEW row \in Row,
         users' = [users EXCEPT ![u] = row], UNCHANGED <<lock, req>>,
         Holds(users[u]) => Holds(row),
         \A r \in Requests : req[r].pc \in {"remain", "commit"} => req[r].user # u,
         HasLink',
         visit' \in [Redeemers -> [pc : {"idle", "status", "hash", "write"}, link : Link \cup {None}]]
  PROVE  IInv'
<1>1. \A w \in Users : Holds(users[w]) => Holds(users'[w])
  BY DEF IInv, TypeOK
<1>2. TypeOK'
  BY DEF IInv, TypeOK
<1>3. OneTransaction' /\ HasChange'
  BY DEF IInv, OneTransaction, InTransaction, HasChange
<1>4. RowThere'
  BY TeamAssumption DEF IInv, RowThere, HasChange, TypeOK
<1>5. Remains'
  <2> SUFFICES ASSUME NEW r \in Requests, req[r].pc = "commit" PROVE Holders(After(r)') # {}
    BY DEF Remains, Holders
  <2>1. req[r].user \in Users /\ req[r].user # u
    BY DEF IInv, HasChange
  <2>2. \A w \in Users : Holds(After(r)[w]) => Holds(After(r)'[w])
    BY <2>1, <1>1 DEF IInv, TypeOK, After, Next1
  <2> QED BY <2>2, HoldersGrow DEF IInv, Remains
<1>6. TeamKept'
  BY <1>1, HoldersGrow DEF IInv, TeamKept, Holders
<1> QED BY <1>2, <1>3, <1>4, <1>5, <1>6 DEF IInv

\* The first state: nobody is at work.
LEMMA InitIInv == Init => IInv
<1> SUFFICES ASSUME Init PROVE IInv
  OBVIOUS
<1>1. TypeOK
  BY TeamAssumption DEF Init, TypeOK, NoRequest, NoVisit, Row
<1>2. OneTransaction /\ HasChange /\ RowThere /\ Remains /\ HasLink /\ TeamKept
  BY DEF Init, OneTransaction, InTransaction, HasChange, RowThere, Remains, HasLink, TeamKept, NoRequest, NoVisit
<1> QED BY <1>1, <1>2 DEF IInv

\* A request that looks, waits, writes or counts.
LEMMA RequestSteps ==
  ASSUME IInv, NEW r \in Requests,
         \/ \E actor, u \in Users, todo \in Bodies : Arrive(r, actor, u, todo)
         \/ Look(r) \/ Check(r) \/ TakeLock(r) \/ Write(r) \/ Remain(r)
  PROVE  IInv'
<1>1. req[r] \in RequestRow /\ NoRequest \in RequestRow /\ NoRequest.pc = "idle"
  BY DEF IInv, TypeOK, RequestRow, NoRequest
<1>2. \A o \in Requests : InTransaction(o) => lock = o
  BY DEF IInv, OneTransaction
<1>3. lock \in Requests \cup {None} /\ None \notin Requests
  BY TeamAssumption DEF IInv, TypeOK
<1>4. req[r].pc # "idle" => /\ req[r].user \in Users /\ req[r].k \in 1..Len(req[r].todo)
                           /\ \A i \in 1..Len(req[r].todo) : req[r].todo[i] \in Change
  BY DEF IInv, HasChange
<1>12. Len(req[r].todo) \in Nat
  BY <1>1, LenProperties DEF RequestRow
<1>5. ASSUME NEW actor \in Users, NEW u \in Users, NEW todo \in Bodies, Arrive(r, actor, u, todo)
      PROVE  IInv'
  <2> DEFINE q == [pc |-> "look", user |-> u, held |-> FALSE, todo |-> todo, k |-> 1]
  <2>1. todo \in Seq(Change) /\ 1 \in 1..Len(todo) /\ \A i \in 1..Len(todo) : todo[i] \in Change
    BY AskedIsChanges, TeamAssumption
  <2>2. q \in RequestRow
    BY <2>1 DEF RequestRow
  <2> QED BY <1>2, <1>3, <1>5, <2>1, <2>2, QuietRequest DEF Arrive, KeepTeam
<1>6. ASSUME UNCHANGED <<users, visit>>, Done(r), lock' \in {lock, None}, lock' = None => lock \in {r, None}
      PROVE  IInv'
  <2>1. \A o \in Requests \ {r} : InTransaction(o) => lock' = o
    BY <1>2, <1>3, <1>6
  <2> QED BY <1>1, <1>3, <1>6, <2>1, QuietRequest DEF Done
<1>7. CASE Look(r)
  <2>1. CASE users[req[r].user] = None
    BY <2>1, <1>6, <1>7, <1>3 DEF Look, KeepTeam
  <2>2. CASE users[req[r].user] # None
    <3> DEFINE q == [req[r] EXCEPT !.pc = "check", !.held = Holds(users[req[r].user])]
    <3>1. q \in RequestRow
      BY <1>1 DEF RequestRow, Holds
    <3>2. req' = [req EXCEPT ![r] = q]
      BY <2>2, <1>7 DEF Look
    <3> QED BY <1>1, <1>2, <1>3, <1>4, <1>7, <3>1, <3>2, QuietRequest DEF Look, At, KeepTeam, RequestRow
  <2> QED BY <2>1, <2>2
<1>8. CASE Check(r)
  <2>1. CASE TakesTeam(Next1(r)) /\ WouldOrphanAdmins(req[r].held)
    BY <2>1, <1>6, <1>8, <1>3 DEF Check, KeepTeam
  <2>2. CASE ~(TakesTeam(Next1(r)) /\ WouldOrphanAdmins(req[r].held)) /\ req[r].k < Len(req[r].todo)
    <3> DEFINE q == [req[r] EXCEPT !.k = @ + 1]
    <3>1. q \in RequestRow /\ q.pc = "check" /\ q.user = req[r].user /\ q.todo = req[r].todo /\ q.k \in 1..Len(q.todo)
      BY <1>1, <1>4, <1>8, <2>2 DEF RequestRow, Check, At
    <3>2. req' = [req EXCEPT ![r] = q]
      BY <2>2, <1>8 DEF Check
    <3> HIDE DEF q
    <3> QED BY <1>2, <1>3, <1>4, <1>8, <3>1, <3>2, QuietRequest DEF Check, At, KeepTeam
  <2>3. CASE ~(TakesTeam(Next1(r)) /\ WouldOrphanAdmins(req[r].held)) /\ ~(req[r].k < Len(req[r].todo))
    <3> DEFINE q == [req[r] EXCEPT !.pc = "lock", !.held = FALSE, !.k = 1]
    <3>0. 1 \in 1..Len(req[r].todo)
      BY <1>4, <1>8, <1>12 DEF Check, At
    <3>1. q \in RequestRow /\ q.pc = "lock" /\ q.user = req[r].user /\ q.todo = req[r].todo /\ q.k \in 1..Len(q.todo)
      BY <1>1, <3>0 DEF RequestRow
    <3>2. req' = [req EXCEPT ![r] = q]
      BY <2>3, <1>8 DEF Check
    <3> HIDE DEF q
    <3> QED BY <1>2, <1>3, <1>4, <1>8, <3>1, <3>2, QuietRequest DEF Check, At, KeepTeam
  <2> QED BY <2>1, <2>2, <2>3
<1>9. CASE TakeLock(r)
  <2> DEFINE q == [req[r] EXCEPT !.pc = "write"]
  <2>1. /\ q \in RequestRow /\ q.pc = "write" /\ q.user = req[r].user /\ q.todo = req[r].todo /\ q.k = req[r].k
        /\ req' = [req EXCEPT ![r] = q] /\ req[r].pc # "idle"
    BY <1>1, <1>9 DEF RequestRow, TakeLock, Goto, At
  <2>2. \A o \in Requests \ {r} : InTransaction(o) => lock' = o
    BY <1>2, <1>3, <1>9 DEF TakeLock, LockFree
  <2> HIDE DEF q
  <2> QED BY <1>4, <1>9, <2>1, <2>2, QuietRequest DEF TakeLock, KeepTeam
<1>10. CASE Write(r)
  <2>1. lock = r
    BY <1>2, <1>10 DEF Write, At, InTransaction
  <2>2. CASE users[req[r].user] = None
    BY <2>1, <2>2, <1>6, <1>10 DEF Write, KeepTeam, Unlocked
  <2>3. CASE users[req[r].user] # None
    <3> DEFINE q == [req[r] EXCEPT !.pc = "remain"]
    <3>1. /\ q \in RequestRow /\ q.pc = "remain" /\ q.user = req[r].user /\ q.todo = req[r].todo /\ q.k = req[r].k
          /\ req' = [req EXCEPT ![r] = q] /\ req[r].pc # "idle"
      BY <1>1, <1>10, <2>3 DEF RequestRow, Write, Goto, At
    <3> HIDE DEF q
    <3> QED BY <1>2, <1>3, <1>4, <1>10, <2>1, <2>3, <3>1, QuietRequest DEF Write, KeepTeam
  <2> QED BY <2>2, <2>3
<1>11. CASE Remain(r)
  <2>1. lock = r /\ users[req[r].user] # None
    BY <1>2, <1>11 DEF Remain, At, InTransaction, IInv, RowThere
  <2>2. CASE ~AssertAdminsRemain(After(r))
    BY <2>1, <2>2, <1>6, <1>11 DEF Remain, KeepTeam, Unlocked
  <2>3. CASE AssertAdminsRemain(After(r))
    <3> DEFINE q == [req[r] EXCEPT !.pc = "commit"]
    <3>1. /\ q \in RequestRow /\ q.pc = "commit" /\ q.user = req[r].user /\ q.todo = req[r].todo /\ q.k = req[r].k
          /\ req' = [req EXCEPT ![r] = q] /\ req[r].pc # "idle"
      BY <1>1, <1>11, <2>3 DEF RequestRow, Remain, Goto, At
    <3>2. Holders([users EXCEPT ![q.user] = Changed(@, q.todo[q.k])]) # {}
      BY <2>3, <3>1 DEF AssertAdminsRemain, After, Next1
    <3> HIDE DEF q
    <3> QED BY <1>2, <1>3, <1>4, <1>11, <2>1, <2>3, <3>1, <3>2, QuietRequest DEF Remain, KeepTeam
  <2> QED BY <2>2, <2>3
<1> QED BY <1>5, <1>7, <1>8, <1>9, <1>10, <1>11

\* The commit: what was seen to remain, remains; nobody is in a transaction after it.
LEMMA CommitStep ==
  ASSUME IInv, NEW r \in Requests, Commit(r)
  PROVE  IInv'
<1>1. /\ req[r] \in RequestRow /\ req[r].user \in Users /\ req[r].k \in 1..Len(req[r].todo)
      /\ \A i \in 1..Len(req[r].todo) : req[r].todo[i] \in Change
  BY DEF IInv, TypeOK, RequestRow, HasChange, Commit, At
<1>10. Len(req[r].todo) \in Nat
  BY <1>1, LenProperties DEF RequestRow
<1>2. \A o \in Requests \ {r} : req'[o] = req[o] /\ ~InTransaction(o)
  BY DEF IInv, TypeOK, OneTransaction, InTransaction, Commit, At, Done
<1>3. /\ req'[r] \in RequestRow
      /\ req'[r].pc = "idle" \/ (req'[r].pc = "lock" /\ req'[r].user = req[r].user
                                 /\ req'[r].todo = req[r].todo /\ req'[r].k \in 1..Len(req[r].todo))
      /\ req' = [req EXCEPT ![r] = req'[r]]
  <2>1. CASE req[r].k < Len(req[r].todo)
    <3> DEFINE q == [req[r] EXCEPT !.pc = "lock", !.k = @ + 1]
    <3>1. q \in RequestRow /\ q.pc = "lock" /\ q.user = req[r].user /\ q.todo = req[r].todo /\ q.k \in 1..Len(req[r].todo)
      <4>1. req[r].k + 1 \in Nat /\ req[r].k + 1 \in 1..Len(req[r].todo)
        BY <1>1, <1>10, <2>1
      <4> QED BY <1>1, <4>1 DEF RequestRow
    <3>2. req' = [req EXCEPT ![r] = q]
      BY <2>1 DEF Commit
    <3> HIDE DEF q
    <3> QED BY <3>1, <3>2 DEF IInv, TypeOK
  <2>2. CASE ~(req[r].k < Len(req[r].todo))
    <3>1. req' = [req EXCEPT ![r] = NoRequest]
      BY <2>2 DEF Commit, Done
    <3>2. NoRequest \in RequestRow /\ NoRequest.pc = "idle"
      BY DEF RequestRow, NoRequest
    <3> QED BY <3>1, <3>2 DEF IInv, TypeOK
  <2> QED BY <2>1, <2>2
<1>4. After(r) \in [Users -> Row \cup {None}]
  <2>1. users[req[r].user] \in Row
    BY <1>1 DEF IInv, TypeOK, RowThere, Commit, At
  <2>2. Changed(users[req[r].user], Next1(r)) \in Row \cup {None}
    BY <1>1, <2>1, ChangedRow DEF Next1
  <2> QED BY <2>2 DEF After, IInv, TypeOK
<1>5. TypeOK'
  BY <1>3, <1>4 DEF Commit, Unlocked, IInv, TypeOK, RequestRow
<1>6. OneTransaction' /\ RowThere' /\ Remains'
  BY <1>2, <1>3 DEF OneTransaction, RowThere, Remains, InTransaction
<1>7. HasChange'
  BY <1>1, <1>2, <1>3 DEF IInv, HasChange
<1>8. HasLink'
  BY DEF IInv, HasLink, Commit
<1>9. TeamKept'
  BY DEF IInv, Remains, TeamKept, Commit, At, Holders
<1> QED BY <1>5, <1>6, <1>7, <1>8, <1>9 DEF IInv

\* A visit of a link.
LEMMA VisitSteps ==
  ASSUME IInv, NEW v \in Redeemers, Visit(v)
  PROVE  IInv'
<1>1. /\ visit[v].pc # "idle" => visit[v].link \in Link
      /\ visit \in [Redeemers -> [pc : {"idle", "status", "hash", "write"}, link : Link \cup {None}]]
      /\ NoVisit \in [pc : {"idle"}, link : {None}]
  BY DEF IInv, HasLink, TypeOK, NoVisit
<1>2. ASSUME UNCHANGED <<users, lock, req>>, HasLink',
             visit' \in [Redeemers -> [pc : {"idle", "status", "hash", "write"}, link : Link \cup {None}]]
      PROVE  IInv'
  <2>1. TypeOK' /\ OneTransaction' /\ HasChange' /\ RowThere'
    BY <1>2 DEF IInv, TypeOK, OneTransaction, InTransaction, HasChange, RowThere
  <2>2. Remains' /\ TeamKept'
    BY <1>2 DEF IInv, Remains, After, Next1, TeamKept, Holders
  <2> QED BY <1>2, <2>1, <2>2 DEF IInv
<1>3. ASSUME NEW u \in Users, NEW bind \in 0..MaxPasswords, OpenLink(v, u, bind) PROVE IInv'
  <2>1. HasLink' /\ visit' \in [Redeemers -> [pc : {"idle", "status", "hash", "write"}, link : Link \cup {None}]]
    BY <1>1, <1>3 DEF OpenLink, Link, IInv, HasLink
  <2> QED BY <1>2, <1>3, <2>1 DEF OpenLink, KeepRequests
<1>4. CASE CheckLink(v)
  <2>1. HasLink' /\ visit' \in [Redeemers -> [pc : {"idle", "status", "hash", "write"}, link : Link \cup {None}]]
    BY <1>1, <1>4 DEF CheckLink, IInv, HasLink
  <2> QED BY <1>2, <1>4, <2>1 DEF CheckLink, KeepRequests
<1>5. CASE SetPassword(v)
  <2> DEFINE u == visit[v].link.user
  <2>1. HasLink' /\ visit' \in [Redeemers -> [pc : {"idle", "status", "hash", "write"}, link : Link \cup {None}]]
    BY <1>1, <1>5 DEF SetPassword, IInv, HasLink
  <2>2. u \in Users
    BY <1>1, <1>5 DEF SetPassword, Link
  <2>3. CASE users[u] = None
    BY <1>2, <1>5, <2>1, <2>3 DEF SetPassword, KeepRequests
  <2>4. CASE users[u] # None
    <3>1. users[u] \in Row /\ users[u].pwd < MaxPasswords
      BY <1>5, <2>2, <2>4 DEF SetPassword, IInv, TypeOK
    <3>2. users' = [users EXCEPT ![u] = PasswordSet(users[u])]
      BY <1>5, <2>4 DEF SetPassword
    <3>3. PasswordSet(users[u]) \in Row /\ (Holds(users[u]) => Holds(PasswordSet(users[u])))
      BY <3>1, PasswordKeepsHolder
    <3>4. UNCHANGED <<lock, req>> /\ \A r \in Requests : req[r].pc \in {"remain", "commit"} => req[r].user # u
      BY <1>5 DEF SetPassword, KeepRequests, RowFree
    <3> HIDE DEF u
    <3> QED BY <2>1, <2>2, <3>2, <3>3, <3>4, OneRowGrows
  <2> QED BY <2>3, <2>4
<1> QED BY <1>3, <1>4, <1>5 DEF Visit

\* An invitation, and a password of one's own.
LEMMA OtherSteps ==
  ASSUME IInv, NEW u \in Users,
         \/ \E actor \in Users, role \in {"admin", "editor"} : Invite(actor, u, role)
         \/ SetOwnPassword(u)
  PROVE  IInv'
<1>1. UNCHANGED <<lock, req>> /\ HasLink'
      /\ visit' \in [Redeemers -> [pc : {"idle", "status", "hash", "write"}, link : Link \cup {None}]]
  BY DEF Invite, SetOwnPassword, KeepRequests, IInv, TypeOK, HasLink
<1>2. ASSUME NEW actor \in Users, NEW role \in {"admin", "editor"}, Invite(actor, u, role) PROVE IInv'
  <2> DEFINE new == [role |-> role, status |-> "invited", team |-> "byRole", pwd |-> 0]
  <2>1. new \in Row
    BY TeamAssumption DEF Row
  <2>2. ~Holds(users[u])
    BY <1>2 DEF Invite, Holds
  <2>3. \A r \in Requests : req[r].pc \in {"remain", "commit"} => req[r].user # u
    BY <1>2 DEF Invite, IInv, RowThere
  <2>4. users' = [users EXCEPT ![u] = new]
    BY <1>2 DEF Invite
  <2> HIDE DEF new
  <2> QED BY <1>1, <2>1, <2>2, <2>3, <2>4, OneRowGrows
<1>3. CASE SetOwnPassword(u)
  <2>1. users[u] \in Row /\ users[u].pwd < MaxPasswords
    BY <1>3 DEF SetOwnPassword, IInv, TypeOK
  <2> DEFINE new == [users[u] EXCEPT !.pwd = @ + 1]
  <2>2. new \in Row /\ (Holds(users[u]) => Holds(new))
    BY <2>1, PasswordKeepsHolder
  <2>3. users' = [users EXCEPT ![u] = new]
    BY <1>3 DEF SetOwnPassword
  <2>4. \A r \in Requests : req[r].pc \in {"remain", "commit"} => req[r].user # u
    BY <1>3 DEF SetOwnPassword, RowFree
  <2> HIDE DEF new
  <2> QED BY <1>1, <2>2, <2>3, <2>4, OneRowGrows
<1> QED BY <1>2, <1>3

LEMMA NextIInv == IInv /\ [Next]_vars => IInv'
<1> SUFFICES ASSUME IInv, [Next]_vars PROVE IInv'
  OBVIOUS
<1>1. ASSUME NEW r \in Requests, Request(r) PROVE IInv'
  BY <1>1, RequestSteps, CommitStep DEF Request
<1>2. ASSUME NEW v \in Redeemers, Visit(v) PROVE IInv'
  BY <1>2, VisitSteps
<1>3. ASSUME NEW actor \in Users, NEW u \in Users, NEW role \in {"admin", "editor"}, Invite(actor, u, role)
      PROVE  IInv'
  BY <1>3, OtherSteps
<1>4. ASSUME NEW u \in Users, SetOwnPassword(u) PROVE IInv'
  BY <1>4, OtherSteps
<1>5. CASE UNCHANGED vars
  BY <1>5 DEF vars, IInv, TypeOK, OneTransaction, InTransaction, HasChange, RowThere, Remains,
              After, Next1, HasLink, TeamKept, Holders
<1> QED BY <1>1, <1>2, <1>3, <1>4, <1>5 DEF Next
-------------------------------------------------------------------------------
(* What is proved                                                             *)

\* Every reachable state of the team's tables and requests is well typed.
THEOREM TypeCorrect == Spec => []TypeOK
<1>1. IInv => TypeOK
  BY DEF IInv
<1> QED BY InitIInv, NextIInv, <1>1, PTL DEF Spec

\* Whatever staff ask at the same moment, somebody can run the team (assertAdminsRemain under
\* TEAM_MUTATION_LOCK).
THEOREM TeamIsKept == Spec => []TeamKept
<1>1. IInv => TeamKept
  BY DEF IInv
<1> QED BY InitIInv, NextIInv, <1>1, PTL DEF Spec

\* A disabled user comes back only by a status change that a member of staff commits: no password
\* does it, though its link was checked before the user was disabled (setUserPassword).
THEOREM StaffReactivate == Spec => OnlyStaffReactivate
<1> DEFINE Back(u) == users[u] # None /\ users[u].status = "disabled"
                      /\ users'[u] # None /\ users'[u].status # "disabled"
           ByStaff == \E r \in Requests : At(r, "commit") /\ Next1(r).kind = "status" /\ req'[r] # req[r]
           Rule == \A u \in Users : Back(u) => ByStaff
<1>1. IInv /\ [Next]_vars => [Rule]_vars
  <2> SUFFICES ASSUME IInv, Next, NEW u \in Users, Back(u) PROVE ByStaff
    OBVIOUS
  <2>1. users'[u] # users[u]
    OBVIOUS
  <2>2. users[u] \in Row /\ users[u].status = "disabled" /\ users'[u].status # "disabled"
    BY DEF IInv, TypeOK
  <2>3. ASSUME NEW r \in Requests, Request(r) PROVE ByStaff
    <3>1. Commit(r)
      BY <2>1, <2>3 DEF Request, Arrive, Look, Check, TakeLock, Write, Remain, KeepTeam
    <3>2. users'[u] = Changed(users[u], Next1(r))
      BY <2>1, <3>1 DEF Commit, After, IInv, TypeOK
    <3>3. Next1(r).kind = "status"
      <4>1. CASE Next1(r).kind = "role"
        BY <2>2, <3>2, <4>1 DEF Changed, Row
      <4>2. CASE Next1(r).kind = "permissions"
        BY <2>2, <3>2, <4>2 DEF Changed, Row
      <4>3. CASE Next1(r).kind \notin {"role", "permissions", "status"}
        BY <3>2, <4>3 DEF Changed
      <4> QED
        BY <4>1, <4>2, <4>3
    <3>4. req'[r] # req[r]
      BY <3>1 DEF Commit, At, Goto, Done, NoRequest, IInv, TypeOK
    <3> QED
      BY <3>1, <3>3, <3>4 DEF Commit
  <2>4. ASSUME NEW v \in Redeemers, Visit(v) PROVE FALSE
    <3>1. SetPassword(v) /\ u = visit[v].link.user /\ users'[u] = PasswordSet(users[u])
      BY <2>1, <2>4 DEF Visit, OpenLink, CheckLink, SetPassword, IInv, TypeOK
    <3> QED
      BY <2>2, <3>1 DEF PasswordSet, Row
  <2>5. ASSUME NEW actor \in Users, NEW w \in Users, NEW role \in {"admin", "editor"}, Invite(actor, w, role)
        PROVE  FALSE
    BY <2>1, <2>5 DEF Invite, IInv, TypeOK
  <2>6. ASSUME NEW w \in Users, SetOwnPassword(w) PROVE FALSE
    BY <2>1, <2>2, <2>6 DEF SetOwnPassword, IInv, TypeOK
  <2> QED
    BY <2>3, <2>4, <2>5, <2>6 DEF Next
<1> QED
  BY InitIInv, NextIInv, <1>1, PTL DEF Spec, OnlyStaffReactivate
===============================================================================
