------------------------- MODULE TicketSales_proofs -------------------------
(***************************************************************************)
(* Proofs about TicketSales, for any number of orders, types, limits and   *)
(* times: type correctness, that a buyer who can pay still has their       *)
(* places, that a cancelled or expired order is never paid, that the event *)
(* is never oversold, and that the caps on open checkouts hold.            *)
(***************************************************************************)
EXTENDS TicketSales, SumTheorems, TLAPS

\* Where an order is, from where its request is: nothing of it exists before its transaction
\* commits, and Stripe has no checkout for it before the request asks for one.
Flow ==
  \A o \in Orders :
    /\ pc[o] \in {"idle", "supersede", "begun", "reserved"} => status[o] = "none"
    /\ pc[o] \in {"idle", "supersede", "begun", "reserved", "confirm", "create"} => session[o] = "none"
    /\ status[o] \in {"none", "pending", "expired"} => \A t \in Types : refunded[o][t] = 0
    /\ url[o] => pc[o] = "done"
    /\ session[o] # "none" \/ pc[o] \in {"create", "attach", "close", "reply"} => ~Free(o)

\* A checkout a buyer may be sent to: its order holds its places for longer than it is open.
Backed ==
  \A o \in Orders :
    /\ closesAt[o] <= clock + CheckoutTime
    /\ session[o] = "open" /\ (url[o] \/ pc[o] = "reply") =>
         status[o] = "pending" /\ attached[o] /\ closesAt[o] <= holdExpiresAt[o]

\* An older checkout a request has closed stays closed.
ClosedFirst ==
  \A r \in Orders : \A e \in older[r] : e.session = "closed" => session[e.order] = "expired"

\* A payment is of an order still pending, or already recorded.
PaidFor ==
  \A o \in Orders :
    /\ session[o] = "complete" => status[o] \in {"pending", "paid"} /\ attached[o] /\ pc[o] = "done"
    /\ hook[o] # "idle" => session[o] = "complete"

IInv == TypeOK /\ Flow /\ Backed /\ ClosedFirst /\ PaidFor

LEMMA InitIInv == Init => IInv
<1> SUFFICES ASSUME Init PROVE IInv
  OBVIOUS
<1> USE DEF Init
<1>1. TypeOK
  <2>1. salesLimit \in Nat \cup {NoLimit} /\ quantity \in [Types -> Nat \cup {NoLimit}]
    BY LimitsAssumption
  <2>2. \A o \in Orders : \A t \in Types : refunded[o][t] <= lines[o][t]
    OBVIOUS
  <2>3. lines \in [Orders -> [Types -> Nat]] /\ refunded \in [Orders -> [Types -> Nat]]
    OBVIOUS
  <2>4. QED
    BY <2>1, <2>2, <2>3 DEF TypeOK, Statuses, Sessions, Steps, Lateness
<1>2. Flow /\ Backed /\ ClosedFirst /\ PaidFor
  BY TimesAssumption DEF Flow, Backed, ClosedFirst, PaidFor
<1>3. QED
  BY <1>1, <1>2 DEF IInv

(* Each action keeps IInv                                                    *)

USE DEF eventVars, orderVars, stripeVars, requestVars, hookVars

LEMMA StartCheckoutIInv ==
  ASSUME IInv, NEW r \in Orders, NEW want \in Wants, StartCheckout(r, want)
  PROVE  IInv'
<1> USE DEF IInv, StartCheckout, Goto
<1>1. TypeOK'
  <2>1. lines' \in [Orders -> [Types -> Nat]]
    BY TypesAssumption DEF TypeOK
  <2>2. older' \in [Orders -> SUBSET Older]
    BY DEF TypeOK, Older
  <2>3. \A o \in Orders : \A t \in Types : refunded'[o][t] <= lines'[o][t]
    BY TypesAssumption DEF TypeOK, Flow
  <2>4. pc' \in [Orders -> Steps]
    BY DEF TypeOK, Steps
  <2> QED
    BY <2>1, <2>2, <2>3, <2>4 DEF TypeOK
<1>2. Flow'
  BY DEF TypeOK, Flow, Older, Pending, Free
<1>3. Backed' /\ ClosedFirst' /\ PaidFor'
  BY DEF Backed, ClosedFirst, PaidFor
<1> QED
  BY <1>1, <1>2, <1>3

LEMMA ClosedOlder ==
  ASSUME NEW e \in Older
  PROVE  [e EXCEPT !.session = "closed"] \in Older
BY DEF Older

LEMMA CloseOlderSessionIInv ==
  ASSUME IInv, NEW r \in Orders, NEW e \in older[r], CloseOlderSession(r, e)
  PROVE  IInv'
<1> DEFINE closed == [e EXCEPT !.session = "closed"]
<1>1. e \in Older
  BY DEF IInv, TypeOK
<1>2. closed \in Older /\ closed.order = e.order
  BY <1>1, ClosedOlder DEF Older
<1>3. \/ /\ session' = [session EXCEPT ![e.order] = "expired"]
         /\ \/ older' = [older EXCEPT ![r] = (older[r] \ {e}) \cup {closed}]
            \/ older' = [older EXCEPT ![r] = older[r] \ {e}]
      \/ session' = session /\ older' = [older EXCEPT ![r] = older[r] \ {e}]
  BY DEF CloseOlderSession
<1> HIDE DEF closed
<1>4. TypeOK'
  <2>1. session' \in [Orders -> Sessions]
    BY <1>1, <1>3 DEF IInv, TypeOK, Sessions, Older
  <2>2. older' \in [Orders -> SUBSET Older]
    <3>1. older \in [Orders -> SUBSET Older]
      BY DEF IInv, TypeOK
    <3>2. (older[r] \ {e}) \cup {closed} \in SUBSET Older /\ older[r] \ {e} \in SUBSET Older
      BY <3>1, <1>2
    <3> QED
      BY <3>1, <3>2, <1>3
  <2> QED
    BY <2>1, <2>2 DEF IInv, TypeOK, CloseOlderSession
<1>5. ClosedFirst'
  <2> SUFFICES ASSUME NEW p \in Orders, NEW f \in older'[p], f.session = "closed"
               PROVE  session'[f.order] = "expired"
    BY DEF ClosedFirst
  <2>1. e.order \in Orders
    BY <1>1 DEF Older
  <2>2. CASE f \in older[p]
    <3>1. f.order \in Orders
      BY <2>2 DEF IInv, TypeOK, Older
    <3>2. session[f.order] = "expired"
      BY <2>2 DEF IInv, ClosedFirst
    <3> QED
      BY <1>3, <2>1, <3>1, <3>2 DEF IInv, TypeOK
  <2>3. CASE f \notin older[p]
    <3>1. f = closed /\ session' = [session EXCEPT ![e.order] = "expired"]
      <4>1. older \in [Orders -> SUBSET Older]
        BY DEF IInv, TypeOK
      <4>2. f \in older[p] \cup {closed}
        BY <1>3, <4>1
      <4>3. older' # [older EXCEPT ![r] = older[r] \ {e}]
        BY <2>3, <4>1
      <4> QED
        BY <1>3, <2>3, <4>2, <4>3
    <3> QED
      BY <3>1, <1>2, <2>1 DEF IInv, TypeOK
  <2> QED
    BY <2>2, <2>3
<1> USE DEF IInv, CloseOlderSession, Goto
<1>6. Flow'
  BY DEF TypeOK, Flow, Free
<1>7. Backed'
  BY DEF TypeOK, Backed
<1>8. PaidFor'
  BY DEF TypeOK, PaidFor
<1> QED
  BY <1>4, <1>5, <1>6, <1>7, <1>8

LEMMA SupersedeOrderIInv ==
  ASSUME IInv, NEW r \in Orders, NEW e \in older[r], SupersedeOrder(r, e)
  PROVE  IInv'
<1> USE DEF IInv, SupersedeOrder, Goto
<1>0. e \in Older
  BY DEF TypeOK
<1>1. TypeOK'
  BY DEF TypeOK, Statuses
<1>2. Flow'
  BY DEF TypeOK, Flow, Older, SessionAsRead, RowFree, Free
<1>3. Backed'
  BY TimesAssumption DEF TypeOK, Backed, ClosedFirst, Older, SessionAsRead, RowFree
<1>4. PaidFor'
  <2>1. ASSUME status[e.order] = "pending", SessionAsRead(e) PROVE session[e.order] # "complete"
    BY <1>0, <2>1 DEF SessionAsRead, PaidFor, ClosedFirst, Older, TypeOK
  <2> QED
    BY <1>0, <2>1 DEF PaidFor, TypeOK, Older
<1>5. ClosedFirst'
  BY DEF ClosedFirst
<1> QED
  BY <1>1, <1>2, <1>3, <1>4, <1>5

LEMMA BeginReserveIInv ==
  ASSUME IInv, NEW r \in Orders, BeginReserve(r)
  PROVE  IInv'
<1> USE DEF IInv, BeginReserve, Goto
<1>1. TypeOK'
  BY DEF TypeOK, Steps
<1>2. Flow'
  BY DEF TypeOK, Flow, Free
<1>3. Backed' /\ ClosedFirst' /\ PaidFor'
  BY DEF Backed, ClosedFirst, PaidFor
<1> QED
  BY <1>1, <1>2, <1>3

LEMMA ReserveIInv ==
  ASSUME IInv, NEW r \in Orders, Reserve(r)
  PROVE  IInv'
<1> USE DEF IInv, Reserve, Goto
<1>1. TypeOK'
  BY DEF TypeOK, Steps
<1>2. Flow'
  BY DEF TypeOK, Flow, Free
<1>3. Backed'
  BY DEF TypeOK, Backed
<1>4. PaidFor'
  BY DEF TypeOK, PaidFor
<1>5. ClosedFirst'
  BY DEF ClosedFirst
<1> QED
  BY <1>1, <1>2, <1>3, <1>4, <1>5

LEMMA CommitReserveIInv ==
  ASSUME IInv, NEW r \in Orders, CommitReserve(r)
  PROVE  IInv'
<1> USE DEF IInv, CommitReserve, Goto
<1>1. TypeOK'
  BY TimesAssumption DEF TypeOK, Steps, Statuses
<1>2. Flow'
  BY DEF TypeOK, Flow, Free
<1>3. Backed'
  BY TimesAssumption DEF TypeOK, Flow, Backed, Free
<1>4. ClosedFirst' /\ PaidFor'
  BY DEF ClosedFirst, PaidFor
<1> QED
  BY <1>1, <1>2, <1>3, <1>4

LEMMA ConfirmFreeOrderIInv ==
  ASSUME IInv, NEW r \in Orders, ConfirmFreeOrder(r)
  PROVE  IInv'
<1> USE DEF IInv, ConfirmFreeOrder, Goto
<1>1. TypeOK'
  BY DEF TypeOK, Steps, Statuses
<1>2. Flow'
  BY DEF TypeOK, Flow, Free
<1>3. Backed'
  BY TimesAssumption DEF TypeOK, Flow, Backed, Free
<1>4. PaidFor'
  BY DEF TypeOK, PaidFor
<1>5. ClosedFirst'
  BY DEF ClosedFirst
<1> QED
  BY <1>1, <1>2, <1>3, <1>4, <1>5

LEMMA CreateSessionIInv ==
  ASSUME IInv, NEW r \in Orders, CreateSession(r)
  PROVE  IInv'
<1> DEFINE closes == clock + CheckoutTime
<1>0. closes \in Nat
  BY TimesAssumption DEF IInv, TypeOK
<1>1. session' \in [Orders -> Sessions] /\ pc' \in [Orders -> Steps]
  BY DEF IInv, TypeOK, CreateSession, Goto, Sessions, Steps
<1>2. closesAt' = [closesAt EXCEPT ![r] = closes] \/ closesAt' = closesAt
  BY DEF CreateSession
<1> HIDE DEF closes
<1>3. closesAt' \in [Orders -> Nat]
  BY <1>0, <1>2 DEF IInv, TypeOK
<1>4. TypeOK'
  BY <1>1, <1>3 DEF IInv, TypeOK, CreateSession
<1>5. Backed'
  <2>1. \A o \in Orders : closesAt'[o] <= clock + CheckoutTime
    <3>1. \A o \in Orders : closesAt[o] <= closes
      BY DEF IInv, Backed, closes
    <3>2. closesAt \in [Orders -> Nat]
      BY DEF IInv, TypeOK
    <3>3. \A o \in Orders : closesAt'[o] <= closes
      BY <1>0, <1>2, <3>1, <3>2
    <3> QED
      BY <3>3 DEF closes
  <2>2. \A o \in Orders : session'[o] = "open" /\ (url[o] \/ pc'[o] = "reply") => o # r
    BY DEF IInv, TypeOK, Flow, CreateSession, Goto
  <2>3. \A o \in Orders \ {r} : session'[o] = session[o] /\ pc'[o] = pc[o] /\ closesAt'[o] = closesAt[o]
    BY <1>2 DEF IInv, TypeOK, CreateSession, Goto
  <2> QED
    BY <2>1, <2>2, <2>3 DEF IInv, Backed, CreateSession
<1> USE DEF IInv, CreateSession, Goto
<1>6. Flow'
  BY DEF TypeOK, Flow, Free
<1>7. ClosedFirst'
  BY DEF TypeOK, Flow, ClosedFirst, Older
<1>8. PaidFor'
  BY DEF TypeOK, PaidFor
<1> QED
  BY <1>4, <1>5, <1>6, <1>7, <1>8

LEMMA AttachSessionIInv ==
  ASSUME IInv, NEW r \in Orders, AttachSession(r)
  PROVE  IInv'
<1>1. AttachedUntil \in Nat
  BY TimesAssumption DEF IInv, TypeOK, AttachedUntil
<1>2. holdExpiresAt' \in [Orders -> Nat] /\ attached' \in [Orders -> BOOLEAN]
  BY <1>1 DEF IInv, TypeOK, AttachSession
<1>3. TypeOK'
  BY <1>2 DEF IInv, TypeOK, AttachSession, Goto, Steps
<1> USE DEF IInv, AttachSession, Goto
<1>4. Flow'
  BY DEF TypeOK, Flow, MayAttach, AttachedUntil, Pending, RowFree, Free
<1>5. Backed'
  BY TimesAssumption DEF TypeOK, Backed, MayAttach, AttachedUntil, Pending, RowFree
<1>6. PaidFor'
  BY DEF TypeOK, PaidFor
<1>7. ClosedFirst'
  BY DEF ClosedFirst
<1> QED
  BY <1>3, <1>4, <1>5, <1>6, <1>7

LEMMA CloseLateSessionIInv ==
  ASSUME IInv, NEW r \in Orders, CloseLateSession(r)
  PROVE  IInv'
<1> USE DEF IInv, CloseLateSession, Goto
<1>1. TypeOK'
  BY DEF TypeOK, Steps, Sessions
<1>2. Flow'
  BY DEF TypeOK, Flow, Free
<1>3. Backed'
  BY DEF TypeOK, Backed
<1>4. ClosedFirst'
  BY DEF TypeOK, ClosedFirst, Older
<1>5. PaidFor'
  BY DEF TypeOK, PaidFor
<1> QED
  BY <1>1, <1>2, <1>3, <1>4, <1>5

LEMMA CancelPendingOrderIInv ==
  ASSUME IInv, NEW r \in Orders, CancelPendingOrder(r)
  PROVE  IInv'
<1> USE DEF IInv, CancelPendingOrder, Goto
<1>1. TypeOK'
  BY DEF TypeOK, Steps, Statuses
<1>2. Flow'
  BY DEF TypeOK, Flow, RowFree, Free
<1>3. Backed'
  BY TimesAssumption DEF TypeOK, Flow, Backed, RowFree
<1>4. PaidFor'
  BY DEF TypeOK, PaidFor
<1>5. ClosedFirst'
  BY DEF ClosedFirst
<1> QED
  BY <1>1, <1>2, <1>3, <1>4, <1>5

LEMMA ReplyIInv ==
  ASSUME IInv, NEW r \in Orders, Reply(r)
  PROVE  IInv'
<1> USE DEF IInv, Reply, Goto
<1>1. TypeOK'
  BY DEF TypeOK, Steps
<1>2. Flow'
  BY DEF TypeOK, Flow, Free
<1>3. Backed' /\ ClosedFirst' /\ PaidFor'
  BY DEF Backed, ClosedFirst, PaidFor
<1> QED
  BY <1>1, <1>2, <1>3

LEMMA CrashIInv ==
  ASSUME IInv, NEW r \in Orders, Crash(r)
  PROVE  IInv'
<1> USE DEF IInv, Crash, Goto
<1>1. TypeOK'
  BY DEF TypeOK, Steps
<1>2. Flow'
  BY DEF TypeOK, Flow, Free
<1>3. Backed' /\ ClosedFirst' /\ PaidFor'
  BY DEF Backed, ClosedFirst, PaidFor
<1> QED
  BY <1>1, <1>2, <1>3

LEMMA PayIInv ==
  ASSUME IInv, NEW o \in Orders, Pay(o)
  PROVE  IInv'
<1> USE DEF IInv, Pay, Goto
<1>1. TypeOK'
  BY DEF TypeOK, Sessions
<1>2. Flow'
  BY DEF TypeOK, Flow, Free
<1>3. PaidFor'
  BY DEF TypeOK, Flow, Backed, ClosedFirst, PaidFor
<1>4. Backed' /\ ClosedFirst'
  BY DEF Backed, ClosedFirst
<1> QED
  BY <1>1, <1>2, <1>3, <1>4

LEMMA SessionClosesIInv ==
  ASSUME IInv, NEW o \in Orders, SessionCloses(o)
  PROVE  IInv'
<1> USE DEF IInv, SessionCloses, Goto
<1>1. TypeOK'
  BY DEF TypeOK, Sessions
<1>2. Flow'
  BY DEF TypeOK, Flow, Free
<1>3. Backed' /\ ClosedFirst' /\ PaidFor'
  BY DEF Backed, ClosedFirst, PaidFor
<1> QED
  BY <1>1, <1>2, <1>3

LEMMA HookBeginIInv ==
  ASSUME IInv, NEW o \in Orders, HookBegin(o)
  PROVE  IInv'
<1> USE DEF IInv, HookBegin, Goto
<1>1. Flow'
  BY DEF TypeOK, Flow, Free
<1>2. TypeOK' /\ Backed' /\ ClosedFirst' /\ PaidFor'
  BY DEF TypeOK, Backed, ClosedFirst, PaidFor
<1> QED
  BY <1>1, <1>2

LEMMA MarkOrderPaidIInv ==
  ASSUME IInv, NEW o \in Orders, MarkOrderPaid(o)
  PROVE  IInv'
<1> USE DEF IInv, MarkOrderPaid, Goto
<1>1. TypeOK'
  BY DEF TypeOK, Lateness
<1>2. Flow'
  BY DEF TypeOK, Flow, Free
<1>3. Backed' /\ ClosedFirst' /\ PaidFor'
  BY DEF Backed, ClosedFirst, PaidFor
<1> QED
  BY <1>1, <1>2, <1>3

LEMMA HookCommitIInv ==
  ASSUME IInv, NEW o \in Orders, HookCommit(o)
  PROVE  IInv'
<1> USE DEF IInv, HookCommit, Goto
<1>1. TypeOK'
  <2>1. status' \in [Orders -> Statuses] /\ attached' \in [Orders -> BOOLEAN]
    BY DEF TypeOK, Statuses
  <2>2. paidLate' \in [Orders -> Lateness]
    BY DEF TypeOK
  <2>3. hookLate' \in [Orders -> Lateness] /\ hook' \in [Orders -> {"idle", "begun", "marked"}]
    BY DEF TypeOK, Lateness
  <2>4. ledger' \subseteq Orders
    BY DEF TypeOK
  <2> QED
    BY <2>1, <2>2, <2>3, <2>4 DEF TypeOK
<1>2. Flow'
  <2>1. pc[o] = "done"
    BY DEF PaidFor
  <2>2. UNCHANGED <<pc, session, refunded, url, lines>> /\ \A x \in Orders \ {o} : status'[x] = status[x]
    BY DEF TypeOK, eventVars, stripeVars, requestVars
  <2>3. status'[o] = "paid" /\ \A x \in Orders : Free(x)' <=> Free(x)
    BY <2>2 DEF TypeOK, Free
  <2> QED
    BY <2>1, <2>2, <2>3 DEF Flow
<1>3. Backed'
  <2>1. session[o] = "complete"
    BY DEF PaidFor
  <2>2. UNCHANGED <<clock, closesAt, session, url, pc, holdExpiresAt>>
    BY DEF stripeVars, requestVars
  <2>3. \A x \in Orders \ {o} : status'[x] = status[x] /\ attached'[x] = attached[x]
    BY DEF TypeOK
  <2> QED
    BY <2>1, <2>2, <2>3 DEF Backed
<1>4. PaidFor'
  BY DEF TypeOK, PaidFor
<1>5. ClosedFirst'
  BY DEF ClosedFirst
<1> QED
  BY <1>1, <1>2, <1>3, <1>4, <1>5

LEMMA HookAbortIInv ==
  ASSUME IInv, NEW o \in Orders, HookAbort(o)
  PROVE  IInv'
<1> USE DEF IInv, HookAbort, Goto
<1>1. TypeOK'
  BY DEF TypeOK, Lateness
<1>2. Flow'
  BY DEF TypeOK, Flow, Free
<1>3. Backed' /\ ClosedFirst' /\ PaidFor'
  BY DEF Backed, ClosedFirst, PaidFor
<1> QED
  BY <1>1, <1>2, <1>3

LEMMA MarkOrderExpiredIInv ==
  ASSUME IInv, NEW o \in Orders, MarkOrderExpired(o)
  PROVE  IInv'
<1> USE DEF IInv, MarkOrderExpired, Goto
<1>1. TypeOK'
  BY DEF TypeOK, Statuses
<1>2. Flow'
  <2>1. CASE status[o] = "pending"
    BY <2>1 DEF TypeOK, Flow, Free
  <2>2. CASE status[o] # "pending"
    BY <2>2 DEF TypeOK, Flow, Free
  <2> QED
    BY <2>1, <2>2
<1>3. Backed'
  BY DEF TypeOK, Backed
<1>4. PaidFor'
  BY DEF TypeOK, PaidFor
<1>5. ClosedFirst'
  BY DEF ClosedFirst
<1> QED
  BY <1>1, <1>2, <1>3, <1>4, <1>5

LEMMA EditTypeIInv ==
  ASSUME IInv, NEW t \in Types, NEW q \in Quantities, EditType(t, q)
  PROVE  IInv'
<1> USE DEF IInv, EditType, StaffChange, Goto
<1>1. TypeOK'
  BY LimitsAssumption DEF TypeOK
<1>2. Flow'
  BY DEF TypeOK, Flow, Free
<1>3. Backed' /\ ClosedFirst' /\ PaidFor'
  BY DEF Backed, ClosedFirst, PaidFor
<1> QED
  BY <1>1, <1>2, <1>3

LEMMA SetSalesLimitIInv ==
  ASSUME IInv, NEW l \in Limits, SetSalesLimit(l)
  PROVE  IInv'
<1> USE DEF IInv, SetSalesLimit, StaffChange, Goto
<1>1. TypeOK'
  BY LimitsAssumption DEF TypeOK
<1>2. Flow'
  BY DEF TypeOK, Flow, Free
<1>3. Backed' /\ ClosedFirst' /\ PaidFor'
  BY DEF Backed, ClosedFirst, PaidFor
<1> QED
  BY <1>1, <1>2, <1>3

LEMMA SetTypeStatusIInv ==
  ASSUME IInv, NEW t \in Types, SetTypeStatus(t)
  PROVE  IInv'
<1> USE DEF IInv, SetTypeStatus, StaffChange, Goto
<1>1. Flow'
  BY DEF TypeOK, Flow, Free
<1>2. TypeOK' /\ Backed' /\ ClosedFirst' /\ PaidFor'
  BY DEF TypeOK, Backed, ClosedFirst, PaidFor
<1> QED
  BY <1>1, <1>2

LEMMA SetSalesClosedIInv ==
  ASSUME IInv, NEW closed \in BOOLEAN, SetSalesClosed(closed)
  PROVE  IInv'
<1> USE DEF IInv, SetSalesClosed, StaffChange, Goto
<1>1. Flow'
  BY DEF TypeOK, Flow, Free
<1>2. TypeOK' /\ Backed' /\ ClosedFirst' /\ PaidFor'
  BY DEF TypeOK, Backed, ClosedFirst, PaidFor
<1> QED
  BY <1>1, <1>2

LEMMA CancelFreeBookingIInv ==
  ASSUME IInv, NEW o \in Orders, CancelFreeBooking(o)
  PROVE  IInv'
<1> USE DEF IInv, CancelFreeBooking, StaffChange, Goto
<1>1. TypeOK'
  BY DEF TypeOK, Statuses
<1>2. Flow'
  BY DEF TypeOK, Flow, RowFree, Free
<1>3. PaidFor'
  <2>1. session[o] = "none"
    BY DEF Flow
  <2> QED
    BY <2>1 DEF TypeOK, PaidFor
<1>4. Backed' /\ ClosedFirst'
  BY DEF Backed, ClosedFirst
<1> QED
  BY <1>1, <1>2, <1>3, <1>4

LEMMA ReleaseTicketsIInv ==
  ASSUME IInv, NEW o \in Orders, NEW t \in Types, ReleaseTickets(o, t)
  PROVE  IInv'
<1>1. refunded' \in [Orders -> [Types -> Nat]] /\ \A p \in Orders : \A u \in Types : refunded'[p][u] <= lines[p][u]
  <2> DEFINE more == [refunded[o] EXCEPT ![t] = refunded[o][t] + 1]
  <2>0. refunded[o][t] \in Nat /\ lines[o][t] \in Nat
    BY DEF IInv, TypeOK
  <2>1. refunded[o][t] + 1 <= lines[o][t]
    BY <2>0 DEF ReleaseTickets, HasTicket, Standing
  <2>2. more \in [Types -> Nat] /\ \A u \in Types : more[u] <= lines[o][u]
    BY <2>0, <2>1 DEF IInv, TypeOK
  <2>3. refunded' = [refunded EXCEPT ![o] = more]
    BY DEF ReleaseTickets
  <2> HIDE DEF more
  <2> QED
    BY <2>2, <2>3 DEF IInv, TypeOK
<1>2. TypeOK'
  BY <1>1 DEF IInv, TypeOK, ReleaseTickets, StaffChange
<1> USE DEF IInv, ReleaseTickets, StaffChange, Goto
<1>3. Flow'
  BY DEF TypeOK, Flow, RowFree, HasTicket, Free
<1>4. Backed' /\ ClosedFirst' /\ PaidFor'
  BY DEF Backed, ClosedFirst, PaidFor
<1> QED
  BY <1>2, <1>3, <1>4

LEMMA TickIInv ==
  ASSUME IInv, Tick
  PROVE  IInv'
<1> USE DEF IInv, Tick, Goto
<1>1. Flow'
  BY DEF TypeOK, Flow, Pending, Free
<1>2. Backed'
  BY TimesAssumption DEF TypeOK, Backed, Pending
<1>3. TypeOK' /\ ClosedFirst' /\ PaidFor'
  BY DEF TypeOK, ClosedFirst, PaidFor
<1> QED
  BY <1>1, <1>2, <1>3

LEMMA NextIInv == IInv /\ [Next]_vars => IInv'
<1> SUFFICES ASSUME IInv, [Next]_vars PROVE IInv'
  OBVIOUS
<1>1. ASSUME NEW r \in Orders, NEW want \in Wants, StartCheckout(r, want) PROVE IInv'
  BY <1>1, StartCheckoutIInv
<1>2. ASSUME NEW r \in Orders, NEW e \in older[r], CloseOlderSession(r, e) PROVE IInv'
  BY <1>2, CloseOlderSessionIInv
<1>3. ASSUME NEW r \in Orders, NEW e \in older[r], SupersedeOrder(r, e) PROVE IInv'
  BY <1>3, SupersedeOrderIInv
<1>4. ASSUME NEW r \in Orders, BeginReserve(r) PROVE IInv'
  BY <1>4, BeginReserveIInv
<1>5. ASSUME NEW r \in Orders, Reserve(r) PROVE IInv'
  BY <1>5, ReserveIInv
<1>6. ASSUME NEW r \in Orders, CommitReserve(r) PROVE IInv'
  BY <1>6, CommitReserveIInv
<1>7. ASSUME NEW r \in Orders, ConfirmFreeOrder(r) PROVE IInv'
  BY <1>7, ConfirmFreeOrderIInv
<1>8. ASSUME NEW r \in Orders, CreateSession(r) PROVE IInv'
  BY <1>8, CreateSessionIInv
<1>9. ASSUME NEW r \in Orders, AttachSession(r) PROVE IInv'
  BY <1>9, AttachSessionIInv
<1>10. ASSUME NEW r \in Orders, CloseLateSession(r) PROVE IInv'
  BY <1>10, CloseLateSessionIInv
<1>11. ASSUME NEW r \in Orders, CancelPendingOrder(r) PROVE IInv'
  BY <1>11, CancelPendingOrderIInv
<1>12. ASSUME NEW r \in Orders, Reply(r) PROVE IInv'
  BY <1>12, ReplyIInv
<1>13. ASSUME NEW r \in Orders, Crash(r) PROVE IInv'
  BY <1>13, CrashIInv
<1>14. ASSUME NEW o \in Orders, Pay(o) PROVE IInv'
  BY <1>14, PayIInv
<1>15. ASSUME NEW o \in Orders, SessionCloses(o) PROVE IInv'
  BY <1>15, SessionClosesIInv
<1>16. ASSUME NEW o \in Orders, HookBegin(o) PROVE IInv'
  BY <1>16, HookBeginIInv
<1>17. ASSUME NEW o \in Orders, MarkOrderPaid(o) PROVE IInv'
  BY <1>17, MarkOrderPaidIInv
<1>18. ASSUME NEW o \in Orders, HookCommit(o) PROVE IInv'
  BY <1>18, HookCommitIInv
<1>19. ASSUME NEW o \in Orders, HookAbort(o) PROVE IInv'
  BY <1>19, HookAbortIInv
<1>20. ASSUME NEW o \in Orders, MarkOrderExpired(o) PROVE IInv'
  BY <1>20, MarkOrderExpiredIInv
<1>21. ASSUME NEW t \in Types, NEW q \in Quantities, EditType(t, q) PROVE IInv'
  BY <1>21, EditTypeIInv
<1>22. ASSUME NEW l \in Limits, SetSalesLimit(l) PROVE IInv'
  BY <1>22, SetSalesLimitIInv
<1>23. ASSUME NEW t \in Types, SetTypeStatus(t) PROVE IInv'
  BY <1>23, SetTypeStatusIInv
<1>24. ASSUME NEW closed \in BOOLEAN, SetSalesClosed(closed) PROVE IInv'
  BY <1>24, SetSalesClosedIInv
<1>25. ASSUME NEW o \in Orders, CancelFreeBooking(o) PROVE IInv'
  BY <1>25, CancelFreeBookingIInv
<1>26. ASSUME NEW o \in Orders, NEW t \in Types, ReleaseTickets(o, t) PROVE IInv'
  BY <1>26, ReleaseTicketsIInv
<1>27. CASE Tick
  BY <1>27, TickIInv
<1>28. CASE UNCHANGED vars
  BY <1>28 DEF vars, IInv, TypeOK, Flow, Backed, ClosedFirst, PaidFor, Free
<1> QED
  BY <1>1, <1>2, <1>3, <1>4, <1>5, <1>6, <1>7, <1>8, <1>9, <1>10, <1>11, <1>12, <1>13, <1>14,
     <1>15, <1>16, <1>17, <1>18, <1>19, <1>20, <1>21, <1>22, <1>23, <1>24, <1>25, <1>26, <1>27, <1>28
     DEF Next, RequestStep, HookStep, StaffStep

(* What the specification promises                                          *)

LEMMA Invariance == Spec => []IInv
<1> QED
  BY InitIInv, NextIInv, PTL DEF Spec

\* Every variable keeps its type, and no order has more tickets given back than it has: so what is
\* taken (readTicketState) never counts below nothing.
THEOREM TypeCorrect == Spec => []TypeOK
<1>1. IInv => TypeOK
  BY DEF IInv
<1> QED
  BY <1>1, Invariance, PTL

\* A buyer whose Stripe checkout can still be paid always has a pending order whose hold has not run
\* out: the hold attached (attachSession) outlasts the checkout, and whatever gives places back
\* closes the checkout first.
THEOREM PayableIsHeld == Spec => []PayableHeld
<1>1. IInv => PayableHeld
  BY TimesAssumption DEF IInv, TypeOK, Backed, PayableHeld, Pending
<1> QED
  BY <1>1, Invariance, PTL

\* No step of anybody pays, or brings back, an order that was cancelled or expired.
THEOREM CancelledStays == Spec => CancelledNeverPaid
<1> DEFINE Stays == \A o \in Orders : status[o] \in {"cancelled", "expired"} => status'[o] = status[o]
<1>1. IInv /\ [Next]_vars => [Stays]_vars
  <2> SUFFICES ASSUME IInv, Next PROVE Stays
    OBVIOUS
  <2> USE DEF IInv
  <2>1. ASSUME NEW r \in Orders, NEW want \in Wants, StartCheckout(r, want) PROVE Stays
    BY <2>1 DEF StartCheckout
  <2>2. ASSUME NEW r \in Orders, RequestStep(r) PROVE Stays
    <3>1. ASSUME NEW e \in older[r], CloseOlderSession(r, e) PROVE Stays
      BY <3>1 DEF CloseOlderSession
    <3>2. ASSUME NEW e \in older[r], SupersedeOrder(r, e) PROVE Stays
      BY <3>2 DEF SupersedeOrder, TypeOK
    <3>3. CASE BeginReserve(r) \/ Reserve(r) \/ CreateSession(r) \/ AttachSession(r) \/ CloseLateSession(r) \/ Reply(r)
      BY <3>3 DEF BeginReserve, Reserve, CreateSession, AttachSession, CloseLateSession, Reply
    <3>4. CASE CommitReserve(r)
      BY <3>4 DEF CommitReserve, TypeOK, Flow
    <3>5. CASE ConfirmFreeOrder(r)
      BY <3>5 DEF ConfirmFreeOrder, TypeOK
    <3>6. CASE CancelPendingOrder(r)
      BY <3>6 DEF CancelPendingOrder, TypeOK
    <3> QED
      BY <2>2, <3>1, <3>2, <3>3, <3>4, <3>5, <3>6 DEF RequestStep
  <2>3. ASSUME NEW o \in Orders, Crash(o) \/ Pay(o) \/ SessionCloses(o) \/ HookAbort(o) PROVE Stays
    BY <2>3 DEF Crash, Pay, SessionCloses, HookAbort
  <2>4. ASSUME NEW o \in Orders, HookStep(o) PROVE Stays
    <3>1. CASE HookBegin(o) \/ MarkOrderPaid(o)
      BY <3>1 DEF HookBegin, MarkOrderPaid
    <3>2. CASE HookCommit(o)
      BY <3>2 DEF HookCommit, TypeOK, PaidFor
    <3>3. CASE MarkOrderExpired(o)
      BY <3>3 DEF MarkOrderExpired, TypeOK
    <3> QED
      BY <2>4, <3>1, <3>2, <3>3 DEF HookStep
  <2>5. CASE StaffStep
    <3>1. ASSUME NEW o \in Orders, CancelFreeBooking(o) PROVE Stays
      BY <3>1 DEF CancelFreeBooking, TypeOK
    <3>2. ASSUME NEW o \in Orders, NEW t \in Types, ReleaseTickets(o, t) PROVE Stays
      BY <3>2 DEF ReleaseTickets
    <3> QED
      BY <2>5, <3>1, <3>2 DEF StaffStep, EditType, SetSalesLimit, SetTypeStatus, SetSalesClosed
  <2>6. CASE Tick
    BY <2>6 DEF Tick
  <2> QED
    BY <2>1, <2>2, <2>3, <2>4, <2>5, <2>6 DEF Next
<1> QED
  BY <1>1, Invariance, PTL DEF Spec, CancelledNeverPaid

(* TicketSales implements OrderLife                                          *)

LEMMA PlaceIs ==
  ASSUME NEW o \in Orders
  PROVE  /\ status[o] = "none" => Place(o) = "none"
         /\ status[o] = "paid" => Place(o) = "sold"
         /\ status[o] = "pending" /\ holdExpiresAt[o] > clock => Place(o) = "kept"
         /\ status[o] = "pending" /\ ~(holdExpiresAt[o] > clock) => Place(o) = "back"
         /\ status[o] \in {"expired", "cancelled"} => Place(o) = "back"
BY DEF Place, Pending

\* One order's step in OrderLife, of its places and its money under the refinement mapping.
Lives(o, p, m, q, n) ==
  \/ p = "none" /\ q \in {"kept", "back"} /\ m = "none" /\ n \in {"none", "free"}
  \/ p = "kept" /\ q = "kept" /\ m = "none" /\ n = "asked"
  \/ p = "kept" /\ q = "kept" /\ m = "asked" /\ n = "taken"
  \/ q = p /\ m = "asked" /\ n = "none"
  \/ p = "kept" /\ q = "back" /\ n = IF m = "asked" THEN "none" ELSE m
  \/ p \in {"kept", "back"} /\ q = "sold" /\ m \in {"taken", "free"} /\ n = m
  \/ p = "sold" /\ q = "back" /\ m = "free" /\ n = "free"
  \/ q = p /\ n = m
Moves(o) == Lives(o, Place(o), Money(o), Place(o)', Money(o)')

LEMMA MovesLife == (\A o \in Orders : Moves(o)) => Life!Next
BY DEF Moves, Lives, Life!Next, Life!Hold, Life!Ask, Life!Take, Life!Stop, Life!GiveBack,
       Life!Sell, Life!Unbook, Life!Stay

LEMMA InitLife == Init => Life!Init
BY PlaceIs DEF Init, Life!Init, Money

\* An order that no part of the mapping sees change stays as it is.
LEMMA Unmoved ==
  ASSUME NEW o \in Orders, clock' = clock, status'[o] = status[o], session'[o] = session[o],
         holdExpiresAt'[o] = holdExpiresAt[o], url'[o] = url[o], closesAt'[o] = closesAt[o],
         lines'[o] = lines[o]
  PROVE  Moves(o)
BY DEF Moves, Lives, Place, Money, Pending, Free

\* Steps that change neither an order nor its checkout, as the mapping sees them.
LEMMA UnseenMoves ==
  ASSUME IInv, NEW o \in Orders,
         \/ \E r \in Orders : BeginReserve(r) \/ Reserve(r) \/ Crash(r)
         \/ \E p \in Orders : HookBegin(p) \/ MarkOrderPaid(p) \/ HookAbort(p)
         \/ \E t \in Types, q \in Quantities : EditType(t, q)
         \/ \E l \in Limits : SetSalesLimit(l)
         \/ \E t \in Types : SetTypeStatus(t)
         \/ \E closed \in BOOLEAN : SetSalesClosed(closed)
         \/ \E p \in Orders, t \in Types : ReleaseTickets(p, t)
  PROVE  Moves(o)
BY Unmoved DEF BeginReserve, Reserve, Crash, HookBegin, MarkOrderPaid, HookAbort, EditType,
   SetSalesLimit, SetTypeStatus, SetSalesClosed, ReleaseTickets, StaffChange

LEMMA StartCheckoutMoves ==
  ASSUME IInv, NEW o \in Orders, NEW r \in Orders, NEW want \in Wants, StartCheckout(r, want)
  PROVE  Moves(o)
<1>1. CASE o # r
  BY <1>1, Unmoved DEF StartCheckout, IInv, TypeOK
<1>2. CASE o = r
  BY <1>2 DEF StartCheckout, IInv, TypeOK, Flow, Moves, Lives, Place, Money
<1> QED
  BY <1>1, <1>2

LEMMA CloseOlderSessionMoves ==
  ASSUME IInv, NEW o \in Orders, NEW r \in Orders, NEW e \in older[r], CloseOlderSession(r, e)
  PROVE  Moves(o)
<1>1. e.order \in Orders
  BY DEF IInv, TypeOK, Older
<1>2. CASE session'[o] = session[o]
  BY <1>2, Unmoved DEF CloseOlderSession
<1>3. CASE session'[o] # session[o]
  <2>1. session[o] = "open" /\ session'[o] = "expired"
    BY <1>1, <1>3 DEF CloseOlderSession, IInv, TypeOK
  <2> QED
    BY <2>1 DEF CloseOlderSession, IInv, Flow, Moves, Lives, Place, Money, Pending, Free
<1> QED
  BY <1>2, <1>3

LEMMA SupersedeOrderMoves ==
  ASSUME IInv, NEW o \in Orders, NEW r \in Orders, NEW e \in older[r], SupersedeOrder(r, e)
  PROVE  Moves(o)
<1>1. e \in Older
  BY DEF IInv, TypeOK
<1>2. CASE status'[o] = status[o]
  BY <1>2, Unmoved DEF SupersedeOrder
<1>3. CASE status'[o] # status[o]
  <2>1. o = e.order /\ status[o] = "pending" /\ status'[o] = "cancelled" /\ SessionAsRead(e)
    BY <1>1, <1>3 DEF SupersedeOrder, IInv, TypeOK, Older
  <2>2. session[o] # "complete" /\ ~(session[o] = "open" /\ url[o])
    BY <1>1, <2>1 DEF SupersedeOrder, SessionAsRead, IInv, TypeOK, PaidFor, Backed, ClosedFirst, Older
  <2> QED
    BY <2>1, <2>2 DEF SupersedeOrder, Moves, Lives, Place, Money, Pending, Free
<1> QED
  BY <1>2, <1>3

LEMMA CommitReserveMoves ==
  ASSUME IInv, NEW o \in Orders, NEW r \in Orders, CommitReserve(r)
  PROVE  Moves(o)
<1>1. CASE o # r
  BY <1>1, Unmoved DEF CommitReserve, IInv, TypeOK
<1>2. CASE o = r
  <2>1. status[o] = "none" /\ session[o] = "none" /\ status'[o] = "pending" /\ session' = session
    BY <1>2 DEF CommitReserve, IInv, TypeOK, Flow
  <2> QED
    BY <2>1 DEF Moves, Lives, Place, Money
<1> QED
  BY <1>1, <1>2

LEMMA ConfirmFreeOrderMoves ==
  ASSUME IInv, NEW o \in Orders, NEW r \in Orders, ConfirmFreeOrder(r)
  PROVE  Moves(o)
<1>1. CASE status'[o] = status[o]
  BY <1>1, Unmoved DEF ConfirmFreeOrder
<1>2. CASE status'[o] # status[o]
  <2>1. o = r /\ status[o] = "pending" /\ status'[o] = "paid" /\ Free(o) /\ session[o] = "none"
    BY <1>2 DEF ConfirmFreeOrder, IInv, TypeOK, Flow
  <2> QED
    BY <2>1 DEF ConfirmFreeOrder, Moves, Lives, Place, Money, Free
<1> QED
  BY <1>1, <1>2

LEMMA CreateSessionMoves ==
  ASSUME IInv, NEW o \in Orders, NEW r \in Orders, CreateSession(r)
  PROVE  Moves(o)
<1>1. CASE o # r
  BY <1>1, Unmoved DEF CreateSession, IInv, TypeOK
<1>2. CASE o = r
  <2>1. session[o] = "none" /\ session'[o] \in {"none", "open"} /\ ~url[o] /\ url' = url
    BY <1>2 DEF CreateSession, IInv, TypeOK, Flow
  <2> QED
    BY <2>1 DEF CreateSession, Moves, Lives, Place, Money, Pending, Free
<1> QED
  BY <1>1, <1>2

LEMMA AttachSessionMoves ==
  ASSUME IInv, NEW o \in Orders, NEW r \in Orders, AttachSession(r)
  PROVE  Moves(o)
<1>1. CASE holdExpiresAt'[o] = holdExpiresAt[o]
  BY <1>1, Unmoved DEF AttachSession
<1>2. CASE holdExpiresAt'[o] # holdExpiresAt[o]
  <2>1. o = r /\ MayAttach(o) /\ holdExpiresAt'[o] = clock + HoldTime
    BY <1>2 DEF AttachSession, AttachedUntil, IInv, TypeOK
  <2>2. ~url[o] /\ Money(o)' = Money(o)
    BY <2>1 DEF AttachSession, Money, Free, IInv, TypeOK, Flow
  <2>3. Place(o) = "kept" /\ Place(o)' \in {"kept", "back"} /\ Money(o) # "asked"
    BY <2>1, <2>2 DEF AttachSession, MayAttach, Place, Money, Pending
  <2> QED
    BY <2>2, <2>3 DEF Moves, Lives
<1> QED
  BY <1>1, <1>2

LEMMA CloseLateSessionMoves ==
  ASSUME IInv, NEW o \in Orders, NEW r \in Orders, CloseLateSession(r)
  PROVE  Moves(o)
<1>1. CASE session'[o] = session[o]
  BY <1>1, Unmoved DEF CloseLateSession
<1>2. CASE session'[o] # session[o]
  <2>1. session[o] = "open" /\ session'[o] = "expired"
    BY <1>2 DEF CloseLateSession, IInv, TypeOK
  <2> QED
    BY <2>1 DEF CloseLateSession, IInv, Flow, Moves, Lives, Place, Money, Pending, Free
<1> QED
  BY <1>1, <1>2

LEMMA CancelPendingOrderMoves ==
  ASSUME IInv, NEW o \in Orders, NEW r \in Orders, CancelPendingOrder(r)
  PROVE  Moves(o)
<1>1. CASE status'[o] = status[o]
  BY <1>1, Unmoved DEF CancelPendingOrder
<1>2. CASE status'[o] # status[o]
  <2>1. o = r /\ status[o] = "pending" /\ status'[o] = "cancelled" /\ pc[o] = "cancel"
    BY <1>2 DEF CancelPendingOrder, IInv, TypeOK
  <2>2. session[o] # "complete" /\ ~url[o]
    BY <2>1 DEF IInv, PaidFor, Flow
  <2> QED
    BY <2>1, <2>2 DEF CancelPendingOrder, Moves, Lives, Place, Money, Pending, Free
<1> QED
  BY <1>1, <1>2

LEMMA ReplyMoves ==
  ASSUME IInv, NEW o \in Orders, NEW r \in Orders, Reply(r)
  PROVE  Moves(o)
<1>1. CASE o # r
  BY <1>1, Unmoved DEF Reply, IInv, TypeOK
<1>2. CASE o = r
  <2>1. pc[o] = "reply" /\ ~url[o] /\ ~Free(o) /\ session' = session
    BY <1>2 DEF Reply, IInv, Flow
  <2>2. session[o] = "open" => status[o] = "pending" /\ closesAt[o] <= holdExpiresAt[o]
    BY <2>1 DEF IInv, Backed
  <2>3. closesAt[o] \in Nat /\ holdExpiresAt[o] \in Nat /\ clock \in Nat
    BY DEF IInv, TypeOK
  <2> QED
    BY <2>1, <2>2, <2>3 DEF Reply, Moves, Lives, Place, Money, Pending, Free
<1> QED
  BY <1>1, <1>2

LEMMA PayMoves ==
  ASSUME IInv, NEW o \in Orders, NEW p \in Orders, Pay(p)
  PROVE  Moves(o)
<1>1. CASE o # p
  BY <1>1, Unmoved DEF Pay, IInv, TypeOK
<1>2. CASE o = p
  <2>1. status[o] = "pending" /\ holdExpiresAt[o] > clock
    BY <1>2 DEF Pay, IInv, TypeOK, Backed
  <2>2. session[o] = "open" /\ session'[o] = "complete"
    BY <1>2 DEF Pay, IInv, TypeOK
  <2> QED
    BY <1>2, <2>1, <2>2 DEF Pay, Moves, Lives, Place, Money, Pending
<1> QED
  BY <1>1, <1>2

LEMMA SessionClosesMoves ==
  ASSUME IInv, NEW o \in Orders, NEW p \in Orders, SessionCloses(p)
  PROVE  Moves(o)
<1>1. CASE o # p
  BY <1>1, Unmoved DEF SessionCloses, IInv, TypeOK
<1>2. CASE o = p
  <2>1. session[o] = "open" /\ session'[o] = "expired" /\ ~(clock < closesAt[o])
    BY <1>2 DEF SessionCloses, IInv, TypeOK
  <2> QED
    BY <2>1 DEF SessionCloses, Moves, Lives, Place, Money, Pending, Free
<1> QED
  BY <1>1, <1>2

LEMMA HookCommitMoves ==
  ASSUME IInv, NEW o \in Orders, NEW p \in Orders, HookCommit(p)
  PROVE  Moves(o)
<1>1. CASE status'[o] = status[o]
  BY <1>1, Unmoved DEF HookCommit
<1>2. CASE status'[o] # status[o]
  <2>1. status'[o] = "paid" /\ session[o] = "complete" /\ status[o] = "pending"
    BY <1>2 DEF HookCommit, IInv, TypeOK, PaidFor
  <2> QED
    BY <2>1 DEF HookCommit, Moves, Lives, Place, Money, Pending
<1> QED
  BY <1>1, <1>2

LEMMA MarkOrderExpiredMoves ==
  ASSUME IInv, NEW o \in Orders, NEW p \in Orders, MarkOrderExpired(p)
  PROVE  Moves(o)
<1>1. CASE status'[o] = status[o]
  BY <1>1, Unmoved DEF MarkOrderExpired
<1>2. CASE status'[o] # status[o]
  <2>1. session[o] = "expired" /\ status[o] = "pending" /\ status'[o] = "expired"
    BY <1>2 DEF MarkOrderExpired, IInv, TypeOK
  <2> QED
    BY <2>1 DEF MarkOrderExpired, Moves, Lives, Place, Money, Pending, Free
<1> QED
  BY <1>1, <1>2

LEMMA CancelFreeBookingMoves ==
  ASSUME IInv, NEW o \in Orders, NEW p \in Orders, CancelFreeBooking(p)
  PROVE  Moves(o)
<1>1. CASE o # p
  BY <1>1, Unmoved DEF CancelFreeBooking, StaffChange, IInv, TypeOK
<1>2. CASE o = p
  <2>1. session[o] = "none" /\ Free(o) /\ status[o] = "paid" /\ status'[o] = "cancelled"
    BY <1>2 DEF CancelFreeBooking, IInv, TypeOK, Flow
  <2> QED
    BY <2>1 DEF CancelFreeBooking, StaffChange, Moves, Lives, Place, Money, Pending, Free
<1> QED
  BY <1>1, <1>2

\* The clock closes the buyer's window on Stripe's page no later than it ends the hold.
LEMMA TickMoves ==
  ASSUME IInv, NEW o \in Orders, Tick
  PROVE  Moves(o)
<1>1. clock \in Nat /\ clock' = clock + 1 /\ closesAt[o] \in Nat /\ holdExpiresAt[o] \in Nat
  BY DEF Tick, IInv, TypeOK
<1>2. /\ status'[o] = status[o] /\ session'[o] = session[o] /\ url'[o] = url[o]
      /\ holdExpiresAt'[o] = holdExpiresAt[o] /\ closesAt'[o] = closesAt[o] /\ lines'[o] = lines[o]
  BY DEF Tick
<1>3. session[o] = "open" =>
        ~Free(o) /\ (url[o] => status[o] = "pending" /\ closesAt[o] <= holdExpiresAt[o])
  BY DEF IInv, Backed, Flow
<1>4. Free(o)' <=> Free(o)
  BY <1>2 DEF Free
<1>5. \/ Money(o) = "taken" /\ Money(o)' = "taken"
      \/ Money(o) = "asked" /\ Money(o)' \in {"asked", "none"}
      \/ Money(o) = "free" /\ Money(o)' = "free"
      \/ Money(o) = "none" /\ Money(o)' = "none"
  BY <1>1, <1>2, <1>3, <1>4 DEF Money
<1>6. \/ Place(o) = "none" /\ Place(o)' = "none"
      \/ Place(o) = "sold" /\ Place(o)' = "sold"
      \/ Place(o) = "back" /\ Place(o)' = "back"
      \/ Place(o) = "kept" /\ Place(o)' \in {"kept", "back"}
  BY <1>1, <1>2 DEF Place, Pending
<1>7. Place(o)' = "back" => Money(o)' # "asked"
  BY <1>1, <1>2, <1>3 DEF Place, Money, Pending
<1> QED
  BY <1>5, <1>6, <1>7 DEF Moves, Lives

LEMMA NextLife == IInv /\ [Next]_vars => [Life!Next]_(Life!vars)
<1> SUFFICES ASSUME IInv, Next, NEW o \in Orders PROVE Moves(o)
  <2>1. UNCHANGED vars => UNCHANGED Life!vars
    BY DEF vars, Life!vars, Place, Money, Pending, Free
  <2> QED
    BY <2>1, MovesLife
<1>1. ASSUME NEW r \in Orders, NEW want \in Wants, StartCheckout(r, want) PROVE Moves(o)
  BY <1>1, StartCheckoutMoves
<1>2. ASSUME NEW r \in Orders, RequestStep(r) PROVE Moves(o)
  BY <1>2, CloseOlderSessionMoves, SupersedeOrderMoves, UnseenMoves, CommitReserveMoves,
     ConfirmFreeOrderMoves, CreateSessionMoves, AttachSessionMoves, CloseLateSessionMoves,
     CancelPendingOrderMoves, ReplyMoves DEF RequestStep
<1>3. ASSUME NEW r \in Orders, Crash(r) \/ HookAbort(r) PROVE Moves(o)
  BY <1>3, UnseenMoves
<1>4. ASSUME NEW p \in Orders, Pay(p) \/ SessionCloses(p) PROVE Moves(o)
  BY <1>4, PayMoves, SessionClosesMoves
<1>5. ASSUME NEW p \in Orders, HookStep(p) PROVE Moves(o)
  BY <1>5, UnseenMoves, HookCommitMoves, MarkOrderExpiredMoves DEF HookStep
<1>6. CASE StaffStep
  BY <1>6, UnseenMoves, CancelFreeBookingMoves DEF StaffStep
<1>7. CASE Tick
  BY <1>7, TickMoves
<1> QED
  BY <1>1, <1>2, <1>3, <1>4, <1>5, <1>6, <1>7 DEF Next

\* TicketSales implements OrderLife: whatever requests, buyers, Stripe, staff and the clock do, in
\* whatever order, money is only asked for while the places are kept, places given back are never
\* kept again, and an order with a price is only ever sold for money taken.
THEOREM ImplementsOrderLife == Spec => OrdersLive
<1>1. Init => Life!Init
  BY InitLife
<1>2. IInv /\ [Next]_vars => [Life!Next]_(Life!vars)
  BY NextLife
<1> QED
  BY <1>1, <1>2, Invariance, PTL DEF Spec, OrdersLive, Life!Spec

----------------------------------------------------------------------------
(* The event's limit, and the caps on open checkouts                       *)

\* What the reserve transaction relies on: it alone has the event's lock, its now() is not in the
\* future, and an order whose places were never given back has not run out.
Held ==
  \A o \in Orders :
    /\ pc[o] = "reserved" => lock = o
    /\ pc[o] \in {"begun", "reserved"} => began[o] <= clock
    /\ status[o] = "pending" /\ ~givenBack[o] => holdExpiresAt[o] > clock

\* The orders that Capacity is about, and whether they fit.
InHold(o) == (status[o] \in {"pending", "paid"} /\ ~givenBack[o]) \/ pc[o] = "reserved"
Holding   == {o \in Orders : InHold(o)}
Fits(S) ==
  /\ salesLimit # NoLimit => Taken(S) <= salesLimit
  /\ \A t \in Types : quantity[t] # NoLimit => TakenOf(S, t) <= quantity[t]

LEMMA CapacityIsFits == Capacity <=> Fits(Holding)
<1> DEFINE S == {o \in Orders : status[o] \in {"pending", "paid"} /\ ~givenBack[o]}
                  \cup {o \in Orders : pc[o] = "reserved"}
<1>1. S = Holding
  BY DEF Holding, InHold
<1>2. Capacity <=> Fits(S)
  BY Zenon DEF Capacity, Fits
<1> HIDE DEF S
<1> QED BY <1>1, <1>2

LEMMA StandingNat ==
  ASSUME IInv, NEW o \in Orders, NEW t \in Types
  PROVE  Standing(o, t) \in Nat
BY DEF IInv, TypeOK, Standing

LEMMA TakenNat ==
  ASSUME IInv, NEW S \in SUBSET Orders
  PROVE  /\ \A t \in Types : TakenOf(S, t) \in Nat
         /\ Taken(S) \in Nat
<1>1. ASSUME NEW t \in Types PROVE TakenOf(S, t) \in Nat
  <2> DEFINE f == [o \in Orders |-> Standing(o, t)]
  <2>1. IsFiniteSet(S) /\ \A o \in S : f[o] \in Nat
    BY OrdersAssumption, FS_Subset, StandingNat
  <2> HIDE DEF f
  <2>2. SumFunctionOnSet(f, S) \in Nat
    BY <2>1, SumNat
  <2> QED BY <2>2 DEF TakenOf, f
<1>2. Taken(S) \in Nat
  <2> DEFINE f == [t \in Types |-> TakenOf(S, t)]
  <2>1. IsFiniteSet(Types) /\ \A t \in Types : f[t] \in Nat
    BY TypesAssumption, <1>1
  <2> HIDE DEF f
  <2>2. SumFunctionOnSet(f, Types) \in Nat
    BY <2>1, SumNat
  <2> QED BY <2>2 DEF Taken, f
<1> QED BY <1>1, <1>2

\* Fewer orders take no more places.
LEMMA TakenOfFewer ==
  ASSUME IInv, NEW S \in SUBSET Orders, NEW R \in SUBSET S
  PROVE  /\ \A t \in Types : TakenOf(R, t) <= TakenOf(S, t)
         /\ Taken(R) <= Taken(S)
<1>1. ASSUME NEW t \in Types PROVE TakenOf(R, t) <= TakenOf(S, t)
  <2> DEFINE f == [o \in Orders |-> Standing(o, t)]
  <2>1. IsFiniteSet(S) /\ \A o \in S : f[o] \in Nat
    BY OrdersAssumption, FS_Subset, StandingNat
  <2> HIDE DEF f
  <2>2. SumFunctionOnSet(f, R) <= SumFunctionOnSet(f, S)
    BY <2>1, SumSubset
  <2> QED BY <2>2 DEF TakenOf, f
<1>2. Taken(R) <= Taken(S)
  <2> DEFINE f == [t \in Types |-> TakenOf(R, t)]
             g == [t \in Types |-> TakenOf(S, t)]
  <2>1. \A t \in Types : f[t] \in Nat /\ g[t] \in Nat /\ f[t] <= g[t]
    BY <1>1, TakenNat
  <2> HIDE DEF f, g
  <2>2. SumFunctionOnSet(f, Types) <= SumFunctionOnSet(g, Types)
    BY <2>1, TypesAssumption, SumMonotone
  <2> QED BY <2>2 DEF Taken, f, g
<1> QED BY <1>1, <1>2

\* One order more takes its own places more.
LEMMA TakenWithOne ==
  ASSUME IInv, NEW S \in SUBSET Orders, NEW r \in Orders \ S
  PROVE  /\ \A t \in Types : TakenOf(S \cup {r}, t) = TakenOf(S, t) + Standing(r, t)
         /\ refunded[r] = [t \in Types |-> 0] => Taken(S \cup {r}) = Taken(S) + Count(lines[r])
<1>1. ASSUME NEW t \in Types PROVE TakenOf(S \cup {r}, t) = TakenOf(S, t) + Standing(r, t)
  <2> DEFINE f == [o \in Orders |-> Standing(o, t)]
             T == S \cup {r}
  <2>1. IsFiniteSet(T) /\ (\A o \in T : f[o] \in Nat) /\ r \in T /\ T \ {r} = S /\ f[r] = Standing(r, t)
    <3>1. T \in SUBSET Orders
      OBVIOUS
    <3> QED BY <3>1, OrdersAssumption, FS_Subset, StandingNat
  <2>2. SumFunctionOnSet(f, S) \in Nat
    <3>1. TakenOf(S, t) \in Nat
      BY TakenNat
    <3> QED BY <3>1 DEF TakenOf
  <2> HIDE DEF f, T
  <2>3. SumFunctionOnSet(f, T) = f[r] + SumFunctionOnSet(f, T \ {r})
    BY <2>1, SumRemove
  <2>4. SumFunctionOnSet(f, T) = Standing(r, t) + SumFunctionOnSet(f, S)
    BY <2>1, <2>3, Zenon
  <2>5. Standing(r, t) \in Nat
    BY StandingNat
  <2>6. SumFunctionOnSet(f, T) = SumFunctionOnSet(f, S) + Standing(r, t)
    BY <2>2, <2>4, <2>5
  <2> QED BY <2>6 DEF TakenOf, f, T
<1>2. ASSUME refunded[r] = [t \in Types |-> 0]
      PROVE  Taken(S \cup {r}) = Taken(S) + Count(lines[r])
  <2> DEFINE f == [t \in Types |-> TakenOf(S, t)]
             g == lines[r]
             h == [t \in Types |-> TakenOf(S \cup {r}, t)]
  <2>1. ASSUME NEW t \in Types PROVE f[t] \in Nat /\ g[t] \in Nat /\ h[t] = f[t] + g[t]
    <3>1. TakenOf(S \cup {r}, t) = TakenOf(S, t) + Standing(r, t)
      BY <1>1
    <3>2. Standing(r, t) = lines[r][t] /\ lines[r][t] \in Nat
      BY <1>2 DEF Standing, IInv, TypeOK
    <3> QED BY <3>1, <3>2, TakenNat
  <2> HIDE DEF f, g, h
  <2>2. SumFunctionOnSet(h, Types) = SumFunctionOnSet(f, Types) + SumFunctionOnSet(g, Types)
    BY <2>1, TypesAssumption, SumPlus
  <2> QED BY <2>2 DEF Taken, Count, f, g, h
<1> QED BY <1>1, <1>2

\* A step that adds no order and no ticket, and leaves the limits alone.
Shrinks ==
  /\ salesLimit' = salesLimit /\ quantity' = quantity
  /\ \A o \in Orders : InHold(o)' =>
       InHold(o) /\ \A t \in Types : Standing(o, t)' <= Standing(o, t)

LEMMA HoldingNat ==
  IInv => (\A t \in Types : TakenOf(Holding, t) \in Nat) /\ Taken(Holding) \in Nat
<1>1. Holding \in SUBSET Orders
  BY DEF Holding
<1> QED BY <1>1, TakenNat

LEMMA ShrinkFits ==
  ASSUME IInv, IInv', Fits(Holding), Shrinks
  PROVE  Fits(Holding)'
<1> DEFINE A == Holding'
           B == Holding
<1>1. A \in SUBSET Orders /\ B \in SUBSET Orders /\ A \in SUBSET B
  BY DEF Holding, Shrinks
<1>2. ASSUME NEW t \in Types PROVE TakenOf(Holding, t)' <= TakenOf(A, t)
  <2> DEFINE f == [o \in Orders |-> Standing(o, t)']
             g == [o \in Orders |-> Standing(o, t)]
  <2>1. \A o \in Orders : Standing(o, t) \in Nat /\ Standing(o, t)' \in Nat
    BY DEF IInv, TypeOK, Standing
  <2>2. \A o \in A : f[o] \in Nat /\ g[o] \in Nat /\ f[o] <= g[o]
    BY <2>1 DEF Shrinks, Holding
  <2>3. IsFiniteSet(A)
    BY <1>1, OrdersAssumption, FS_Subset
  <2> HIDE DEF f, g, A
  <2>4. SumFunctionOnSet(f, A) <= SumFunctionOnSet(g, A)
    BY <2>2, <2>3, SumMonotone
  <2> QED BY <2>4 DEF TakenOf, f, g, A
<1>3. /\ \A t \in Types : TakenOf(A, t) \in Nat /\ TakenOf(B, t) \in Nat
      /\ \A t \in Types : TakenOf(Holding, t)' \in Nat
      /\ Taken(A) \in Nat /\ Taken(B) \in Nat /\ Taken(Holding)' \in Nat
  <2>1. IInv' => ((\A t \in Types : TakenOf(Holding, t) \in Nat) /\ Taken(Holding) \in Nat)'
    BY HoldingNat, PTL
  <2>2. (\A t \in Types : TakenOf(Holding, t)' \in Nat) /\ Taken(Holding)' \in Nat
    BY <2>1
  <2> HIDE DEF A, B
  <2> QED BY <1>1, <2>2, TakenNat
<1>4. Taken(Holding)' <= Taken(A)
  <2> DEFINE f == [t \in Types |-> TakenOf(Holding, t)']
             g == [t \in Types |-> TakenOf(A, t)]
  <2>1. \A t \in Types : f[t] \in Nat /\ g[t] \in Nat /\ f[t] <= g[t]
    BY <1>2, <1>3
  <2> HIDE DEF f, g
  <2>2. SumFunctionOnSet(f, Types) <= SumFunctionOnSet(g, Types)
    BY <2>1, TypesAssumption, SumMonotone
  <2> QED BY <2>2 DEF Taken, f, g
<1>5. (\A t \in Types : TakenOf(A, t) <= TakenOf(B, t)) /\ Taken(A) <= Taken(B)
  <2> HIDE DEF A, B
  <2> QED BY <1>1, TakenOfFewer
<1> HIDE DEF A
<1>6. salesLimit \in Int /\ \A t \in Types : quantity[t] \in Int
  BY DEF IInv, TypeOK, NoLimit
<1> QED BY <1>2, <1>3, <1>4, <1>5, <1>6 DEF Fits, Shrinks

(* How each action moves the places held                                     *)

\* The checkouts HoldCap counts, and a step that opens none.
InOpen(o) == Pending(o, clock) \/ pc[o] = "reserved"
Opens     == \A o \in Orders : InOpen(o)' => InOpen(o)

\* Nothing the limits are about is touched, but that requests move on.
LEMMA QuietStep ==
  ASSUME IInv, Held,
         UNCHANGED <<clock, salesLimit, quantity, lock, status, holdExpiresAt, refunded, givenBack, began>>,
         \A o \in Orders : lines'[o] = lines[o] \/ (pc[o] = "idle" /\ pc'[o] = "supersede"),
         \A o \in Orders : pc'[o] # pc[o] => pc'[o] \notin {"begun", "reserved"}
  PROVE  Held' /\ Shrinks /\ Opens
<1>1. Held'
  BY DEF Held
<1>2. ASSUME NEW o \in Orders, InHold(o)'
      PROVE  InHold(o) /\ lines'[o] = lines[o]
  BY <1>2 DEF InHold, IInv, Flow
<1>3. Opens
  BY DEF Opens, InOpen, Pending
<1> QED BY <1>1, <1>2, <1>3 DEF Shrinks, Standing, IInv, TypeOK

LEMMA QuietSteps ==
  ASSUME IInv, Held,
         \/ \E r \in Orders : \/ \E want \in Wants : StartCheckout(r, want)
                              \/ \E e \in older[r] : CloseOlderSession(r, e)
                              \/ CreateSession(r) \/ CloseLateSession(r) \/ Reply(r)
         \/ \E o \in Orders : Pay(o) \/ SessionCloses(o) \/ HookBegin(o) \/ MarkOrderPaid(o) \/ HookAbort(o)
         \/ \E t \in Types : SetTypeStatus(t)
         \/ \E closed \in BOOLEAN : SetSalesClosed(closed)
         \/ UNCHANGED vars
  PROVE  Held' /\ Shrinks /\ Opens
<1> DEFINE Quiet ==
      /\ UNCHANGED <<clock, salesLimit, quantity, lock, status, holdExpiresAt, refunded, givenBack, began>>
      /\ \A o \in Orders : lines'[o] = lines[o] \/ (pc[o] = "idle" /\ pc'[o] = "supersede")
      /\ \A o \in Orders : pc'[o] # pc[o] => pc'[o] \notin {"begun", "reserved"}
<1>1. /\ pc \in [Orders -> Steps]
      /\ lines \in [Orders -> [Types -> Nat]]
  BY DEF IInv, TypeOK
<1>2. ASSUME NEW r \in Orders, NEW want \in Wants, StartCheckout(r, want) PROVE Quiet
  BY <1>1, <1>2 DEF StartCheckout, Goto, StaffChange
<1>3. ASSUME NEW r \in Orders, NEW e \in older[r], CloseOlderSession(r, e) PROVE Quiet
  BY <1>1, <1>3 DEF CloseOlderSession, Goto, StaffChange
<1>4. ASSUME NEW r \in Orders, CreateSession(r) PROVE Quiet
  BY <1>1, <1>4 DEF CreateSession, Goto, StaffChange
<1>5. ASSUME NEW r \in Orders, CloseLateSession(r) PROVE Quiet
  BY <1>1, <1>5 DEF CloseLateSession, Goto, StaffChange
<1>6. ASSUME NEW r \in Orders, Reply(r) PROVE Quiet
  BY <1>1, <1>6 DEF Reply, Goto, StaffChange
<1>7. ASSUME NEW o \in Orders, Pay(o) PROVE Quiet
  BY <1>1, <1>7 DEF Pay, Goto, StaffChange
<1>8. ASSUME NEW o \in Orders, SessionCloses(o) PROVE Quiet
  BY <1>1, <1>8 DEF SessionCloses, Goto, StaffChange
<1>9. ASSUME NEW o \in Orders, HookBegin(o) PROVE Quiet
  BY <1>1, <1>9 DEF HookBegin, Goto, StaffChange
<1>10. ASSUME NEW o \in Orders, MarkOrderPaid(o) PROVE Quiet
  BY <1>1, <1>10 DEF MarkOrderPaid, Goto, StaffChange
<1>11. ASSUME NEW o \in Orders, HookAbort(o) PROVE Quiet
  BY <1>1, <1>11 DEF HookAbort, Goto, StaffChange
<1>12. ASSUME NEW t \in Types, SetTypeStatus(t) PROVE Quiet
  BY <1>1, <1>12 DEF SetTypeStatus, Goto, StaffChange
<1>13. ASSUME NEW closed \in BOOLEAN, SetSalesClosed(closed) PROVE Quiet
  BY <1>1, <1>13 DEF SetSalesClosed, Goto, StaffChange
<1>14. UNCHANGED vars => Quiet
  BY DEF vars
<1>15. Quiet
  BY <1>2, <1>3, <1>4, <1>5, <1>6, <1>7, <1>8, <1>9, <1>10, <1>11, <1>12, <1>13, <1>14
<1> QED BY <1>15, QuietStep

LEMMA SupersedeOrderHolds ==
  ASSUME IInv, Held, NEW r \in Orders, NEW e \in older[r], SupersedeOrder(r, e)
  PROVE  Held' /\ Shrinks /\ Opens
<1> USE DEF IInv, TypeOK, SupersedeOrder, Older
<1>1. Held'
  BY DEF Held
<1>2. Shrinks
  BY DEF Shrinks, InHold, Standing, Held
<1>3. Opens
  BY DEF Opens, InOpen, Pending, Held
<1> QED BY <1>1, <1>2, <1>3

LEMMA BeginReserveHolds ==
  ASSUME IInv, Held, NEW r \in Orders, BeginReserve(r)
  PROVE  Held' /\ Shrinks /\ Opens
<1> USE DEF IInv, TypeOK, BeginReserve, Goto
<1>1. Held'
  BY DEF Held
<1>2. Shrinks
  BY DEF Shrinks, InHold, Standing, Held
<1>3. Opens
  BY DEF Opens, InOpen, Pending, Held
<1> QED BY <1>1, <1>2, <1>3

LEMMA CommitReserveHolds ==
  ASSUME IInv, Held, NEW r \in Orders, CommitReserve(r)
  PROVE  Held' /\ Shrinks /\ Opens
<1> USE DEF IInv, TypeOK, CommitReserve, Goto
<1>1. Held'
  <2> DEFINE until == began[r] + UnattachedHold
  <2>1. until \in Int /\ clock' = clock /\ clock \in Int
    BY TimesAssumption
  <2>2. holdExpiresAt'[r] = until /\ (givenBack'[r] <=> until <= clock)
    OBVIOUS
  <2>3. ~givenBack'[r] => holdExpiresAt'[r] > clock'
    <3> HIDE DEF until
    <3> QED BY <2>1, <2>2
  <2>4. \A o \in Orders \ {r} : /\ pc'[o] = pc[o] /\ began'[o] = began[o] /\ status'[o] = status[o]
                                /\ givenBack'[o] = givenBack[o] /\ holdExpiresAt'[o] = holdExpiresAt[o]
                                /\ pc[o] # "reserved"
    BY DEF Held
  <2>5. pc'[r] \notin {"begun", "reserved"}
    OBVIOUS
  <2> HIDE DEF CommitReserve, Goto, IInv, TypeOK
  <2> QED BY <2>1, <2>3, <2>4, <2>5 DEF Held
<1>2. Shrinks
  BY TimesAssumption DEF Shrinks, InHold, Standing, Held
<1>3. Opens
  BY TimesAssumption DEF Opens, InOpen, Pending, Held
<1> QED BY <1>1, <1>2, <1>3

LEMMA ConfirmFreeOrderHolds ==
  ASSUME IInv, Held, NEW r \in Orders, ConfirmFreeOrder(r)
  PROVE  Held' /\ Shrinks /\ Opens
<1> USE DEF IInv, TypeOK, ConfirmFreeOrder, Goto
<1>1. Held'
  BY DEF Held
<1>2. Shrinks
  BY DEF Shrinks, InHold, Standing, Held
<1>3. Opens
  BY DEF Opens, InOpen, Pending, Held
<1> QED BY <1>1, <1>2, <1>3

LEMMA AttachSessionHolds ==
  ASSUME IInv, Held, NEW r \in Orders, AttachSession(r)
  PROVE  Held' /\ Shrinks /\ Opens
<1> USE DEF IInv, TypeOK, AttachSession, Goto, MayAttach, AttachedUntil, Pending
<1>1. Held'
  <2> DEFINE until == clock + HoldTime
  <2>1. until > clock /\ clock' = clock
    BY TimesAssumption
  <2>2. holdExpiresAt'[r] \in {until, holdExpiresAt[r]}
    OBVIOUS
  <2>3. \A o \in Orders \ {r} : holdExpiresAt'[o] = holdExpiresAt[o]
    OBVIOUS
  <2>4. \A o \in Orders : /\ began'[o] = began[o] /\ status'[o] = status[o] /\ givenBack'[o] = givenBack[o]
                          /\ pc'[o] \in {"begun", "reserved"} => pc'[o] = pc[o]
    OBVIOUS
  <2>5. lock' = lock
    OBVIOUS
  <2>6. \A o \in Orders : holdExpiresAt'[o] = holdExpiresAt[o] \/ holdExpiresAt'[o] > clock'
    BY <2>1, <2>2, <2>3, Zenon
  <2> HIDE DEF AttachSession, Goto, IInv, TypeOK, until
  <2> QED BY <2>1, <2>4, <2>5, <2>6 DEF Held
<1>2. Shrinks
  BY TimesAssumption DEF Shrinks, InHold, Standing, Held
<1>3. Opens
  BY TimesAssumption DEF Opens, InOpen, Pending, Held
<1> QED BY <1>1, <1>2, <1>3

LEMMA CancelPendingOrderHolds ==
  ASSUME IInv, Held, NEW r \in Orders, CancelPendingOrder(r)
  PROVE  Held' /\ Shrinks /\ Opens
<1> USE DEF IInv, TypeOK, CancelPendingOrder, Goto
<1>1. Held'
  BY DEF Held
<1>2. Shrinks
  BY DEF Shrinks, InHold, Standing, Held
<1>3. Opens
  BY DEF Opens, InOpen, Pending, Held
<1> QED BY <1>1, <1>2, <1>3

LEMMA CrashHolds ==
  ASSUME IInv, Held, NEW r \in Orders, Crash(r)
  PROVE  Held' /\ Shrinks /\ Opens
<1> USE DEF IInv, TypeOK, Crash, Goto
<1>1. Held'
  BY DEF Held
<1>2. Shrinks
  BY DEF Shrinks, InHold, Standing, Held
<1>3. Opens
  BY DEF Opens, InOpen, Pending, Held
<1> QED BY <1>1, <1>2, <1>3

LEMMA HookCommitHolds ==
  ASSUME IInv, Held, NEW o \in Orders, HookCommit(o)
  PROVE  Held' /\ Shrinks /\ Opens
<1> USE DEF IInv, TypeOK, HookCommit, PaidFor
<1>1. Held'
  BY DEF Held
<1>2. Shrinks
  BY DEF Shrinks, InHold, Standing, Held
<1>3. Opens
  BY DEF Opens, InOpen, Pending, Held
<1> QED BY <1>1, <1>2, <1>3

LEMMA MarkOrderExpiredHolds ==
  ASSUME IInv, Held, NEW o \in Orders, MarkOrderExpired(o)
  PROVE  Held' /\ Shrinks /\ Opens
<1> USE DEF IInv, TypeOK, MarkOrderExpired
<1>1. Held'
  BY DEF Held
<1>2. Shrinks
  BY DEF Shrinks, InHold, Standing, Held
<1>3. Opens
  BY DEF Opens, InOpen, Pending, Held
<1> QED BY <1>1, <1>2, <1>3

LEMMA CancelFreeBookingHolds ==
  ASSUME IInv, Held, NEW o \in Orders, CancelFreeBooking(o)
  PROVE  Held' /\ Shrinks /\ Opens
<1> USE DEF IInv, TypeOK, CancelFreeBooking, StaffChange
<1>1. Held'
  BY DEF Held
<1>2. Shrinks
  BY DEF Shrinks, InHold, Standing, Held
<1>3. Opens
  BY DEF Opens, InOpen, Pending, Held
<1> QED BY <1>1, <1>2, <1>3

LEMMA ReleaseTicketsHolds ==
  ASSUME IInv, Held, NEW o \in Orders, NEW t \in Types, ReleaseTickets(o, t)
  PROVE  Held' /\ Shrinks /\ Opens
<1> USE DEF IInv, TypeOK, ReleaseTickets, HasTicket, Standing, StaffChange
<1>1. Held'
  BY DEF Held
<1>2. Shrinks
  BY DEF Shrinks, InHold, Standing, Held
<1>3. Opens
  BY DEF Opens, InOpen, Pending, Held
<1> QED BY <1>1, <1>2, <1>3

LEMMA TickHolds ==
  ASSUME IInv, Held, Tick
  PROVE  Held' /\ Shrinks /\ Opens
<1> USE DEF IInv, TypeOK, Tick, Pending
<1>1. Held'
  <2>1. ASSUME NEW o \in Orders, status[o] = "pending", ~givenBack'[o] PROVE holdExpiresAt[o] > clock'
    BY <2>1
  <2>2. \A o \in Orders : began[o] <= clock => began[o] <= clock'
    OBVIOUS
  <2>3. UNCHANGED <<pc, lock, began, status, holdExpiresAt>>
    OBVIOUS
  <2> HIDE DEF Tick, IInv, TypeOK
  <2> QED BY <2>1, <2>2, <2>3 DEF Held
<1>2. Shrinks
  BY DEF Shrinks, InHold, Standing, Held
<1>3. Opens
  BY DEF Opens, InOpen, Pending, Held
<1> QED BY <1>1, <1>2, <1>3

\* The orders whose places were never given back are among the ones every count of TAKEN_SQL sees.
LEMMA HoldingTaken ==
  ASSUME IInv, Held, NEW now \in Nat, now <= clock
  PROVE  {o \in Orders : status[o] \in {"pending", "paid"} /\ ~givenBack[o]} \subseteq Taking(now)
BY DEF IInv, TypeOK, Held, Taking, Pending

LEMMA ReserveHolds ==
  ASSUME IInv, Held, Fits(Holding), NEW r \in Orders, Reserve(r)
  PROVE  Held' /\ Fits(Holding)'
<1>1. Held'
  BY OrdersAssumption DEF IInv, TypeOK, Reserve, Goto, Held
<1>2. CASE pc' = [pc EXCEPT ![r] = "reserved"]
  <2> DEFINE S == Holding
             T == Taking(began[r])
  <2>1. /\ SalesState(began[r]) /\ CheckOrder(lines[r], T)
        /\ pc[r] = "begun" /\ lock = NoOne /\ status[r] = "none"
        /\ UNCHANGED <<salesLimit, quantity, status, lines, refunded, givenBack>>
    BY <1>2 DEF Reserve, Goto, IInv, TypeOK, Flow
  <2>2. \A o \in Orders : pc[o] # "reserved"
    BY <2>1, OrdersAssumption DEF Held
  <2>3. S = {o \in Orders : status[o] \in {"pending", "paid"} /\ ~givenBack[o]}
    BY <2>2 DEF Holding, InHold
  <2>4. S \subseteq T /\ T \subseteq Orders /\ r \notin S
    <3>1. began[r] \in Nat /\ began[r] <= clock
      BY <2>1 DEF Held, IInv, TypeOK
    <3> QED BY <2>1, <2>3, <3>1, HoldingTaken DEF Taking
  <2>5. Holding' = S \cup {r}
    BY <1>2, <2>1, <2>2 DEF Holding, InHold, IInv, TypeOK
  <2>6. refunded[r] = [t \in Types |-> 0]
    BY <2>1 DEF IInv, TypeOK, Flow
  <2>7. /\ S \in SUBSET Orders /\ S \in SUBSET T /\ T \in SUBSET Orders /\ r \in Orders \ S
        /\ Fits(S)
    BY <2>4 DEF Holding
  <2> HIDE DEF S, T
  <2>8. /\ \A t \in Types : TakenOf(S \cup {r}, t) = TakenOf(S, t) + lines[r][t]
        /\ Taken(S \cup {r}) = Taken(S) + Count(lines[r])
    <3>1. \A t \in Types : Standing(r, t) = lines[r][t]
      BY <2>6 DEF Standing, IInv, TypeOK
    <3> QED BY <2>6, <2>7, <3>1, TakenWithOne
  <2>9. /\ \A t \in Types : TakenOf(S, t) \in Nat /\ TakenOf(T, t) \in Nat /\ TakenOf(S, t) <= TakenOf(T, t)
        /\ Taken(S) \in Nat /\ Taken(T) \in Nat /\ Taken(S) <= Taken(T)
    BY <2>7, TakenNat, TakenOfFewer
  <2>10. Count(lines[r]) \in Nat
    <3> DEFINE f == lines[r]
    <3>1. \A t \in Types : f[t] \in Nat
      BY DEF IInv, TypeOK
    <3> HIDE DEF f
    <3>2. SumFunctionOnSet(f, Types) \in Nat
      BY <3>1, TypesAssumption, SumNat
    <3> QED BY <3>2 DEF Count, f
  <2>11. salesLimit # NoLimit => Taken(S \cup {r}) <= salesLimit
    <3>1. salesLimit # NoLimit => Taken(T) + Count(lines[r]) <= salesLimit
      BY <2>1 DEF CheckOrder
    <3>2. salesLimit \in Int
      BY DEF IInv, TypeOK, NoLimit
    <3> QED BY <2>8, <2>9, <2>10, <3>1, <3>2
  <2>12. ASSUME NEW t \in Types, quantity[t] # NoLimit
         PROVE  TakenOf(S \cup {r}, t) <= quantity[t]
    <3>1. quantity[t] \in Int /\ lines[r][t] \in Nat
      BY DEF IInv, TypeOK, NoLimit
    <3>2. lines[r][t] > 0 => TakenOf(T, t) + lines[r][t] <= quantity[t]
      BY <2>1, <2>12 DEF CheckOrder
    <3>3. TakenOf(S, t) <= quantity[t]
      BY <2>7, <2>12 DEF Fits
    <3>4. CASE lines[r][t] > 0
      BY <2>8, <2>9, <3>1, <3>2, <3>4
    <3>5. CASE lines[r][t] = 0
      BY <2>8, <2>9, <3>1, <3>3, <3>5
    <3> QED BY <3>1, <3>4, <3>5
  <2>13. Fits(Holding)' <=>
           /\ salesLimit # NoLimit => Taken(Holding') <= salesLimit
           /\ \A t \in Types : quantity[t] # NoLimit => TakenOf(Holding', t) <= quantity[t]
    BY <2>1 DEF Fits, Taken, TakenOf, Standing
  <2> QED BY <1>1, <2>5, <2>11, <2>12, <2>13
<1>3. CASE pc' # [pc EXCEPT ![r] = "reserved"]
  <2>1. Shrinks
    BY <1>3 DEF Reserve, Goto, Shrinks, InHold, Standing, IInv, TypeOK
  <2>2. IInv'
    BY ReserveIInv
  <2> QED BY <1>1, <2>1, <2>2, ShrinkFits
<1> QED BY <1>1, <1>2, <1>3

LEMMA EditTypeHolds ==
  ASSUME IInv, Held, Fits(Holding), NEW t \in Types, NEW q \in Quantities, EditType(t, q)
  PROVE  Held' /\ Fits(Holding)'
<1>1. /\ UNCHANGED <<clock, salesLimit, status, lines, holdExpiresAt, refunded, givenBack, pc, began, lock>>
      /\ lock = NoOne /\ LimitMeets(q, TakenOf(Taking(clock), t)) /\ quantity' = [quantity EXCEPT ![t] = q]
  BY DEF EditType, StaffChange
<1>2. Held'
  BY <1>1 DEF Held
<1> DEFINE S == Holding
           T == Taking(clock)
<1>3. S \in SUBSET T /\ T \in SUBSET Orders /\ S \in SUBSET Orders
  <2>1. S = {o \in Orders : status[o] \in {"pending", "paid"} /\ ~givenBack[o]}
    BY <1>1, OrdersAssumption DEF Holding, InHold, Held
  <2>2. clock \in Nat /\ clock <= clock
    BY DEF IInv, TypeOK
  <2> QED BY <2>1, <2>2, HoldingTaken DEF Taking
<1>4. Fits(S) /\ Holding' = S
  BY <1>1 DEF Holding, InHold
<1> HIDE DEF S, T
<1>5. ASSUME NEW u \in Types, quantity'[u] # NoLimit PROVE TakenOf(S, u) <= quantity'[u]
  <2>1. TakenOf(S, u) <= TakenOf(T, u) /\ TakenOf(S, u) \in Nat /\ TakenOf(T, u) \in Nat
    BY <1>3, TakenOfFewer, TakenNat
  <2>2. quantity \in [Types -> Int] /\ q \in Int
    BY LimitsAssumption DEF IInv, TypeOK, NoLimit
  <2>3. CASE u = t
    BY <1>1, <1>5, <2>1, <2>2, <2>3 DEF LimitMeets, T
  <2>4. CASE u # t
    BY <1>1, <1>4, <1>5, <2>1, <2>2, <2>4 DEF Fits
  <2> QED BY <2>3, <2>4
<1>6. salesLimit # NoLimit => Taken(S) <= salesLimit
  BY <1>4 DEF Fits
<1>7. Fits(Holding)' <=> /\ salesLimit # NoLimit => Taken(Holding') <= salesLimit
                        /\ \A u \in Types : quantity'[u] # NoLimit => TakenOf(Holding', u) <= quantity'[u]
  BY <1>1 DEF Fits, Taken, TakenOf, Standing
<1> QED BY <1>2, <1>4, <1>5, <1>6, <1>7

LEMMA SetSalesLimitHolds ==
  ASSUME IInv, Held, Fits(Holding), NEW l \in Limits, SetSalesLimit(l)
  PROVE  Held' /\ Fits(Holding)'
<1>1. /\ UNCHANGED <<clock, quantity, status, lines, holdExpiresAt, refunded, givenBack, pc, began, lock>>
      /\ lock = NoOne /\ LimitMeets(l, Taken(Taking(clock))) /\ salesLimit' = l
  BY DEF SetSalesLimit, StaffChange
<1>2. Held'
  BY <1>1 DEF Held
<1> DEFINE S == Holding
           T == Taking(clock)
<1>3. S \in SUBSET T /\ T \in SUBSET Orders /\ S \in SUBSET Orders
  <2>1. S = {o \in Orders : status[o] \in {"pending", "paid"} /\ ~givenBack[o]}
    BY <1>1, OrdersAssumption DEF Holding, InHold, Held
  <2>2. clock \in Nat /\ clock <= clock
    BY DEF IInv, TypeOK
  <2> QED BY <2>1, <2>2, HoldingTaken DEF Taking
<1>4. Fits(S) /\ Holding' = S
  BY <1>1 DEF Holding, InHold
<1> HIDE DEF S
<1>5. l # NoLimit => Taken(S) <= l
  <2>1. l # NoLimit => Taken(T) <= l
    BY <1>1 DEF LimitMeets
  <2> HIDE DEF T
  <2>2. Taken(S) <= Taken(T) /\ Taken(S) \in Nat /\ Taken(T) \in Nat
    BY <1>3, TakenOfFewer, TakenNat
  <2>3. l \in Int
    BY LimitsAssumption DEF NoLimit
  <2> QED BY <2>1, <2>2, <2>3
<1>6. Fits(Holding)' <=> /\ l # NoLimit => Taken(Holding') <= l
                        /\ \A u \in Types : quantity[u] # NoLimit => TakenOf(Holding', u) <= quantity[u]
  BY <1>1 DEF Fits, Taken, TakenOf, Standing
<1> QED BY <1>2, <1>4, <1>5, <1>6 DEF Fits

\* Every other step lets no new place be held.
LEMMA OtherHolds ==
  ASSUME IInv, Held, [Next]_vars,
         ~ \E r \in Orders : Reserve(r),
         ~ \E t \in Types, q \in Quantities : EditType(t, q),
         ~ \E l \in Limits : SetSalesLimit(l)
  PROVE  Held' /\ Shrinks /\ Opens
<1>1. CASE UNCHANGED vars
  BY <1>1, QuietSteps
<1>2. ASSUME NEW r \in Orders, NEW want \in Wants, StartCheckout(r, want)
      PROVE  Held' /\ Shrinks /\ Opens
  BY <1>2, QuietSteps
<1>3. ASSUME NEW r \in Orders, RequestStep(r) \/ Crash(r)
      PROVE  Held' /\ Shrinks /\ Opens
  <2>1. ASSUME NEW e \in older[r], CloseOlderSession(r, e)
        PROVE  Held' /\ Shrinks /\ Opens
    BY <2>1, QuietSteps
  <2>2. ASSUME NEW e \in older[r], SupersedeOrder(r, e)
        PROVE  Held' /\ Shrinks /\ Opens
    BY <2>2, SupersedeOrderHolds
  <2>3. CASE CreateSession(r) \/ CloseLateSession(r) \/ Reply(r)
    BY <2>3, QuietSteps
  <2> QED BY <1>3, <2>1, <2>2, <2>3, BeginReserveHolds, CommitReserveHolds, ConfirmFreeOrderHolds,
             AttachSessionHolds, CancelPendingOrderHolds, CrashHolds DEF RequestStep
<1>4. ASSUME NEW o \in Orders, Pay(o) \/ SessionCloses(o) \/ HookStep(o) \/ HookAbort(o)
      PROVE  Held' /\ Shrinks /\ Opens
  <2>1. CASE Pay(o) \/ SessionCloses(o) \/ HookBegin(o) \/ MarkOrderPaid(o) \/ HookAbort(o)
    BY <2>1, QuietSteps
  <2> QED BY <1>4, <2>1, HookCommitHolds, MarkOrderExpiredHolds DEF HookStep
<1>5. CASE StaffStep
  <2>1. CASE (\E t \in Types : SetTypeStatus(t)) \/ \E closed \in BOOLEAN : SetSalesClosed(closed)
    BY <2>1, QuietSteps
  <2> QED BY <1>5, <2>1, CancelFreeBookingHolds, ReleaseTicketsHolds DEF StaffStep
<1>6. CASE Tick
  BY <1>6, TickHolds
<1> QED BY <1>1, <1>2, <1>3, <1>4, <1>5, <1>6 DEF Next

LEMMA NextFits ==
  IInv /\ Held /\ Fits(Holding) /\ [Next]_vars => Held' /\ Fits(Holding)'
<1> SUFFICES ASSUME IInv, Held, Fits(Holding), [Next]_vars PROVE Held' /\ Fits(Holding)'
  OBVIOUS
<1>1. CASE \E r \in Orders : Reserve(r)
  BY <1>1, ReserveHolds
<1>2. CASE \E t \in Types, q \in Quantities : EditType(t, q)
  BY <1>2, EditTypeHolds
<1>3. CASE \E l \in Limits : SetSalesLimit(l)
  BY <1>3, SetSalesLimitHolds
<1>4. CASE ~ (\E r \in Orders : Reserve(r)) /\ ~ (\E t \in Types, q \in Quantities : EditType(t, q))
           /\ ~ \E l \in Limits : SetSalesLimit(l)
  <2>1. Held' /\ Shrinks
    BY <1>4, OtherHolds
  <2>2. IInv'
    BY NextIInv
  <2> QED BY <2>1, <2>2, ShrinkFits
<1> QED BY <1>1, <1>2, <1>3, <1>4

LEMMA InitFits == Init => Held /\ Fits(Holding)
<1> SUFFICES ASSUME Init PROVE Held /\ Fits(Holding)
  OBVIOUS
<1>1. Held
  BY DEF Init, Held
<1>2. Holding = {}
  BY DEF Init, Holding, InHold
<1>3. \A t \in Types : TakenOf({}, t) = 0
  BY SumEmpty DEF TakenOf
<1>4. Taken({}) = 0
  <2> DEFINE f == [t \in Types |-> TakenOf({}, t)]
  <2>1. \A t \in Types : f[t] = 0
    BY <1>3
  <2> HIDE DEF f
  <2>2. SumFunctionOnSet(f, Types) = 0
    BY <2>1, TypesAssumption, SumZero
  <2> QED BY <2>2 DEF Taken, f
<1>5. salesLimit \in Nat \cup {NoLimit} /\ \A t \in Types : quantity[t] \in Nat \cup {NoLimit}
  BY LimitsAssumption DEF Init
<1> QED BY <1>1, <1>2, <1>3, <1>4, <1>5 DEF Fits

\* The event is never oversold to buyers whose places were held all along (readTicketState under the
\* event's lock, reserveOrder), for any number of requests, types, limits and times.
THEOREM NeverOversold == Spec => []Capacity
<1>1. Init => IInv /\ Held /\ Fits(Holding)
  BY InitIInv, InitFits
<1>2. IInv /\ Held /\ Fits(Holding) /\ [Next]_vars => (IInv /\ Held /\ Fits(Holding))'
  BY NextIInv, NextFits
<1>3. IInv /\ Held /\ Fits(Holding) => Capacity
  BY CapacityIsFits
<1> QED BY <1>1, <1>2, <1>3, PTL DEF Spec

(* The cap on open checkouts                                                 *)

Open == {o \in Orders : InOpen(o)}
Capped(S) == \A r \in Orders : ByEmail(S, r) <= LiveHoldsMax /\ ByIp(S, r) <= LiveHoldsMax

LEMMA HoldCapIsCapped == HoldCap <=> Capped(Open)
<1> DEFINE S == OpenCheckouts(clock) \cup {o \in Orders : pc[o] = "reserved"}
<1>1. S = Open
  BY DEF Open, InOpen, OpenCheckouts
<1>2. HoldCap <=> Capped(S)
  BY Zenon DEF HoldCap, Capped
<1> HIDE DEF S
<1> QED BY <1>1, <1>2

\* Fewer orders are fewer of one email, and of one address.
LEMMA CappedFewer ==
  ASSUME NEW S \in SUBSET Orders, NEW R \in SUBSET S, NEW r \in Orders
  PROVE  /\ ByEmail(R, r) \in Nat /\ ByEmail(S, r) \in Nat /\ ByEmail(R, r) <= ByEmail(S, r)
         /\ ByIp(R, r) \in Nat /\ ByIp(S, r) \in Nat /\ ByIp(R, r) <= ByIp(S, r)
<1> DEFINE Es(Q) == {o \in Q : EmailOf[o] = EmailOf[r]}
           Is(Q) == {o \in Q : IpOf[o] = IpOf[r]}
<1>1. /\ IsFiniteSet(Es(S)) /\ IsFiniteSet(Es(R)) /\ Es(R) \in SUBSET Es(S)
      /\ IsFiniteSet(Is(S)) /\ IsFiniteSet(Is(R)) /\ Is(R) \in SUBSET Is(S)
  BY OrdersAssumption, FS_Subset
<1>2. /\ ByEmail(R, r) = Cardinality(Es(R)) /\ ByEmail(S, r) = Cardinality(Es(S))
      /\ ByIp(R, r) = IF IpOf[r] = NoIp THEN 0 ELSE Cardinality(Is(R))
      /\ ByIp(S, r) = IF IpOf[r] = NoIp THEN 0 ELSE Cardinality(Is(S))
  BY DEF ByEmail, ByIp
<1> HIDE DEF Es, Is
<1>3. /\ Cardinality(Es(R)) \in Nat /\ Cardinality(Es(S)) \in Nat
      /\ Cardinality(Is(R)) \in Nat /\ Cardinality(Is(S)) \in Nat
  BY <1>1, FS_CardinalityType
<1>4. Cardinality(Es(R)) <= Cardinality(Es(S)) /\ Cardinality(Is(R)) <= Cardinality(Is(S))
  BY <1>1, FS_Subset
<1> QED BY <1>2, <1>3, <1>4

\* One order more counts one more for its own buyer, and no more for the others.
LEMMA CappedWithOne ==
  ASSUME NEW S \in SUBSET Orders, NEW q \in Orders \ S, NEW r \in Orders
  PROVE  /\ EmailOf[q] = EmailOf[r] => ByEmail(S \cup {q}, r) = ByEmail(S, q) + 1
         /\ EmailOf[q] # EmailOf[r] => ByEmail(S \cup {q}, r) = ByEmail(S, r)
         /\ IpOf[q] = IpOf[r] /\ IpOf[r] # NoIp => ByIp(S \cup {q}, r) = ByIp(S, q) + 1
         /\ IpOf[q] # IpOf[r] \/ IpOf[r] = NoIp => ByIp(S \cup {q}, r) = ByIp(S, r)
<1> DEFINE Es(Q) == {o \in Q : EmailOf[o] = EmailOf[r]}
           Is(Q) == {o \in Q : IpOf[o] = IpOf[r]}
<1>1. /\ IsFiniteSet(Es(S)) /\ q \notin Es(S)
      /\ IsFiniteSet(Is(S)) /\ q \notin Is(S)
  BY OrdersAssumption, FS_Subset
<1>2. /\ EmailOf[q] = EmailOf[r] => Es(S \cup {q}) = Es(S) \cup {q}
      /\ EmailOf[q] # EmailOf[r] => Es(S \cup {q}) = Es(S)
      /\ IpOf[q] = IpOf[r] => Is(S \cup {q}) = Is(S) \cup {q}
      /\ IpOf[q] # IpOf[r] => Is(S \cup {q}) = Is(S)
  OBVIOUS
<1>3. /\ \A Q : ByEmail(Q, r) = Cardinality(Es(Q))
      /\ \A Q : ByIp(Q, r) = IF IpOf[r] = NoIp THEN 0 ELSE Cardinality(Is(Q))
      /\ EmailOf[q] = EmailOf[r] => ByEmail(S, q) = Cardinality(Es(S))
      /\ IpOf[q] = IpOf[r] => ByIp(S, q) = IF IpOf[r] = NoIp THEN 0 ELSE Cardinality(Is(S))
  BY DEF ByEmail, ByIp
<1> HIDE DEF Es, Is
<1>4. /\ Cardinality(Es(S) \cup {q}) = Cardinality(Es(S)) + 1
      /\ Cardinality(Is(S) \cup {q}) = Cardinality(Is(S)) + 1
  BY <1>1, FS_AddElement
<1> QED BY <1>2, <1>3, <1>4

LEMMA ReserveCapped ==
  ASSUME IInv, Held, Capped(Open), NEW r \in Orders, Reserve(r)
  PROVE  Capped(Open)'
<1>1. CASE pc' = [pc EXCEPT ![r] = "reserved"]
  <2> DEFINE S == Open
             T == OpenCheckouts(began[r])
  <2>1. /\ UnderCaps(r, began[r]) /\ pc[r] = "begun" /\ lock = NoOne /\ status[r] = "none"
        /\ UNCHANGED <<status, holdExpiresAt, clock>>
    BY <1>1 DEF Reserve, Goto, IInv, TypeOK, Flow
  <2>2. \A o \in Orders : pc[o] # "reserved"
    BY <2>1, OrdersAssumption DEF Held
  <2>3. S \in SUBSET T /\ T \in SUBSET Orders /\ S \in SUBSET Orders /\ r \in Orders \ S
    <3>1. began[r] <= clock /\ began[r] \in Nat /\ clock \in Nat /\ \A o \in Orders : holdExpiresAt[o] \in Nat
      BY <2>1 DEF Held, IInv, TypeOK
    <3> QED BY <2>1, <2>2, <3>1 DEF Open, InOpen, OpenCheckouts, Pending
  <2>4. Open' = S \cup {r}
    BY <1>1, <2>1 DEF Open, InOpen, Pending, IInv, TypeOK
  <2>5. ByEmail(T, r) < LiveHoldsMax /\ ByIp(T, r) < LiveHoldsMax /\ Capped(S)
    BY <2>1 DEF UnderCaps
  <2> HIDE DEF S, T
  <2>6. ASSUME NEW q \in Orders PROVE ByEmail(S \cup {r}, q) <= LiveHoldsMax /\ ByIp(S \cup {r}, q) <= LiveHoldsMax
    <3>1. /\ ByEmail(S, r) \in Nat /\ ByEmail(T, r) \in Nat /\ ByEmail(S, r) <= ByEmail(T, r)
          /\ ByIp(S, r) \in Nat /\ ByIp(T, r) \in Nat /\ ByIp(S, r) <= ByIp(T, r)
      BY <2>3, CappedFewer
    <3>2. ByEmail(S, q) <= LiveHoldsMax /\ ByIp(S, q) <= LiveHoldsMax
      BY <2>5 DEF Capped
    <3>3. LiveHoldsMax \in Nat
      BY LimitsAssumption
    <3>4. ByEmail(S \cup {r}, q) \in {ByEmail(S, r) + 1, ByEmail(S, q)}
      BY <2>3, CappedWithOne
    <3>5. ByIp(S \cup {r}, q) \in {ByIp(S, r) + 1, ByIp(S, q)}
      BY <2>3, CappedWithOne
    <3> QED BY <2>5, <3>1, <3>2, <3>3, <3>4, <3>5
  <2> QED BY <2>4, <2>6 DEF Capped, ByEmail, ByIp
<1>2. CASE pc' # [pc EXCEPT ![r] = "reserved"]
  <2>1. Open' = Open
    BY <1>2 DEF Reserve, Goto, Open, InOpen, Pending, IInv, TypeOK
  <2> QED BY <2>1 DEF Capped, ByEmail, ByIp
<1> QED BY <1>1, <1>2

LEMMA NextCapped ==
  IInv /\ Held /\ Capped(Open) /\ [Next]_vars => Capped(Open)'
<1> SUFFICES ASSUME IInv, Held, Capped(Open), [Next]_vars PROVE Capped(Open)'
  OBVIOUS
<1>1. CASE \E r \in Orders : Reserve(r)
  BY <1>1, ReserveCapped
<1>2. ASSUME Open' \subseteq Open PROVE Capped(Open)'
  <2>1. Open \in SUBSET Orders /\ Open' \in SUBSET Open
    BY <1>2 DEF Open
  <2>2. ASSUME NEW r \in Orders PROVE ByEmail(Open', r) <= LiveHoldsMax /\ ByIp(Open', r) <= LiveHoldsMax
    <3>1. ByEmail(Open, r) <= LiveHoldsMax /\ ByIp(Open, r) <= LiveHoldsMax
      BY DEF Capped
    <3>2. LiveHoldsMax \in Nat
      BY LimitsAssumption
    <3> QED BY <2>1, <3>1, <3>2, CappedFewer
  <2> QED BY <2>2 DEF Capped, ByEmail, ByIp
<1>3. CASE (\E t \in Types, q \in Quantities : EditType(t, q)) \/ \E l \in Limits : SetSalesLimit(l)
  <2>1. Open' = Open
    BY <1>3 DEF EditType, SetSalesLimit, StaffChange, Open, InOpen, Pending
  <2> QED BY <2>1, <1>2
<1>4. CASE ~ (\E r \in Orders : Reserve(r)) /\ ~ (\E t \in Types, q \in Quantities : EditType(t, q))
           /\ ~ \E l \in Limits : SetSalesLimit(l)
  <2>1. Opens
    BY <1>4, OtherHolds
  <2>2. Open' \subseteq Open
    BY <2>1 DEF Opens, Open
  <2> QED BY <2>2, <1>2
<1> QED BY <1>1, <1>3, <1>4

LEMMA InitCapped == Init => Capped(Open)
<1> SUFFICES ASSUME Init PROVE Capped(Open)
  OBVIOUS
<1>1. Open = {}
  BY DEF Init, Open, InOpen, Pending
<1>2. \A r \in Orders : ByEmail({}, r) = 0 /\ ByIp({}, r) = 0
  <2>1. ASSUME NEW r \in Orders
        PROVE  {o \in {} : EmailOf[o] = EmailOf[r]} = {} /\ {o \in {} : IpOf[o] = IpOf[r]} = {}
    OBVIOUS
  <2> QED BY <2>1, FS_EmptySet DEF ByEmail, ByIp
<1> QED BY <1>1, <1>2, LimitsAssumption DEF Capped

\* No one holds the room by asking again: one email, and one address, has at most LIVE_HOLDS_MAX
\* checkouts open (the caps of reserveOrder).
THEOREM HoldsAreCapped == Spec => []HoldCap
<1>1. Init => IInv /\ Held /\ Fits(Holding) /\ Capped(Open)
  BY InitIInv, InitFits, InitCapped
<1>2. IInv /\ Held /\ Fits(Holding) /\ Capped(Open) /\ [Next]_vars
        => (IInv /\ Held /\ Fits(Holding) /\ Capped(Open))'
  BY NextIInv, NextFits, NextCapped
<1>3. Capped(Open) => HoldCap
  BY HoldCapIsCapped
<1> QED BY <1>1, <1>2, <1>3, PTL DEF Spec
=============================================================================
