---------------------------- MODULE TicketSales ----------------------------
(***************************************************************************)
(* Selling the tickets of one event: src/src/db/event-tickets.ts and the   *)
(* checkout route of src/src/routes/event-tickets.ts, with Stripe's        *)
(* Checkout and its webhook around them.                                   *)
(*                                                                         *)
(* The actors are the web server's checkout requests (several at once, on  *)
(* several server processes), the buyers on Stripe's pages, Stripe's       *)
(* webhook, staff, and the clock.  An SQL statement is one step.  A        *)
(* transaction of several statements is several steps: its now() is the    *)
(* time it began, and nobody sees its writes before it commits.  A request *)
(* makes at most one order, so an order is named by its request.           *)
(***************************************************************************)
EXTENDS Integers, FiniteSets, Functions

CONSTANTS
  Orders,          \* the checkout requests, each naming the order it makes
  NoOne,           \* the event's row lock when nobody has it
  Types,           \* the event's ticket types
  FreeTypes,       \* the ones that cost nothing
  Wants,           \* what a buyer may ask for: functions from Types to how many
  EmailOf, IpOf,   \* the buyer's email and address, for each request
  NoIp,            \* the address of a request that is not capped by address
  Quantities,      \* the numbers on sale staff may set for a type (or NoLimit)
  Limits,          \* the limits staff may set for the event (or NoLimit)
  StartsAt,        \* when the event starts, and its sales close
  UnattachedHold,  \* UNATTACHED_HOLD_MINUTES
  CheckoutTime,    \* CHECKOUT_MINUTES
  HoldTime,        \* HOLD_MINUTES
  LiveHoldsMax, FreeBookingsMax, FreeBookingsIpMax,
  MaxTransaction,  \* how long a transaction may stay open
  MaxClock, MaxAborts, MaxStaffChanges   \* bounds of the model, not of the code

NoLimit == -1

ASSUME OrdersAssumption == NoOne \notin Orders /\ IsFiniteSet(Orders)
ASSUME TypesAssumption ==
  /\ IsFiniteSet(Types)
  /\ FreeTypes \subseteq Types
  /\ Wants \subseteq [Types -> Nat]
  /\ \A want \in Wants : \E t \in Types : want[t] > 0
ASSUME LimitsAssumption ==
  /\ Quantities \cup Limits \subseteq Nat \cup {NoLimit}
  /\ {LiveHoldsMax, FreeBookingsMax, FreeBookingsIpMax} \subseteq Nat
\* The checkout Stripe opens closes before the hold attached to it runs out.
ASSUME TimesAssumption ==
  /\ {UnattachedHold, CheckoutTime, HoldTime, StartsAt, MaxClock, MaxTransaction} \subseteq Nat
  /\ CheckoutTime <= HoldTime /\ HoldTime > 0

VARIABLES
  clock,
  (* the event: its settings row and its types *)
  salesLimit, quantity, onSale, salesClosed,
  lock,            \* the request whose transaction has the settings row locked
  (* the orders, column by column *)
  status, lines, holdExpiresAt, attached, refunded,
  paidLate,        \* flags.paidLate: none, late, or late with the event over its limit
  (* Stripe's checkout for each order *)
  session, closesAt,
  url,             \* the buyer has been sent to it
  (* the checkout requests *)
  pc, began,
  older,           \* the same buyer's older orders still to close
  (* the webhook's transaction for each order's payment *)
  hook, hookBegan, hookLate,
  ledger,          \* the orders whose Stripe event has been committed
  (* counters that bound the model, and a history variable *)
  aborts, staffChanges,
  givenBack        \* the order's places have been given back (kept for the properties)

eventVars   == <<salesLimit, quantity, onSale, salesClosed>>
orderVars   == <<status, lines, holdExpiresAt, attached, refunded, paidLate, givenBack>>
stripeVars  == <<session, closesAt, url>>
requestVars == <<pc, began, older>>
hookVars    == <<hook, hookBegan, hookLate, ledger, aborts>>
vars == <<clock, eventVars, lock, orderVars, stripeVars, requestVars, hookVars, staffChanges>>

Statuses == {"none", "pending", "paid", "expired", "cancelled"}
Sessions == {"none", "open", "complete", "expired"}
Steps    == {"idle", "supersede", "begun", "reserved", "confirm", "create",
             "attach", "close", "cancel", "reply", "done"}
Lateness == {"none", "late", "over"}
Older    == [order : Orders, session : {"none", "open", "closed"}]

TypeOK ==
  /\ clock \in Nat
  /\ salesLimit \in Nat \cup {NoLimit}
  /\ quantity \in [Types -> Nat \cup {NoLimit}]
  /\ onSale \subseteq Types
  /\ salesClosed \in BOOLEAN
  /\ lock \in Orders \cup {NoOne}
  /\ status \in [Orders -> Statuses]
  /\ lines \in [Orders -> [Types -> Nat]]
  /\ holdExpiresAt \in [Orders -> Nat]
  /\ attached \in [Orders -> BOOLEAN]
  /\ refunded \in [Orders -> [Types -> Nat]]
  /\ \A o \in Orders : \A t \in Types : refunded[o][t] <= lines[o][t]
  /\ paidLate \in [Orders -> Lateness]
  /\ givenBack \in [Orders -> BOOLEAN]
  /\ session \in [Orders -> Sessions]
  /\ closesAt \in [Orders -> Nat]
  /\ url \in [Orders -> BOOLEAN]
  /\ pc \in [Orders -> Steps]
  /\ began \in [Orders -> Nat]
  /\ older \in [Orders -> SUBSET Older]
  /\ hook \in [Orders -> {"idle", "begun", "marked"}]
  /\ hookBegan \in [Orders -> Nat]
  /\ hookLate \in [Orders -> Lateness]
  /\ ledger \subseteq Orders
  /\ aborts \in Nat
  /\ staffChanges \in Nat

Init ==
  /\ clock = 0
  /\ salesLimit \in Limits
  /\ quantity \in [Types -> Quantities]
  /\ onSale = Types
  /\ salesClosed = FALSE
  /\ lock = NoOne
  /\ status = [o \in Orders |-> "none"]
  /\ lines = [o \in Orders |-> [t \in Types |-> 0]]
  /\ holdExpiresAt = [o \in Orders |-> 0]
  /\ attached = [o \in Orders |-> FALSE]
  /\ refunded = [o \in Orders |-> [t \in Types |-> 0]]
  /\ paidLate = [o \in Orders |-> "none"]
  /\ givenBack = [o \in Orders |-> FALSE]
  /\ session = [o \in Orders |-> "none"]
  /\ closesAt = [o \in Orders |-> 0]
  /\ url = [o \in Orders |-> FALSE]
  /\ pc = [o \in Orders |-> "idle"]
  /\ began = [o \in Orders |-> 0]
  /\ older = [o \in Orders |-> {}]
  /\ hook = [o \in Orders |-> "idle"]
  /\ hookBegan = [o \in Orders |-> 0]
  /\ hookLate = [o \in Orders |-> "none"]
  /\ ledger = {}
  /\ aborts = 0
  /\ staffChanges = 0

----------------------------------------------------------------------------
(* What is taken, what is left, and who may have it                        *)

Pending(o, now) == status[o] = "pending" /\ holdExpiresAt[o] > now

\* TAKEN_SQL's orders: paid, or held by a checkout still inside its hold.
TakingPaidOnly(now) == {o \in Orders : status[o] = "paid"}   \* mutant: open holds forgotten
Taking(now) == {o \in Orders : status[o] = "paid" \/ Pending(o, now)}

Standing(o, t) == lines[o][t] - refunded[o][t]
TakenOf(S, t)  == SumFunctionOnSet([o \in Orders |-> Standing(o, t)], S)
Taken(S)       == SumFunctionOnSet([t \in Types |-> TakenOf(S, t)], Types)
Count(want)    == SumFunctionOnSet(want, Types)

\* overBy > 0: the orders S are over the event's limit, or a type's own number on sale.
Over(S) ==
  \/ salesLimit # NoLimit /\ Taken(S) > salesLimit
  \/ \E t \in Types : quantity[t] # NoLimit /\ TakenOf(S, t) > quantity[t]

\* Can this order be met from what the orders S leave?
CheckOrder(want, S) ==
  /\ salesLimit # NoLimit => Taken(S) + Count(want) <= salesLimit
  /\ \A t \in Types : want[t] > 0 =>
       /\ t \in onSale
       /\ quantity[t] # NoLimit => TakenOf(S, t) + want[t] <= quantity[t]

\* Sales are open: not closed by hand, not started, something on sale.
SalesState(now) == ~salesClosed /\ now < StartsAt /\ onSale # {}

Free(o) == \A t \in Types : lines[o][t] > 0 => t \in FreeTypes

ByEmail(S, r) == Cardinality({o \in S : EmailOf[o] = EmailOf[r]})
ByIp(S, r)    == IF IpOf[r] = NoIp THEN 0 ELSE Cardinality({o \in S : IpOf[o] = IpOf[r]})

OpenCheckouts(now) == {o \in Orders : Pending(o, now)}
FreeBookings(now) ==
  {o \in Taking(now) : Free(o) /\ \E t \in Types : Standing(o, t) > 0}

UnderCapsFreeOnly(r, now) ==   \* mutant: the cap on open checkouts forgotten
  Free(r) => ByEmail(FreeBookings(now), r) < FreeBookingsMax
UnderCaps(r, now) ==
  /\ ByEmail(OpenCheckouts(now), r) < LiveHoldsMax
  /\ ByIp(OpenCheckouts(now), r) < LiveHoldsMax
  /\ Free(r) => /\ ByEmail(FreeBookings(now), r) < FreeBookingsMax
                /\ ByIp(FreeBookings(now), r) < FreeBookingsIpMax

SameBuyer(o, r) == EmailOf[o] = EmailOf[r] /\ IpOf[o] = IpOf[r]

\* No other transaction has this order's row locked.
RowFree(o) == hook[o] # "marked"

Goto(r, step) == pc' = [pc EXCEPT ![r] = step]

----------------------------------------------------------------------------
(* A checkout request: postTicketCheckout                                  *)

\* openOrdersOfBuyer: the same buyer's open orders, as they are now.
StartCheckout(r, want) ==
  /\ pc[r] = "idle"
  /\ lines' = [lines EXCEPT ![r] = want]
  /\ older' = [older EXCEPT ![r] =
       {[order |-> o, session |-> IF attached[o] THEN "open" ELSE "none"] :
          o \in {p \in Orders : Pending(p, clock) /\ SameBuyer(p, r)}}]
  /\ Goto(r, "supersede")
  /\ UNCHANGED <<clock, eventVars, lock, status, holdExpiresAt, attached, refunded, paidLate,
                 givenBack, stripeVars, began, hookVars, staffChanges>>

\* supersedeOlder: the older checkout is closed at Stripe first.  If Stripe says no (it is
\* no longer open) or its answer is lost, the order is left as it is.
CloseOlderSession(r, e) ==
  /\ pc[r] = "supersede" /\ e \in older[r] /\ e.session = "open"
  /\ \/ /\ session[e.order] = "open"
        /\ session' = [session EXCEPT ![e.order] = "expired"]
        /\ \/ older' = [older EXCEPT ![r] = (@ \ {e}) \cup {[e EXCEPT !.session = "closed"]}]
           \/ older' = [older EXCEPT ![r] = @ \ {e}]
     \/ /\ older' = [older EXCEPT ![r] = @ \ {e}]
        /\ UNCHANGED session
  /\ UNCHANGED <<clock, eventVars, lock, orderVars, closesAt, url, pc, began, hookVars, staffChanges>>

\* Stripe's checkout of the older order is still the one that was read (and closed).
SessionNotCompared(e) == TRUE   \* mutant: cancelled whatever checkout it now has
SessionAsRead(e) == attached[e.order] = (e.session = "closed")

\* supersedeOrder: only if it is pending with the checkout it was read with (or the update fails,
\* and the order is left to its hold).
SupersedeOrder(r, e) ==
  /\ pc[r] = "supersede" /\ e \in older[r] /\ e.session # "open"
  /\ RowFree(e.order)
  /\ \/ /\ status[e.order] = "pending" /\ SessionAsRead(e)
        /\ status' = [status EXCEPT ![e.order] = "cancelled"]
        /\ givenBack' = [givenBack EXCEPT ![e.order] = TRUE]
     \/ UNCHANGED <<status, givenBack>>
  /\ older' = [older EXCEPT ![r] = @ \ {e}]
  /\ UNCHANGED <<clock, eventVars, lock, lines, holdExpiresAt, attached, refunded, paidLate,
                 stripeVars, pc, began, hookVars, staffChanges>>

\* reserveOrder begins: its now() is fixed here.
BeginReserve(r) ==
  /\ pc[r] = "supersede" /\ older[r] = {}
  /\ began' = [began EXCEPT ![r] = clock]
  /\ Goto(r, "begun")
  /\ UNCHANGED <<clock, eventVars, lock, orderVars, stripeVars, older, hookVars, staffChanges>>

\* It has the event's lock: everything is read again, and the order is written or refused.
Reserve(r) ==
  /\ pc[r] = "begun" /\ lock = NoOne
  /\ IF /\ SalesState(began[r])
        /\ CheckOrder(lines[r], Taking(began[r]))
        /\ UnderCaps(r, began[r])
       THEN lock' = r /\ Goto(r, "reserved")
       ELSE Goto(r, "done") /\ UNCHANGED lock
  /\ UNCHANGED <<clock, eventVars, orderVars, stripeVars, began, older, hookVars, staffChanges>>

\* It commits: the others see the order, and the lock is free.
CommitReserve(r) ==
  /\ pc[r] = "reserved"
  /\ status' = [status EXCEPT ![r] = "pending"]
  /\ holdExpiresAt' = [holdExpiresAt EXCEPT ![r] = began[r] + UnattachedHold]
  /\ givenBack' = [givenBack EXCEPT ![r] = began[r] + UnattachedHold <= clock]
  /\ lock' = NoOne
  /\ Goto(r, IF Free(r) THEN "confirm" ELSE "create")
  /\ UNCHANGED <<clock, eventVars, lines, attached, refunded, paidLate, stripeVars, began,
                 older, hookVars, staffChanges>>

\* confirmFreeOrder: nothing to pay, so it is booked at once; or it fails, and is cancelled.
ConfirmFreeOrder(r) ==
  /\ pc[r] = "confirm"
  /\ \/ /\ status[r] = "pending" /\ Free(r)
        /\ status' = [status EXCEPT ![r] = "paid"]
        /\ attached' = [attached EXCEPT ![r] = TRUE]
        /\ Goto(r, "done")
     \/ Goto(r, "cancel") /\ UNCHANGED <<status, attached>>
  /\ UNCHANGED <<clock, eventVars, lock, lines, holdExpiresAt, refunded, paidLate, givenBack,
                 stripeVars, began, older, hookVars, staffChanges>>

\* Stripe opens the checkout; or fails; or opens it and its answer is lost.
CreateSession(r) ==
  /\ pc[r] = "create"
  /\ \/ /\ session' = [session EXCEPT ![r] = "open"]
        /\ closesAt' = [closesAt EXCEPT ![r] = clock + CheckoutTime]
        /\ Goto(r, "attach") \/ Goto(r, "cancel")
     \/ Goto(r, "cancel") /\ UNCHANGED <<session, closesAt>>
  /\ UNCHANGED <<clock, eventVars, lock, orderVars, url, began, older, hookVars, staffChanges>>

\* The hold has not run out, so its places are still its own.
MayAttachPending(r) == status[r] = "pending"   \* mutant: a hold run out is brought back
MayAttach(r) == Pending(r, clock)

\* How long the attached hold lasts.
AttachedUntilShort == clock + UnattachedHold   \* mutant: the short hold again
AttachedUntil == clock + HoldTime

\* attachSession: only while the first short hold has not run out.  The last case is the
\* database's answer lost, whether or not the update was made.
AttachSession(r) ==
  /\ pc[r] = "attach" /\ RowFree(r)
  /\ LET attach == /\ MayAttach(r)
                   /\ attached' = [attached EXCEPT ![r] = TRUE]
                   /\ holdExpiresAt' = [holdExpiresAt EXCEPT ![r] = AttachedUntil]
     IN \/ attach /\ Goto(r, "reply")
        \/ ~MayAttach(r) /\ Goto(r, "close") /\ UNCHANGED <<attached, holdExpiresAt>>
        \/ (attach \/ UNCHANGED <<attached, holdExpiresAt>>) /\ Goto(r, "cancel")
  /\ UNCHANGED <<clock, eventVars, lock, status, lines, refunded, paidLate, givenBack,
                 stripeVars, began, older, hookVars, staffChanges>>

\* The hold had run out: the checkout just opened is closed (best effort).
CloseLateSession(r) ==
  /\ pc[r] = "close"
  /\ \/ session[r] = "open" /\ session' = [session EXCEPT ![r] = "expired"]
     \/ UNCHANGED session
  /\ Goto(r, "cancel")
  /\ UNCHANGED <<clock, eventVars, lock, orderVars, closesAt, url, began, older, hookVars, staffChanges>>

\* cancelPendingOrder: the places straight back (or it fails, and the hold runs out).
CancelPendingOrder(r) ==
  /\ pc[r] = "cancel" /\ RowFree(r)
  /\ \/ /\ status[r] = "pending"
        /\ status' = [status EXCEPT ![r] = "cancelled"]
        /\ givenBack' = [givenBack EXCEPT ![r] = TRUE]
     \/ UNCHANGED <<status, givenBack>>
  /\ Goto(r, "done")
  /\ UNCHANGED <<clock, eventVars, lock, lines, holdExpiresAt, attached, refunded, paidLate,
                 stripeVars, began, older, hookVars, staffChanges>>

\* The answer reaches the buyer, who is sent to Stripe's page.
Reply(r) ==
  /\ pc[r] = "reply"
  /\ url' = [url EXCEPT ![r] = TRUE]
  /\ Goto(r, "done")
  /\ UNCHANGED <<clock, eventVars, lock, orderVars, session, closesAt, began, older, hookVars, staffChanges>>

\* mutant: the dead transaction keeps its lock
CrashKeepsLock(r) ==
  /\ pc[r] \notin {"idle", "done"}
  /\ Goto(r, "done")
  /\ UNCHANGED <<clock, eventVars, lock, orderVars, stripeVars, began, older, hookVars, staffChanges>>

\* The server process dies: the request goes no further, an open transaction rolls back.
Crash(r) ==
  /\ pc[r] \notin {"idle", "done"}
  /\ lock' = IF lock = r THEN NoOne ELSE lock
  /\ Goto(r, "done")
  /\ UNCHANGED <<clock, eventVars, orderVars, stripeVars, began, older, hookVars, staffChanges>>

----------------------------------------------------------------------------
(* Stripe, and its webhook (each event's work commits with its id)         *)

\* The buyer pays on Stripe's page while it is open.
Pay(o) ==
  /\ session[o] = "open" /\ url[o] /\ clock < closesAt[o]
  /\ session' = [session EXCEPT ![o] = "complete"]
  /\ UNCHANGED <<clock, eventVars, lock, orderVars, closesAt, url, requestVars, hookVars, staffChanges>>

\* Stripe closes a checkout at its time.
SessionCloses(o) ==
  /\ session[o] = "open" /\ clock >= closesAt[o]
  /\ session' = [session EXCEPT ![o] = "expired"]
  /\ UNCHANGED <<clock, eventVars, lock, orderVars, closesAt, url, requestVars, hookVars, staffChanges>>

\* checkout.session.completed is delivered: the transaction begins, and its now() is fixed.
HookBegin(o) ==
  /\ session[o] = "complete" /\ o \notin ledger /\ hook[o] = "idle"
  /\ hook' = [hook EXCEPT ![o] = "begun"]
  /\ hookBegan' = [hookBegan EXCEPT ![o] = clock]
  /\ UNCHANGED <<clock, eventVars, lock, orderVars, stripeVars, requestVars, hookLate, ledger,
                 aborts, staffChanges>>

\* markOrderPaid: the order's row is locked; a payment whose places had been given back is
\* flagged, with whether the event is now over its limit, as this transaction sees it.
MarkOrderPaid(o) ==
  /\ hook[o] = "begun"
  /\ hook' = [hook EXCEPT ![o] = "marked"]
  /\ hookLate' = [hookLate EXCEPT ![o] =
       IF status[o] = "paid" \/ Pending(o, hookBegan[o]) THEN "none"
       ELSE IF Over(Taking(hookBegan[o]) \cup {o}) THEN "over" ELSE "late"]
  /\ UNCHANGED <<clock, eventVars, lock, orderVars, stripeVars, requestVars, hookBegan, ledger,
                 aborts, staffChanges>>

\* The payment, its flag and the event's id commit together.
HookCommit(o) ==
  /\ hook[o] = "marked"
  /\ IF status[o] = "paid"
       THEN UNCHANGED <<status, attached, paidLate>>
       ELSE /\ status' = [status EXCEPT ![o] = "paid"]
            /\ attached' = [attached EXCEPT ![o] = TRUE]
            /\ paidLate' = [paidLate EXCEPT ![o] = hookLate[o]]
  /\ hook' = [hook EXCEPT ![o] = "idle"]
  /\ hookLate' = [hookLate EXCEPT ![o] = "none"]
  /\ ledger' = ledger \cup {o}
  /\ UNCHANGED <<clock, eventVars, lock, lines, holdExpiresAt, refunded, givenBack, stripeVars,
                 requestVars, hookBegan, aborts, staffChanges>>

\* mutant: the event's id was claimed in a transaction of its own
HookAbortClaimed(o) ==
  /\ hook[o] # "idle" /\ aborts < MaxAborts
  /\ hook' = [hook EXCEPT ![o] = "idle"]
  /\ hookLate' = [hookLate EXCEPT ![o] = "none"]
  /\ aborts' = aborts + 1
  /\ ledger' = ledger \cup {o}
  /\ UNCHANGED <<clock, eventVars, lock, orderVars, stripeVars, requestVars, hookBegan, staffChanges>>

\* It fails or the server dies: rolled back, answered 5xx, and Stripe sends the event again.
HookAbort(o) ==
  /\ hook[o] # "idle" /\ aborts < MaxAborts
  /\ hook' = [hook EXCEPT ![o] = "idle"]
  /\ hookLate' = [hookLate EXCEPT ![o] = "none"]
  /\ aborts' = aborts + 1
  /\ UNCHANGED <<clock, eventVars, lock, orderVars, stripeVars, requestVars, hookBegan, ledger, staffChanges>>

\* checkout.session.expired, markOrderExpired: an abandoned checkout gives its places back.
MarkOrderExpired(o) ==
  /\ session[o] = "expired" /\ o \notin ledger /\ RowFree(o)
  /\ IF status[o] = "pending"
       THEN /\ status' = [status EXCEPT ![o] = "expired"]
            /\ givenBack' = [givenBack EXCEPT ![o] = TRUE]
       ELSE UNCHANGED <<status, givenBack>>
  /\ ledger' = ledger \cup {o}
  /\ UNCHANGED <<clock, eventVars, lock, lines, holdExpiresAt, attached, refunded, paidLate,
                 stripeVars, requestVars, hook, hookBegan, hookLate, aborts, staffChanges>>

----------------------------------------------------------------------------
(* Staff and the organiser                                                 *)

StaffChange ==
  /\ staffChanges < MaxStaffChanges
  /\ staffChanges' = staffChanges + 1
  /\ UNCHANGED <<clock, lock, stripeVars, requestVars, hookVars>>

\* A limit is never set below what is taken.
AnyLimit(l, taken) == TRUE   \* mutant: the check forgotten
LimitMeets(l, taken) == l # NoLimit => taken <= l

\* editType: the number on sale, under the event's lock, never below what is taken.
EditType(t, q) ==
  /\ StaffChange /\ lock = NoOne
  /\ LimitMeets(q, TakenOf(Taking(clock), t))
  /\ quantity' = [quantity EXCEPT ![t] = q]
  /\ UNCHANGED <<salesLimit, onSale, salesClosed, orderVars>>

\* setSalesLimit: likewise for the whole event.
SetSalesLimit(l) ==
  /\ StaffChange /\ lock = NoOne
  /\ LimitMeets(l, Taken(Taking(clock)))
  /\ salesLimit' = l
  /\ UNCHANGED <<quantity, onSale, salesClosed, orderVars>>

\* setTypeStatus: a type taken off sale, or put back.
SetTypeStatus(t) ==
  /\ StaffChange
  /\ onSale' = IF t \in onSale THEN onSale \ {t} ELSE onSale \cup {t}
  /\ UNCHANGED <<salesLimit, quantity, salesClosed, orderVars>>

\* setSalesClosed: sales closed by hand, or opened again (it takes no lock, but its UPDATE
\* waits for the settings row).
SetSalesClosed(closed) ==
  /\ StaffChange /\ lock = NoOne
  /\ salesClosed' = closed
  /\ UNCHANGED <<salesLimit, quantity, onSale, orderVars>>

\* cancelFreeBooking: its places go back on sale.
CancelFreeBooking(o) ==
  /\ StaffChange /\ RowFree(o)
  /\ status[o] = "paid" /\ Free(o)
  /\ status' = [status EXCEPT ![o] = "cancelled"]
  /\ givenBack' = [givenBack EXCEPT ![o] = TRUE]
  /\ UNCHANGED <<eventVars, lines, holdExpiresAt, attached, refunded, paidLate>>

\* The order has such a ticket left to give back.
HasPaid(o, t) == status[o] = "paid"   \* mutant: one released twice
HasTicket(o, t) == status[o] = "paid" /\ Standing(o, t) > 0

\* Tickets of a paid order are refunded or released (TicketRefunds has when): never more
\* than it has.
ReleaseTickets(o, t) ==
  /\ StaffChange /\ RowFree(o)
  /\ HasTicket(o, t)
  /\ refunded' = [refunded EXCEPT ![o][t] = @ + 1]
  /\ UNCHANGED <<eventVars, status, lines, holdExpiresAt, attached, paidLate, givenBack>>

\* Time passes.  A pending order's places are back on sale once its hold has run out:
\* nothing has to run for it.
Tick ==
  /\ clock < MaxClock
  /\ \A o \in Orders :
       /\ pc[o] \in {"begun", "reserved"} => clock < began[o] + MaxTransaction
       /\ hook[o] # "idle" => clock < hookBegan[o] + MaxTransaction
  /\ clock' = clock + 1
  /\ givenBack' = [o \in Orders |->
       givenBack[o] \/ (status[o] = "pending" /\ ~Pending(o, clock + 1))]
  /\ UNCHANGED <<eventVars, lock, status, lines, holdExpiresAt, attached, refunded, paidLate,
                 stripeVars, requestVars, hookVars, staffChanges>>

----------------------------------------------------------------------------
RequestStep(r) ==
  \/ \E e \in older[r] : CloseOlderSession(r, e) \/ SupersedeOrder(r, e)
  \/ BeginReserve(r) \/ Reserve(r) \/ CommitReserve(r)
  \/ ConfirmFreeOrder(r) \/ CreateSession(r) \/ AttachSession(r)
  \/ CloseLateSession(r) \/ CancelPendingOrder(r) \/ Reply(r)

HookStep(o) == HookBegin(o) \/ MarkOrderPaid(o) \/ HookCommit(o) \/ MarkOrderExpired(o)

StaffStep ==
  \/ \E t \in Types, q \in Quantities : EditType(t, q)
  \/ \E l \in Limits : SetSalesLimit(l)
  \/ \E t \in Types : SetTypeStatus(t)
  \/ \E closed \in BOOLEAN : SetSalesClosed(closed)
  \/ \E o \in Orders : CancelFreeBooking(o)
  \/ \E o \in Orders, t \in Types : ReleaseTickets(o, t)

Next ==
  \/ \E r \in Orders : (\E want \in Wants : StartCheckout(r, want)) \/ RequestStep(r) \/ Crash(r)
  \/ \E o \in Orders : Pay(o) \/ SessionCloses(o) \/ HookStep(o) \/ HookAbort(o)
  \/ StaffStep
  \/ Tick

Spec == Init /\ [][Next]_vars

\* A running server goes on with its requests, and Stripe sends an event until it is taken.
FairSpec ==
  /\ Spec
  /\ \A o \in Orders : WF_vars(RequestStep(o)) /\ WF_vars(HookStep(o))
----------------------------------------------------------------------------
(* What selling tickets promises                                           *)

\* The event is never oversold to buyers whose places were held all along: the orders written
\* (or being written) whose places have never been given back fit the event's limit and each
\* type's number on sale.  readTicketState under reserveOrder's lock, with its own now().
Capacity ==
  LET kept == {o \in Orders : status[o] \in {"pending", "paid"} /\ ~givenBack[o]}
      S == kept \cup {o \in Orders : pc[o] = "reserved"}
  IN /\ salesLimit # NoLimit => Taken(S) <= salesLimit
     /\ \A t \in Types : quantity[t] # NoLimit => TakenOf(S, t) <= quantity[t]

\* A buyer who can pay has their places: while Stripe's checkout is open, sent to the buyer and
\* inside its time, its order is pending and its hold has not run out.  So superseding,
\* cancelling and expiring never leave a checkout nobody closed that can still be paid.
PayableHeld ==
  \A o \in Orders :
    session[o] = "open" /\ url[o] /\ clock < closesAt[o] => Pending(o, clock)

\* No one holds the room by asking again: one email, and one address, has at most
\* LIVE_HOLDS_MAX checkouts open, the one being written included.
HoldCap ==
  LET S == OpenCheckouts(clock) \cup {o \in Orders : pc[o] = "reserved"}
  IN \A r \in Orders : ByEmail(S, r) <= LiveHoldsMax /\ ByIp(S, r) <= LiveHoldsMax

\* One buyer has at most FREE_BOOKINGS_MAX free bookings standing (model.ts, the constant).
FreeCap ==
  \A r \in Orders : ByEmail({o \in FreeBookings(clock) : status[o] = "paid"}, r) <= FreeBookingsMax

\* An order that was cancelled or expired is never paid: markOrderPaid's flag for it (was) is a
\* belt over braces, as its checkout is always closed before.
CancelledNeverPaid ==
  [][\A o \in Orders : status[o] \in {"cancelled", "expired"} => status'[o] = status[o]]_vars

\* When no payment or order is being written, an event that has sold more tickets than it has
\* says so on an order (markOrderPaid's comment, and the head of event-tickets.ts).
NoSilentOversell ==
  lock = NoOne /\ (\A o \in Orders : hook[o] = "idle") =>
    (Over({o \in Orders : status[o] = "paid"}) => \E o \in Orders : paidLate[o] = "over")

\* The same, of payments that are all late: each transaction reads the tickets as they were before
\* the other's commit, so even two late payments of which each finds the event within its limit can
\* oversell it. It fails too, once the clock has passed two holds one after another.
AllLateTold == (\A o \in Orders : status[o] = "paid" => paidLate[o] # "none") => NoSilentOversell

\* TicketSales implements OrderLife: a buyer is asked for money only while the order's places
\* are kept, places given back are never kept again, and tickets with a price are only ever sold
\* for a payment taken.
Place(o) == CASE status[o] = "none" -> "none"
              [] status[o] = "paid" -> "sold"
              [] OTHER -> IF Pending(o, clock) THEN "kept" ELSE "back"
Money(o) == IF session[o] = "complete" THEN "taken"
            ELSE IF session[o] = "open" /\ url[o] /\ clock < closesAt[o] THEN "asked"
            ELSE IF status[o] # "none" /\ Free(o) THEN "free" ELSE "none"
Life == INSTANCE OrderLife WITH place <- [o \in Orders |-> Place(o)],
                                money <- [o \in Orders |-> Money(o)]
OrdersLive == Life!Spec

\* Every payment Stripe took is recorded, whatever fails on the way.
PaymentRecorded == \A o \in Orders : session[o] = "complete" ~> status[o] = "paid"

\* Every checkout request is answered or dies: none waits for ever for the event's lock.
CheckoutEnds == \A r \in Orders : pc[r] # "idle" ~> pc[r] = "done"
=============================================================================
