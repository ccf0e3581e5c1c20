---------------------------- MODULE TicketRefunds ----------------------------
(***************************************************************************)
(* Refunds of one paid ticket booking: reconcileRefunds, beginRefund and   *)
(* their neighbours in src/src/db/event-tickets.ts, postAdminRefund in     *)
(* src/src/routes/admin-event-tickets.ts, and the webhook's refund events  *)
(* (src/src/tickets/webhook.ts).                                           *)
(*                                                                         *)
(* The actors are admins, each going through the three steps of a refund,  *)
(* the webhook, Stripe (which makes refunds, some of them by hand in its   *)
(* dashboard, settles them, and may see one fail at the bank later), the   *)
(* organiser, and the clock.  A reconcile asks Stripe under the order's    *)
(* lock, so Stripe may change between its list and the commit.             *)
(***************************************************************************)
EXTENDS Integers, Sequences, FiniteSets, FiniteSetsExt, Functions

CONSTANTS
  Admins, Hook,    \* who reconciles: admins at work, and the webhook
  Nobody,          \* the order's row lock when nobody has it
  Lines,           \* the lines of the booking
  Price, Quantity, \* what one ticket of a line cost, and how many were bought
  Fee,             \* the card fee cover
  HandAmounts,     \* what staff may refund by hand in Stripe
  IntentHours,     \* an intent older than this is never asked of Stripe again
  KeyHours,        \* how long Stripe remembers an idempotency key
  MaxCall,         \* how long a call to Stripe may take
  MaxRows, MaxMade, MaxRequests, MaxClock   \* bounds of the model, not of the code

Procs == Admins \cup {Hook}
None  == [l \in Lines |-> 0]
Value(ls) == SumFunctionOnSet([l \in Lines |-> ls[l] * Price[l]], Lines)
Total == Value(Quantity) + Fee

ASSUME ProcsAssumption == Hook \notin Admins /\ Nobody \notin Procs
ASSUME LinesAssumption ==
  /\ IsFiniteSet(Lines)
  /\ Price \in [Lines -> Nat] /\ Quantity \in [Lines -> Nat \ {0}] /\ Fee \in Nat
  /\ HandAmounts \subseteq Nat \ {0}
ASSUME HoursAssumption ==
  /\ {IntentHours, KeyHours, MaxCall, MaxClock, MaxRows, MaxMade, MaxRequests} \subseteq Nat
  /\ IntentHours + MaxCall < KeyHours   \* 23 hours and a call's time are inside Stripe's 24

VARIABLES
  clock,
  (* the booking: refunded quantities and money, the failed refund flag *)
  refunded, refundedPence, failedFlag,
  rows,        \* event_ticket_refunds, in order of id
  requests,    \* event_ticket_refund_requests: their status, in order of id
  lock,        \* who has the order's row locked
  (* Stripe *)
  made,        \* the refunds of this payment, in order
  answers,     \* what Stripe answered for each idempotency key (an intent's id), and when
  events,      \* how many refund events the webhook has not taken yet
  (* the actors *)
  job,         \* what each is doing (Job, below)
  (* history, for the properties *)
  told,        \* how many times the buyer was told of each refund
  paid         \* the refunds that have ever succeeded

bookingVars == <<refunded, refundedPence, failedFlag, rows, requests>>
stripeVars  == <<made, answers, events, paid>>
vars == <<clock, bookingVars, lock, stripeVars, job, told>>

Tickets == [Lines -> Nat]
Row  == [amount : Nat, lines : Tickets, request : Nat, by : {"admin", "stripe"},
         status : {"pending", "done", "failed"}, refund : Nat, at : Nat]
Made == [amount : Nat, intent : Nat, status : {"pending", "succeeded", "failed"}]

\* What an admin's request, or the webhook, is at: the tickets chosen with the booking as the page
\* showed it, the request they answer and the intent being made (0 for none), when its transaction
\* or its call to Stripe began, the statuses Stripe listed, the refunds to tell the buyer of.
Job == [step : {"idle", "list", "apply", "tell", "begin", "ask", "refused"},
        seen : Tickets, pence : Nat, wanted : Tickets, request : Nat, intent : Nat, began : Nat,
        list : Seq({"pending", "succeeded", "failed"}), tell : SUBSET Nat]
Idle == [step |-> "idle", seen |-> None, pence |-> 0, wanted |-> None, request |-> 0, intent |-> 0,
         began |-> 0, list |-> <<>>, tell |-> {}]

TypeOK ==
  /\ clock \in Nat
  /\ refunded \in Tickets /\ \A l \in Lines : refunded[l] <= Quantity[l]
  /\ refundedPence \in Nat
  /\ failedFlag \in {"none", "kept", "released"}
  /\ rows \in Seq(Row)
  /\ requests \in Seq({"open", "refunded", "declined"})
  /\ lock \in Procs \cup {Nobody}
  /\ made \in Seq(Made)
  /\ answers \subseteq [intent : Nat, refund : Nat, at : Nat]
  /\ events \in Nat
  /\ job \in [Procs -> Job]
  /\ told \in Seq(Nat) /\ Len(told) = Len(made)
  /\ paid \subseteq DOMAIN made

Init ==
  /\ clock = 0
  /\ refunded = None /\ refundedPence = 0 /\ failedFlag = "none"
  /\ rows = <<>> /\ requests = <<>>
  /\ lock = Nobody
  /\ made = <<>> /\ answers = {} /\ events = 0 /\ paid = {} /\ told = <<>>
  /\ job = [p \in Procs |-> Idle]

Leave(p) == job' = [job EXCEPT ![p] = Idle]
Amounts(S) == SumFunctionOnSet([i \in DOMAIN made |-> made[i].amount], S)

----------------------------------------------------------------------------
(* reconcileRefunds: what Stripe listed, and what it makes of the booking  *)

IsOldNever(j, now) == FALSE   \* mutant: an old intent is asked again
IsOld(j, now) == rows[j].at + IntentHours < now

\* A Stripe refund's row here: by its id, or by the intent it carries; 0 for none.
RowOf(i) ==
  LET byId == {j \in DOMAIN rows : rows[j].refund = i}
      ours == {j \in DOMAIN rows : made[i].intent = j /\ rows[j].by = "admin" /\ rows[j].refund = 0}
  IN IF byId # {} THEN Min(byId) ELSE IF ours # {} THEN Min(ours) ELSE 0

Succeeded(ls) == {i \in DOMAIN ls : ls[i] = "succeeded"}
Failed(ls)    == {i \in DOMAIN ls : ls[i] = "failed"}

\* 1. Our own refunds that Stripe has made, still waiting here.
CompletedAgain(ls) == {i \in Succeeded(ls) : RowOf(i) # 0}   \* mutant: whatever the row's status
Completed(ls) == {i \in Succeeded(ls) : RowOf(i) # 0 /\ rows[RowOf(i)].status = "pending"}
\* 2. Refunds made in Stripe itself; in full, they release every ticket.
Fresh(ls) == {i \in Succeeded(ls) : RowOf(i) = 0}
MoneyHere(ls) == Min({Total, refundedPence + Amounts(Completed(ls) \cup Fresh(ls))})   \* mutant: added up here
Money(ls) == Min({Total, Amounts(Succeeded(ls))})
ReleaseAll(ls) == Fresh(ls) # {} /\ Total > 0 /\ Money(ls) >= Total
\* 3. Refunds that have failed at the bank, not yet known here.
NewlyFailed(ls) == {i \in Failed(ls) : RowOf(i) # 0 /\ rows[RowOf(i)].status # "failed"}
\* 4. Ours, still waiting, too old to ask again, that Stripe does not have.
LetGoUnasked(ls, now) ==   \* mutant: whatever Stripe says of it
  {j \in DOMAIN rows : rows[j].status = "pending" /\ IsOld(j, now)}
LetGo(ls, now) ==
  {j \in DOMAIN rows :
     /\ rows[j].status = "pending" /\ IsOld(j, now)
     /\ \A i \in Succeeded(ls) \cup Failed(ls) : RowOf(i) # j
     /\ \A i \in DOMAIN ls : made[i].intent # j}

Matching(S, j) == {i \in S : RowOf(i) = j}

CompletedLines(ls, l) == SumFunction([i \in Completed(ls) |-> rows[RowOf(i)].lines[l]])
ReleasedUncapped(ls) ==   \* mutant: more tickets than the line has
  [l \in Lines |-> refunded[l] + CompletedLines(ls, l)]
ReleasedBy(ls) == [l \in Lines |-> Min({Quantity[l], refunded[l] + CompletedLines(ls, l)})]

UpdatedRow(ls, now, j) ==
  IF Matching(Completed(ls), j) # {}
    THEN [rows[j] EXCEPT !.status = "done", !.refund = Min(Matching(Completed(ls), j))]
  ELSE IF Matching(NewlyFailed(ls), j) # {}
    THEN [rows[j] EXCEPT !.status = "failed", !.refund = Min(Matching(NewlyFailed(ls), j))]
  ELSE IF j \in LetGo(ls, now) THEN [rows[j] EXCEPT !.status = "failed"]
  ELSE rows[j]

\* The requests these refunds answer.
AnsweredPending(ls) == {rows[j].request : j \in {k \in DOMAIN rows : rows[k].status # "done"}}   \* mutant: before Stripe has paid
Answered(ls) == {rows[RowOf(i)].request : i \in Completed(ls)}

\* The rows of the fresh ones; the last keeps the tickets that a refund in full released.
FreshRow(ls, i) ==
  [amount |-> made[i].amount, request |-> 0, by |-> "stripe", status |-> "done", refund |-> i,
   at |-> clock,
   lines |-> IF ReleaseAll(ls) /\ i = Max(Fresh(ls))
               THEN [l \in Lines |-> Quantity[l] - ReleasedBy(ls)[l]] ELSE None]

\* S in increasing order (there is one such sequence).
InOrder(S) == {ids \in [1..Cardinality(S) -> S] : \A m, n \in DOMAIN ids : m < n => ids[m] < ids[n]}

Reconcile(ls, now) ==
  /\ \E ids \in InOrder(Fresh(ls)) :
       rows' = [j \in DOMAIN rows |-> UpdatedRow(ls, now, j)]
                 \o [n \in DOMAIN ids |-> FreshRow(ls, ids[n])]
  /\ refunded' = IF ReleaseAll(ls) THEN Quantity ELSE ReleasedBy(ls)
  /\ requests' = [q \in DOMAIN requests |->
       IF requests[q] = "open" /\ q \in Answered(ls) THEN "refunded" ELSE requests[q]]
  /\ refundedPence' = Money(ls)
  /\ failedFlag' =
       IF NewlyFailed(ls) = {} THEN failedFlag
       ELSE IF \E i \in NewlyFailed(ls) : rows[RowOf(i)].status = "done" /\ rows[RowOf(i)].lines # None
         THEN "released" ELSE "kept"

----------------------------------------------------------------------------
(* A reconcile, by an admin (before and after asking Stripe) or the webhook *)

\* The webhook takes a refund event: the event only says which payment.
TakeEvent ==
  /\ job[Hook].step = "idle" /\ events > 0
  /\ job' = [job EXCEPT ![Hook].step = "list"]
  /\ UNCHANGED <<clock, bookingVars, lock, stripeVars, told>>

\* Under the order's lock, Stripe is asked for every refund.
ListRefunds(p) ==
  /\ job[p].step = "list" /\ lock = Nobody
  /\ lock' = p
  /\ job' = [job EXCEPT ![p].step = "apply", ![p].began = clock,
                       ![p].list = [i \in DOMAIN made |-> made[i].status]]
  /\ UNCHANGED <<clock, bookingVars, stripeVars, told>>

\* The booking is made to agree, in one commit; the webhook's takes the event with it.
ApplyList(p) ==
  /\ job[p].step = "apply"
  /\ Reconcile(job[p].list, job[p].began)
  /\ lock' = Nobody
  /\ job' = [job EXCEPT ![p].step = "tell", ![p].list = <<>>, ![p].began = 0,
                       ![p].tell = Completed(job[p].list) \cup Fresh(job[p].list)]
  /\ events' = IF p = Hook THEN events - 1 ELSE events
  /\ UNCHANGED <<clock, made, answers, paid, told>>

\* tellAfterReconcile: the buyer is emailed of what this reconcile recorded; an admin's refund then begins,
\* or is done.
TellBuyer(p) ==
  /\ job[p].step = "tell"
  /\ told' = [i \in DOMAIN told |-> IF i \in job[p].tell THEN told[i] + 1 ELSE told[i]]
  /\ \/ /\ p # Hook /\ job[p].intent = 0
        /\ job' = [job EXCEPT ![p].step = "begin", ![p].tell = {}]
     \/ (p = Hook \/ job[p].intent # 0) /\ Leave(p)
  /\ UNCHANGED <<clock, bookingVars, lock, stripeVars>>

\* mutant: the dead transaction keeps its lock
CrashKeepsLock(p) ==
  /\ job[p].step # "idle"
  /\ Leave(p)
  /\ UNCHANGED <<clock, bookingVars, lock, stripeVars, told>>

\* Stripe does not answer, the database fails or the server dies: an open transaction rolls back,
\* and the rest is never done.
Crash(p) ==
  /\ job[p].step # "idle"
  /\ Leave(p)
  /\ lock' = IF lock = p THEN Nobody ELSE lock
  /\ UNCHANGED <<clock, bookingVars, stripeVars, told>>

----------------------------------------------------------------------------
(* postAdminRefund                                                         *)

Left(l) == Quantity[l] - refunded[l]

\* An admin looks at the booking, and chooses tickets to refund.
ChooseRefund(a, w, q) ==
  /\ job[a].step = "idle"
  /\ job' = [job EXCEPT ![a] = [Idle EXCEPT !.step = "list", !.wanted = w, !.request = q,
                                           !.seen = refunded, !.pence = refundedPence]]
  /\ UNCHANGED <<clock, bookingVars, lock, stripeVars, told>>

\* refundIsStale: the booking is no longer as the admin saw it.
Stale(a) ==
  \/ refundedPence # job[a].pence
  \/ \E l \in Lines : job[a].wanted[l] > 0 /\ refunded[l] # job[a].seen[l]

\* refundPlan: what these tickets come to; with none left standing, the rest of the payment.
LeaveNone(w) == \A l \in Lines : Left(l) = w[l]
PlanAmount(w) == LET rest == Total - refundedPence
                 IN IF LeaveNone(w) THEN rest ELSE Min({Value(w), rest})
PlanAnyTickets(w) == Total > refundedPence /\ w # None /\ PlanAmount(w) > 0   \* mutant: refunded ones too
PlanOk(w) == /\ Total > refundedPence
             /\ w # None /\ \A l \in Lines : w[l] <= Left(l)
             /\ PlanAmount(w) > 0

Waiting == {j \in DOMAIN rows : rows[j].status = "pending"}

\* The intent of this very refund, still waiting.
SameIntent(w) == {j \in Waiting : rows[j].amount = PlanAmount(w) /\ rows[j].lines = w}

MayBegin(a) ==
  /\ ~Stale(a)
  /\ job[a].request # 0 => requests[job[a].request] = "open"
  /\ PlanOk(job[a].wanted)
  /\ \A j \in Waiting : ~IsOld(j, clock)

Ask(a, j) == job' = [job EXCEPT ![a] = [Idle EXCEPT !.step = "ask", !.intent = j, !.began = clock]]

\* beginRefund: the refund is written down before Stripe is asked, or found waiting already.
BeginRefund(a) ==
  /\ job[a].step = "begin" /\ lock = Nobody
  /\ LET w == job[a].wanted
     IN \/ /\ MayBegin(a) /\ SameIntent(w) # {}
           /\ Ask(a, Min(SameIntent(w)))
           /\ UNCHANGED rows
        \/ /\ MayBegin(a) /\ Waiting = {} /\ Len(rows) < MaxRows
           /\ rows' = Append(rows, [amount |-> PlanAmount(w), lines |-> w, by |-> "admin",
                        request |-> job[a].request, status |-> "pending", refund |-> 0, at |-> clock])
           /\ Ask(a, Len(rows) + 1)
        \/ /\ MayBegin(a) => SameIntent(w) = {} /\ Waiting # {}
           /\ Leave(a)
           /\ UNCHANGED rows
  /\ UNCHANGED <<clock, refunded, refundedPence, failedFlag, requests, lock, stripeVars, told>>

\* Stripe makes a refund, at once or still on its way, and sends its event.
Refundable == Total - Amounts({i \in DOMAIN made : made[i].status # "failed"})
MakeRefund(amount, j, s) ==
  /\ Len(made) < MaxMade
  /\ made' = Append(made, [amount |-> amount, intent |-> j, status |-> s])
  /\ told' = Append(told, 0)
  /\ events' = events + 1
  /\ paid' = IF s = "succeeded" THEN paid \cup {Len(made) + 1} ELSE paid

\* What Stripe remembers of an idempotency key.
Remembered(j) == {x \in answers : x.intent = j /\ clock < x.at + KeyHours}

\* stripe.refunds.create: a key Stripe remembers gets the same answer again.  Otherwise it
\* makes the refund, or says a definite no.  The answer may be lost on its way back, and
\* then nothing more is known here.
AskStripe(a) ==
  /\ job[a].step = "ask"
  /\ LET j == job[a].intent
     IN \E r \in 0..(Len(made) + 1) :
          /\ \/ /\ \E x \in Remembered(j) : x.refund = r
                /\ UNCHANGED <<stripeVars, told>>
             \/ /\ Remembered(j) = {}
                /\ \/ r = 0 /\ UNCHANGED <<made, told, events, paid>>
                   \/ /\ r = Len(made) + 1 /\ rows[j].amount <= Refundable
                      /\ \E s \in {"pending", "succeeded"} : MakeRefund(rows[j].amount, j, s)
                /\ answers' = answers \cup {[intent |-> j, refund |-> r, at |-> clock]}
          /\ \/ job' = [job EXCEPT ![a].step = IF r = 0 THEN "refused" ELSE "list", ![a].began = 0]
             \/ Leave(a)
  /\ UNCHANGED <<clock, bookingVars, lock>>

\* failRefund: Stripe said a definite no, and the intent is closed if it still waits (a reconcile
\* locks the rows only after it has asked Stripe, so this does not wait for it).
FailRefund(a) ==
  /\ job[a].step = "refused"
  /\ rows' = IF rows[job[a].intent].status = "pending"
               THEN [rows EXCEPT ![job[a].intent].status = "failed"] ELSE rows
  /\ Leave(a)
  /\ UNCHANGED <<clock, refunded, refundedPence, failedFlag, requests, lock, stripeVars, told>>

----------------------------------------------------------------------------
(* What else is done to the booking                                        *)

CoveredOnce(w) == Value(w) <= refundedPence   \* mutant: the same money covers two releases
\* releasePlan: the money refunded that no released ticket yet accounts for covers these.
Covered(w) == Value(w) = 0 \/ Value(w) <= refundedPence - Value(refunded)

\* releaseTickets: an admin releases tickets with no money moving.
ReleaseTickets(w) ==
  /\ lock = Nobody
  /\ w # None /\ \A l \in Lines : w[l] <= Left(l)
  /\ Covered(w)
  /\ refunded' = [l \in Lines |-> refunded[l] + w[l]]
  /\ UNCHANGED <<clock, refundedPence, failedFlag, rows, requests, lock, stripeVars, job, told>>

\* markRefundFailedSorted: an admin has seen to a refund that failed.
MarkSorted ==
  /\ lock = Nobody /\ failedFlag # "none"
  /\ failedFlag' = "none"
  /\ UNCHANGED <<clock, refunded, refundedPence, rows, requests, lock, stripeVars, job, told>>

\* createRefundRequest: one open request a booking.
CreateRequest ==
  /\ lock = Nobody /\ Len(requests) < MaxRequests
  /\ refundedPence < Total
  /\ \A q \in DOMAIN requests : requests[q] # "open"
  /\ requests' = Append(requests, "open")
  /\ UNCHANGED <<clock, refunded, refundedPence, failedFlag, rows, lock, stripeVars, job, told>>

\* declineRefundRequest: it takes no lock on the order.
DeclineRequest(q) ==
  /\ requests[q] = "open"
  /\ requests' = [requests EXCEPT ![q] = "declined"]
  /\ UNCHANGED <<clock, refunded, refundedPence, failedFlag, rows, lock, stripeVars, job, told>>

\* Staff refund some of the payment by hand, in Stripe's dashboard.
RefundByHand(amount) ==
  /\ amount <= Refundable
  /\ MakeRefund(amount, 0, "succeeded")
  /\ UNCHANGED <<clock, bookingVars, lock, answers, job>>

\* A refund on its way succeeds or fails; one that succeeded may yet fail at the bank.
SettleRefund(i, s) ==
  /\ \/ made[i].status = "pending" /\ s \in {"succeeded", "failed"}
     \/ made[i].status = "succeeded" /\ s = "failed"
  /\ made' = [made EXCEPT ![i].status = s]
  /\ events' = events + 1
  /\ paid' = IF s = "succeeded" THEN paid \cup {i} ELSE paid
  /\ UNCHANGED <<clock, bookingVars, lock, answers, job, told>>

\* Hours pass; a transaction that asks Stripe, and a call to it, take no longer than their time.
Tick ==
  /\ clock < MaxClock
  /\ \A p \in Procs : job[p].step \in {"apply", "ask"} => clock < job[p].began + MaxCall
  /\ clock' = clock + 1
  /\ UNCHANGED <<bookingVars, lock, stripeVars, job, told>>

Wantable == {w \in [Lines -> UNION {0..Quantity[l] : l \in Lines}] :
              w # None /\ \A l \in Lines : w[l] <= Quantity[l]}

ProcStep(p) == ListRefunds(p) \/ ApplyList(p) \/ TellBuyer(p)

Next ==
  \/ \E p \in Procs : ProcStep(p) \/ Crash(p)
  \/ TakeEvent
  \/ \E a \in Admins :
       \/ \E w \in Wantable, q \in {0} \cup DOMAIN requests : ChooseRefund(a, w, q)
       \/ BeginRefund(a) \/ AskStripe(a) \/ FailRefund(a)
  \/ \E w \in Wantable : ReleaseTickets(w)
  \/ MarkSorted \/ CreateRequest
  \/ \E q \in DOMAIN requests : DeclineRequest(q)
  \/ \E amount \in HandAmounts : RefundByHand(amount)
  \/ \E i \in DOMAIN made, s \in {"succeeded", "failed"} : SettleRefund(i, s)
  \/ Tick

Spec == Init /\ [][Next]_vars

\* Stripe sends an event again and again, so from some time on its tries are not cut short; the lock
\* is not always taken first by an admin, whose transaction ends.
CutShort == job[Hook].step \in {"list", "apply"} /\ Crash(Hook)
FairSpec ==
  /\ Spec
  /\ <>[][~CutShort]_vars
  /\ SF_vars(ListRefunds(Hook))
  /\ WF_vars(TakeEvent) /\ WF_vars(ApplyList(Hook)) /\ WF_vars(TellBuyer(Hook))
  /\ \A a \in Admins : WF_vars(ApplyList(a))
----------------------------------------------------------------------------
(* What refunding promises                                                 *)

MadeFor(j) == {i \in DOMAIN made : made[i].intent = j}

\* Stripe never pays one refund twice, however often it is asked again, by whoever: the answer lost,
\* the server dead, another admin pressing the same button (step 2 of "A refund in three steps").
PaidOnce == \A j \in DOMAIN rows : Cardinality(MadeFor(j)) <= 1

\* An intent let go as too old to ask again, though a call with its key was still open and made the
\* refund after all, past the hours of the intent.
LetGoEarly(j) ==
  /\ rows[j].status = "failed" /\ rows[j].refund = 0
  /\ \E x \in answers : x.intent = j /\ x.refund # 0 /\ x.at > rows[j].at + IntentHours

\* Nobody's ticket is paid back twice: the tickets of the refunds the admin made that Stripe has paid,
\* and of the one waiting, are no more than were bought (an intent let go early is the exception).
PaidRows == {j \in DOMAIN rows :
               /\ rows[j].by = "admin" /\ ~LetGoEarly(j)
               /\ rows[j].status = "pending" \/ \E i \in MadeFor(j) : made[i].status # "failed"}
TicketPaidOnce ==
  \A l \in Lines : SumFunction([j \in PaidRows |-> rows[j].lines[l]]) <= Quantity[l]

\* Once every refund event is taken, the booking says what Stripe says: reconcileRefunds sets the
\* money from Stripe's own list, so events late, twice or out of order do no harm.
MoneyAgrees ==
  events = 0 => refundedPence = Min({Total, Amounts({i \in DOMAIN made : made[i].status = "succeeded"})})

\* Once every refund event is taken, every refund Stripe has made is recorded as done, its tickets
\* released (but for an intent let go early).
AppliedWhenMade ==
  events = 0 => \A i \in DOMAIN made : made[i].status = "succeeded" =>
                  \/ \E j \in DOMAIN rows : rows[j].status = "done" /\ rows[j].refund = i
                  \/ made[i].intent # 0 /\ LetGoEarly(made[i].intent)

\* No ticket goes back on sale at the charity's cost: what the released tickets sold for is no more
\* than has been paid back at some time (a refund may fail later: the tickets are not taken back).
ReleasesCovered == Value(refunded) <= Amounts(paid)

\* A buyer is told of each refund once at most, whoever finishes it ("The buyer is emailed by
\* whichever finishes it, once": the crash that loses the email is why this says at most).
ToldOnce == \A i \in DOMAIN told : told[i] <= 1

\* A request is closed as refunded only by money that did go back.
RequestsTrue ==
  \A q \in DOMAIN requests : requests[q] = "refunded" =>
    \E j \in DOMAIN rows : rows[j].request = q /\ rows[j].refund \in paid

\* Every refund event is taken in the end, whatever died on the way (so the booking comes to agree).
EventsTaken == events > 0 ~> events = 0
=============================================================================
