---------------------------- MODULE Subscriptions ----------------------------
(***************************************************************************)
(* A monthly gift after its checkout (src/src/db/stripe-webhook.ts,        *)
(* handleRecurring and handleDunning): Stripe's events about one           *)
(* subscription arrive in any order, more than once, and several at the    *)
(* same time; each renewal becomes one donation, and subscription_dunning  *)
(* records failing payments and the end of the gift.                       *)
(*                                                                         *)
(* Each delivery is one READ COMMITTED transaction that first claims the   *)
(* event id.  It reads the dunning row with no lock and writes it later,   *)
(* so two deliveries may both decide on the same old row.                  *)
(***************************************************************************)
EXTENDS Integers, FiniteSets

CONSTANTS
  Invoices,    \* the subscription's renewals (its first invoice is the checkout's own gift)
  Deliveries,  \* webhook requests at work
  MaxFails,    \* bound: attempts that fail, of one invoice
  MaxFaults,   \* bound: requests that die, or whose answer is lost
  None         \* no row, no event

VARIABLES
  sub,      \* at Stripe: not begun, live, ended, or ended before its checkout was recorded here
  charge,   \* at Stripe: where each invoice is, and how often it failed
  events,   \* events not yet acknowledged
  claimed,  \* stripe_webhook_events: those committed
  parent,   \* the checkout's donation is recorded
  gifts,    \* the donations of each invoice's renewal
  row,      \* the row of subscription_dunning
  job,      \* deliveries: the event, where it is, and what it decided
  faults

vars == <<sub, charge, events, claimed, parent, gifts, row, job, faults>>
Stripe == <<sub, charge>>
Database == <<claimed, parent, gifts, row>>

Success == [kind : {"paid", "payment_succeeded"}, inv : Invoices, n : {0}]
Failure == [kind : {"payment_failed", "payment_failed_last"}, inv : Invoices, n : 1..MaxFails]
Ending == [kind : {"subscription_ended"}, inv : {None}, n : 1..2]
Checkout == [kind |-> "checkout", inv |-> None, n |-> 0]
Event == Success \cup Failure \cup Ending \cup {Checkout}
Statuses == {"active", "past_due", "lapsed"}
Row == [status : Statuses, lapsed : BOOLEAN, cancelled : BOOLEAN]
NoJob == [pc |-> "idle", ev |-> None, gift |-> FALSE, write |-> "nothing", insert |-> FALSE]

TypeOK ==
  /\ sub \in {"none", "live", "ended", "endedUnknown"}
  /\ charge \in [Invoices -> [state : {"due", "paid", "givenUp"}, fails : 0..MaxFails]]
  /\ events \subseteq Event /\ claimed \subseteq Event
  /\ parent \in BOOLEAN
  /\ gifts \in [Invoices -> Nat]
  /\ row \in Row \cup {None}
  /\ job \in [Deliveries -> [pc : {"idle", "invoice", "dunning", "write"}, ev : Event \cup {None},
                             gift : BOOLEAN, write : Statuses \cup {"nothing", "cancelled"}, insert : BOOLEAN]]
  /\ faults \in 0..MaxFaults

EventsOf(i) == {[kind |-> k, inv |-> i, n |-> 0] : k \in {"paid", "payment_succeeded"}}

Init ==
  /\ sub = "none"
  /\ charge = [i \in Invoices |-> [state |-> "due", fails |-> 0]]
  /\ events = {}
  /\ claimed = {} /\ parent = FALSE
  /\ gifts = [i \in Invoices |-> 0]
  /\ row = None
  /\ job = [d \in Deliveries |-> NoJob]
  /\ faults = 0
----------------------------------------------------------------------------
(* Stripe                                                                   *)

PayCheckout ==
  /\ sub = "none" /\ sub' = "live"
  /\ events' = {Checkout}
  /\ UNCHANGED <<charge, Database, job, faults>>

Charge(i) ==
  /\ sub = "live" /\ charge[i].state = "due"
  /\ charge' = [charge EXCEPT ![i].state = "paid"]
  /\ events' = events \cup EventsOf(i)
  /\ UNCHANGED <<sub, Database, job, faults>>

\* An attempt fails; it may be the last (next_payment_attempt null).
Fail(i, last) ==
  /\ sub = "live" /\ charge[i].state = "due" /\ charge[i].fails < MaxFails
  /\ charge' = [charge EXCEPT ![i] = [state |-> IF last THEN "givenUp" ELSE "due", fails |-> @.fails + 1]]
  /\ events' = events \cup {[kind |-> IF last THEN "payment_failed_last" ELSE "payment_failed",
                             inv |-> i, n |-> charge[i].fails + 1]}
  /\ UNCHANGED <<sub, Database, job, faults>>

\* The donor, staff or the retry settings end it: customer.subscription.updated (unpaid, canceled)
\* or deleted, which are taken alike, or both.
End(howOften) ==
  /\ sub = "live"
  /\ sub' = IF parent THEN "ended" ELSE "endedUnknown"
  /\ events' = events \cup {e \in Ending : e.n <= howOften}
  /\ UNCHANGED <<charge, Database, job, faults>>
----------------------------------------------------------------------------
(* Decisions                                                                *)

Renewal(e) == e.kind \in {"paid", "payment_succeeded"}

DunningEvent(e) ==
  CASE Renewal(e) -> "payment_succeeded"
    [] e.kind = "payment_failed" -> "payment_failed"
    [] OTHER -> "retries_exhausted"

NextStatus(status, what) ==
  CASE status = "active" /\ what = "payment_failed" -> "past_due"
    [] status = "active" /\ what = "payment_succeeded" -> "active"
    [] status = "past_due" /\ what = "payment_failed" -> "past_due"
    [] status = "past_due" /\ what = "payment_succeeded" -> "active"
    [] status = "past_due" /\ what = "retries_exhausted" -> "lapsed"
    [] OTHER -> "illegal"

\* mutant: an end of an active gift is ignored
DecisionLapseOnly(old, e) ==
  LET current == IF old = None THEN "active" ELSE old.status
      next == NextStatus(current, DunningEvent(e))
  IN IF next = "illegal" \/ (old = None /\ DunningEvent(e) = "payment_succeeded") THEN "nothing" ELSE next

\* What handleDunning means to write, by the row as it read it: a status, a cancellation, nothing.
Decision(old, e) ==
  LET current == IF old = None THEN "active" ELSE old.status
      next == NextStatus(current, DunningEvent(e))
  IN CASE old = None /\ DunningEvent(e) = "payment_succeeded" -> "nothing"
       [] next = "illegal" /\ e \in Ending /\ current # "lapsed" -> "cancelled"
       [] next = "illegal" -> "nothing"
       [] OTHER -> next

\* mutant: lapsed_at cleared by a later status
WrittenAnew(now, write) ==
  LET old == IF now = None THEN [status |-> "active", lapsed |-> FALSE, cancelled |-> FALSE] ELSE now IN
  IF write = "cancelled" THEN [old EXCEPT !.cancelled = TRUE]
  ELSE [old EXCEPT !.status = write, !.lapsed = write = "lapsed"]

\* The INSERT, or the UPDATE by id over the row as it is by then.
Written(now, write) ==
  LET old == IF now = None THEN [status |-> "active", lapsed |-> FALSE, cancelled |-> FALSE] ELSE now IN
  IF write = "cancelled" THEN [old EXCEPT !.cancelled = TRUE]
  ELSE [old EXCEPT !.status = write, !.lapsed = @ \/ write = "lapsed"]
----------------------------------------------------------------------------
(* A delivery                                                               *)

Free(e) == \A d \in Deliveries : job[d].ev # e
Finish(d) == job' = [job EXCEPT ![d] = NoJob]

\* processWebhookEvent: the event id is claimed (another delivery of it waits); an event committed
\* before is only acknowledged.  handleRecurring reads the parent.
Claim(d, e) ==
  /\ job[d].pc = "idle" /\ e \in events /\ Free(e)
  /\ IF e \in claimed THEN events' = events \ {e} /\ UNCHANGED job
     ELSE /\ job' = [job EXCEPT ![d] = [NoJob EXCEPT !.ev = e, !.pc =
               IF e = Checkout THEN "write"
               ELSE IF Renewal(e) /\ parent THEN "invoice" ELSE "dunning"]]
          /\ UNCHANGED events
  /\ UNCHANGED <<Stripe, Database, faults>>

\* handleRecurring: the invoice's lock, kept to the commit, then the look for its gift.
HoldsInvoice(d) == job[d].pc \in {"dunning", "write"} /\ job[d].gift
SeenByNobody(i) == FALSE   \* mutant: the look for the donation forgotten
Seen(i) == gifts[i] > 0
LookForInvoice(d) ==
  LET i == job[d].ev.inv IN
  /\ job[d].pc = "invoice"
  /\ \A o \in Deliveries : HoldsInvoice(o) => job[o].ev.inv # i
  /\ job' = [job EXCEPT ![d].pc = "dunning", ![d].gift = ~Seen(i)]
  /\ UNCHANGED <<Stripe, events, Database, faults>>

\* handleDunning reads the row, ...
ReadDunning(d) ==
  /\ job[d].pc = "dunning"
  /\ job' = [job EXCEPT ![d].pc = "write", ![d].insert = row = None,
               ![d].write = IF parent THEN Decision(row, job[d].ev) ELSE "nothing"]
  /\ UNCHANGED <<Stripe, events, Database, faults>>

\* ... and writes; the commit.  An INSERT that comes second breaks the unique subscription: all
\* of it is rolled back, to be delivered again.  The answer may be lost on its way to Stripe.
Commit(d, heard) ==
  LET j == job[d] IN
  /\ j.pc = "write" /\ (heard \/ faults < MaxFaults)
  /\ IF j.write # "nothing" /\ j.insert /\ row # None
     THEN heard /\ UNCHANGED <<events, Database, faults>>
     ELSE /\ parent' = (parent \/ j.ev = Checkout)
          /\ gifts' = IF j.gift THEN [gifts EXCEPT ![j.ev.inv] = @ + 1] ELSE gifts
          /\ row' = IF j.write = "nothing" THEN row ELSE Written(row, j.write)
          /\ claimed' = claimed \cup {j.ev}
          /\ events' = IF heard THEN events \ {j.ev} ELSE events
          /\ faults' = IF heard THEN faults ELSE faults + 1
  /\ Finish(d) /\ UNCHANGED Stripe

\* The server dies, or the database throws: a rollback.
Die(d) ==
  /\ job[d].pc # "idle" /\ faults < MaxFaults
  /\ faults' = faults + 1
  /\ Finish(d) /\ UNCHANGED <<Stripe, events, Database>>
----------------------------------------------------------------------------
Deliver(d) == LookForInvoice(d) \/ ReadDunning(d) \/ Commit(d, TRUE)
Next ==
  \/ PayCheckout
  \/ \E i \in Invoices : Charge(i) \/ (\E last \in BOOLEAN : Fail(i, last))
  \/ \E howOften \in 1..2 : End(howOften)
  \/ \E d \in Deliveries : Deliver(d) \/ Commit(d, FALSE) \/ Die(d) \/ (\E e \in events : Claim(d, e))

\* A request at work goes on, and Stripe delivers an event again until it is acknowledged.
Fairness ==
  /\ \A d \in Deliveries : WF_vars(Deliver(d))
  /\ WF_vars(\E d \in Deliveries, e \in events : Claim(d, e))
Spec == Init /\ [][Next]_vars
FairSpec == Spec /\ Fairness
----------------------------------------------------------------------------
(* What a monthly gift is promised                                          *)

\* A renewal is recorded at most once, though Stripe says it with two events, each delivered more
\* than once and both at the same time.
RenewalOnce == \A i \in Invoices : gifts[i] <= 1

\* Once the end of a gift is recorded it stays so: a delivery that read the row before it, and
\* then writes over its status, does not take it back (the public list relies on lapsed_at).
EndKept ==
  [][row # None => /\ row' # None
                   /\ row.lapsed => row'.lapsed
                   /\ row.cancelled => row'.cancelled]_vars

\* A subscription that ended at Stripe is at last recorded as ended, whatever order its events
\* arrived in and whichever deliveries raced (handleDunning's cancelled_at and lapsed_at).
EndRecorded == (sub = "ended") ~> (row # None /\ (row.lapsed \/ row.cancelled))

\* `lapsed` is terminal (src/src/subscriptions/dunning.ts).
LapsedIsTerminal ==
  [][(row # None /\ row.status = "lapsed") => (row' # None /\ row'.status = "lapsed")]_vars
=============================================================================
