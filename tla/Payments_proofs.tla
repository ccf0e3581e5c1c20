---------------------------- MODULE Payments_proofs ----------------------------
(* What a monthly gift and the way to a Gift Aid claim are promised, for any   *)
(* number of invoices, deliveries and gifts, and that the three parts are well *)
(* typed.                                                                      *)
(*                                                                             *)
(* Stripe's two events for one paid invoice have two event ids, so claiming    *)
(* the id keeps nothing apart: what does is the lock on the invoice, held from *)
(* the look for its donation to the commit.  The invariant says that whoever   *)
(* means to insert a donation still sees none, and is alone.                   *)
(*                                                                             *)
(* A transaction decides on a donation as it read it, so what has to be kept   *)
(* is what stays true of an old reading: Stripe's "paid" is never taken back,  *)
(* a declaration once on a donation stays on it, and an event that settles or  *)
(* refunds a gift is sent only once it was paid.                               *)
EXTENDS Payments, BallBookings_proofs, TLAPS
-------------------------------------------------------------------------------
(* A monthly gift                                                              *)

JobRow == [pc : {"idle", "invoice", "dunning", "write"}, ev : Monthly!Event \cup {None},
           gift : BOOLEAN, write : Monthly!Statuses \cup {"nothing", "cancelled"}, insert : BOOLEAN]

JobFine(j) ==
  /\ j.pc # "idle" => j.ev \in Monthly!Event
  /\ j.pc = "invoice" \/ j.gift => j.ev.inv \in Invoices
  /\ j.gift => j.pc \in {"dunning", "write"} /\ gifts[j.ev.inv] = 0
JobsFine == \A d \in Deliveries : JobFine(job[d])
OneInserts == \A d, o \in Deliveries : job[d].gift /\ job[o].gift /\ job[d].ev.inv = job[o].ev.inv => d = o

MonthlyIInv == Monthly!TypeOK /\ JobsFine /\ OneInserts /\ Monthly!RenewalOnce
-------------------------------------------------------------------------------
\* A renewal is of one of the invoices.
LEMMA RenewalInvoice == ASSUME NEW e \in Monthly!Event, Monthly!Renewal(e) PROVE e.inv \in Invoices
  BY DEF Monthly!Event, Monthly!Success, Monthly!Failure, Monthly!Ending, Monthly!Checkout, Monthly!Renewal

\* Every decision can be written, and what is written is a row that keeps an end already recorded.
LEMMA DecisionTyped ==
  ASSUME NEW old \in Monthly!Row \cup {None}, NEW e
  PROVE  Monthly!Decision(old, e) \in Monthly!Statuses \cup {"nothing", "cancelled"}
<1>1. ASSUME NEW s, NEW what PROVE Monthly!NextStatus(s, what) \in Monthly!Statuses \cup {"illegal"}
  BY DEF Monthly!NextStatus, Monthly!Statuses
<1> QED BY <1>1 DEF Monthly!Decision, Monthly!Statuses

LEMMA WrittenRow ==
  ASSUME NEW now \in Monthly!Row \cup {None}, NEW write \in Monthly!Statuses \cup {"cancelled"},
  None \notin Monthly!Row
  PROVE  /\ Monthly!Written(now, write) \in Monthly!Row
         /\ now # None /\ now.lapsed => Monthly!Written(now, write).lapsed
         /\ now # None /\ now.cancelled => Monthly!Written(now, write).cancelled
<1> DEFINE old == IF now = None THEN [status |-> "active", lapsed |-> FALSE, cancelled |-> FALSE] ELSE now
<1>1. old \in Monthly!Row /\ (now # None => old = now)
  BY DEF Monthly!Row, Monthly!Statuses
<1>2. Monthly!Written(now, write) = IF write = "cancelled" THEN [old EXCEPT !.cancelled = TRUE]
                                    ELSE [old EXCEPT !.status = write, !.lapsed = @ \/ write = "lapsed"]
  BY DEF Monthly!Written
<1> HIDE DEF old
<1>3. CASE write = "cancelled"
  BY <1>1, <1>2, <1>3 DEF Monthly!Row
<1>4. CASE write # "cancelled"
  BY <1>1, <1>2, <1>4 DEF Monthly!Row
<1> QED BY <1>3, <1>4
-------------------------------------------------------------------------------
LEMMA MonthlyInit == ASSUME MaxFails \in Nat, MaxFaults \in Nat, Monthly!Init PROVE MonthlyIInv
<1>1. Monthly!NoJob \in JobRow /\ Monthly!NoJob.pc = "idle" /\ ~Monthly!NoJob.gift
  BY DEF Monthly!NoJob, JobRow
<1>2. Monthly!TypeOK
  <2>1. job \in [Deliveries -> JobRow]
    BY <1>1 DEF Monthly!Init
  <2>2. /\ charge \in [Invoices -> [state : {"due", "paid", "givenUp"}, fails : 0..MaxFails]]
        /\ gifts \in [Invoices -> Nat] /\ faults \in 0..MaxFaults
    BY DEF Monthly!Init
  <2>3. /\ sub = "none" /\ monthlyEvents = {} /\ claimed = {} /\ parent = FALSE /\ dunning = None
    BY DEF Monthly!Init
  <2> QED BY <2>1, <2>2, <2>3 DEF Monthly!TypeOK, JobRow
<1>3. \A d \in Deliveries : ~job[d].gift /\ job[d].pc = "idle"
  BY <1>1 DEF Monthly!Init
<1>4. JobsFine /\ OneInserts
  BY <1>3 DEF JobsFine, JobFine, OneInserts
<1>5. Monthly!RenewalOnce
  BY DEF Monthly!Init, Monthly!RenewalOnce
<1> QED BY <1>2, <1>4, <1>5 DEF MonthlyIInv

\* A step of Stripe touches nothing of ours.
LEMMA SubscriptionSteps ==
  ASSUME MaxFails \in Nat, MonthlyIInv,
         \/ Monthly!PayCheckout
         \/ \E i \in Invoices : Monthly!Charge(i) \/ (\E last \in BOOLEAN : Monthly!Fail(i, last))
         \/ \E howOften \in 1..2 : Monthly!End(howOften)
  PROVE  MonthlyIInv'
<1>1. UNCHANGED <<Monthly!Database, job, faults>>
  BY DEF Monthly!PayCheckout, Monthly!Charge, Monthly!Fail, Monthly!End
<1>2. /\ sub' \in {"none", "live", "ended", "endedUnknown"}
      /\ charge' \in [Invoices -> [state : {"due", "paid", "givenUp"}, fails : 0..MaxFails]]
      /\ monthlyEvents' \subseteq Monthly!Event
  <2>1. CASE Monthly!PayCheckout
    BY <2>1 DEF Monthly!PayCheckout, MonthlyIInv, Monthly!TypeOK, Monthly!Event
  <2>2. ASSUME NEW i \in Invoices, Monthly!Charge(i)
        PROVE  /\ sub' \in {"none", "live", "ended", "endedUnknown"}
               /\ charge' \in [Invoices -> [state : {"due", "paid", "givenUp"}, fails : 0..MaxFails]]
               /\ monthlyEvents' \subseteq Monthly!Event
    <3>1. Monthly!EventsOf(i) \subseteq Monthly!Event
      BY DEF Monthly!EventsOf, Monthly!Event, Monthly!Success
    <3> QED BY <2>2, <3>1 DEF Monthly!Charge, MonthlyIInv, Monthly!TypeOK
  <2>3. ASSUME NEW i \in Invoices, NEW last \in BOOLEAN, Monthly!Fail(i, last)
        PROVE  /\ sub' \in {"none", "live", "ended", "endedUnknown"}
               /\ charge' \in [Invoices -> [state : {"due", "paid", "givenUp"}, fails : 0..MaxFails]]
               /\ monthlyEvents' \subseteq Monthly!Event
    <3>1. charge[i].fails + 1 \in 1..MaxFails
      BY <2>3 DEF Monthly!Fail, MonthlyIInv, Monthly!TypeOK
    <3>2. [kind |-> IF last THEN "payment_failed_last" ELSE "payment_failed",
           inv |-> i, n |-> charge[i].fails + 1] \in Monthly!Event
      BY <3>1 DEF Monthly!Event, Monthly!Failure
    <3> QED BY <2>3, <3>1, <3>2 DEF Monthly!Fail, MonthlyIInv, Monthly!TypeOK
  <2>4. ASSUME NEW howOften \in 1..2, Monthly!End(howOften)
        PROVE  /\ sub' \in {"none", "live", "ended", "endedUnknown"}
               /\ UNCHANGED charge /\ monthlyEvents' \subseteq Monthly!Event
    BY <2>4 DEF Monthly!End, MonthlyIInv, Monthly!TypeOK, Monthly!Event
  <2> QED BY <2>1, <2>2, <2>3, <2>4 DEF MonthlyIInv, Monthly!TypeOK
<1> QED BY <1>1, <1>2 DEF MonthlyIInv, Monthly!TypeOK, Monthly!Database, JobsFine, JobFine, OneInserts,
                          Monthly!RenewalOnce

\* One delivery moves, and the tables stay as they are.
LEMMA JobMoved ==
  ASSUME MonthlyIInv, NEW d \in Deliveries, NEW j \in JobRow, job' = [job EXCEPT ![d] = j],
         UNCHANGED <<Monthly!Stripe, Monthly!Database>>, monthlyEvents' \subseteq monthlyEvents,
         faults' \in 0..MaxFaults,
         JobFine(j),
         j.gift => \A o \in Deliveries : job[o].gift /\ job[o].ev.inv = j.ev.inv => o = d
  PROVE  MonthlyIInv'
<1>1. job'[d] = j /\ \A o \in Deliveries \ {d} : job'[o] = job[o]
  BY DEF MonthlyIInv, Monthly!TypeOK
<1>2. Monthly!TypeOK'
  BY DEF MonthlyIInv, Monthly!TypeOK, JobRow, Monthly!Stripe, Monthly!Database
<1>3. JobsFine' /\ Monthly!RenewalOnce'
  BY <1>1 DEF MonthlyIInv, JobsFine, JobFine, Monthly!RenewalOnce, Monthly!Database
<1>4. OneInserts'
  BY <1>1 DEF MonthlyIInv, OneInserts
<1> QED BY <1>2, <1>3, <1>4 DEF MonthlyIInv

LEMMA DeliverySteps ==
  ASSUME MaxFaults \in Nat, MonthlyIInv, NEW d \in Deliveries,
         Monthly!LookForInvoice(d) \/ Monthly!ReadDunning(d) \/ Monthly!Die(d) \/ (\E e \in monthlyEvents : Monthly!Claim(d, e))
  PROVE  MonthlyIInv'
<1>1. /\ Monthly!NoJob \in JobRow /\ ~Monthly!NoJob.gift /\ Monthly!NoJob.pc = "idle" /\ faults \in 0..MaxFaults
      /\ job[d] \in JobRow /\ JobFine(job[d]) /\ dunning \in Monthly!Row \cup {None}
  BY DEF Monthly!NoJob, JobRow, MonthlyIInv, Monthly!TypeOK, JobsFine
<1>2. CASE Monthly!LookForInvoice(d)
  <2> DEFINE i == job[d].ev.inv
  <2>1. i \in Invoices /\ job[d].pc = "invoice" /\ ~job[d].gift /\ gifts[i] \in Nat
    BY <1>1, <1>2 DEF Monthly!LookForInvoice, JobFine, MonthlyIInv, Monthly!TypeOK
  <2>2. PICK j \in JobRow : j = [job[d] EXCEPT !.pc = "dunning", !.gift = ~Monthly!Seen(i)]
    BY <1>1 DEF JobRow
  <2>3. /\ j.ev = job[d].ev /\ j.pc = "dunning" /\ (j.gift => gifts[i] = 0)
    BY <1>1, <2>1, <2>2 DEF JobRow, Monthly!Seen
  <2>4. JobFine(j)
    BY <1>1, <1>2, <2>1, <2>3 DEF JobFine, Monthly!LookForInvoice
  <2>5. \A o \in Deliveries : job[o].gift => Monthly!HoldsInvoice(o)
    BY DEF Monthly!HoldsInvoice, MonthlyIInv, JobsFine, JobFine
  <2>6. \A o \in Deliveries : job[o].gift => job[o].ev.inv # i
    BY <1>2, <2>5 DEF Monthly!LookForInvoice
  <2>7. job' = [job EXCEPT ![d] = j] /\ UNCHANGED <<Monthly!Stripe, monthlyEvents, Monthly!Database, faults>>
    BY <1>2, <2>2 DEF Monthly!LookForInvoice, MonthlyIInv, Monthly!TypeOK
  <2> QED BY <1>1, <2>3, <2>4, <2>6, <2>7, JobMoved
<1>3. CASE Monthly!ReadDunning(d)
  <2>1. PICK write \in Monthly!Statuses \cup {"nothing", "cancelled"} :
          write = IF parent THEN Monthly!Decision(dunning, job[d].ev) ELSE "nothing"
    BY <1>1, DecisionTyped
  <2>2. PICK j \in JobRow : j = [job[d] EXCEPT !.pc = "write", !.insert = (dunning = None), !.write = write]
    BY <1>1 DEF JobRow
  <2>3. j.ev = job[d].ev /\ j.gift = job[d].gift /\ j.pc = "write"
    BY <1>1, <2>2 DEF JobRow
  <2>4. JobFine(j)
    BY <1>1, <1>3, <2>3 DEF JobFine, Monthly!ReadDunning
  <2>5. job' = [job EXCEPT ![d] = j] /\ UNCHANGED <<Monthly!Stripe, monthlyEvents, Monthly!Database, faults>>
    BY <1>3, <2>1, <2>2 DEF Monthly!ReadDunning, MonthlyIInv, Monthly!TypeOK
  <2>6. job[d].gift => \A o \in Deliveries : job[o].gift /\ job[o].ev.inv = job[d].ev.inv => o = d
    BY DEF MonthlyIInv, OneInserts
  <2> QED BY <1>1, <2>3, <2>4, <2>5, <2>6, JobMoved
<1>4. CASE Monthly!Die(d)
  <2>1. /\ job' = [job EXCEPT ![d] = Monthly!NoJob] /\ UNCHANGED <<Monthly!Stripe, monthlyEvents, Monthly!Database>>
        /\ faults' \in 0..MaxFaults
    BY <1>1, <1>4 DEF Monthly!Die, Monthly!Finish
  <2>2. JobFine(Monthly!NoJob)
    BY <1>1 DEF JobFine
  <2>3. PICK j \in JobRow : j = Monthly!NoJob
    BY <1>1
  <2> QED BY <1>1, <2>1, <2>2, <2>3, JobMoved
<1>5. ASSUME NEW e \in monthlyEvents, Monthly!Claim(d, e) PROVE MonthlyIInv'
  <2>1. CASE e \in claimed
    <3>1. monthlyEvents' \subseteq monthlyEvents /\ UNCHANGED <<Monthly!Stripe, Monthly!Database, faults, job>>
      BY <1>5, <2>1 DEF Monthly!Claim
    <3> QED BY <3>1 DEF MonthlyIInv, Monthly!TypeOK, Monthly!Stripe, Monthly!Database, JobsFine, JobFine,
                        OneInserts, Monthly!RenewalOnce
  <2>2. CASE e \notin claimed
    <3>1. e \in Monthly!Event
      BY DEF MonthlyIInv, Monthly!TypeOK
    <3>2. PICK p \in {"write", "invoice", "dunning"} :
            p = IF e = Monthly!Checkout THEN "write" ELSE IF Monthly!Renewal(e) /\ parent THEN "invoice" ELSE "dunning"
      OBVIOUS
    <3>3. PICK j \in JobRow : j = [Monthly!NoJob EXCEPT !.ev = e, !.pc = p]
      BY <1>1, <3>1 DEF JobRow
    <3>4. ~j.gift /\ j.ev = e /\ j.pc = p
      BY <1>1, <3>3 DEF JobRow
    <3>5. JobFine(j)
      <4>1. CASE p = "invoice"
        <5>1. e.inv \in Invoices
          BY <3>1, <3>2, <4>1, RenewalInvoice
        <5> QED BY <3>1, <3>4, <5>1 DEF JobFine
      <4> QED BY <3>1, <3>4, <4>1 DEF JobFine
    <3>6. job' = [job EXCEPT ![d] = j] /\ UNCHANGED <<Monthly!Stripe, monthlyEvents, Monthly!Database, faults>>
      BY <1>5, <2>2, <3>2, <3>3 DEF Monthly!Claim
    <3> QED BY <1>1, <3>4, <3>5, <3>6, JobMoved
  <2> QED BY <2>1, <2>2
<1> QED BY <1>2, <1>3, <1>4, <1>5

\* The commit: the donation it inserts is the invoice's first.
LEMMA CommitStep ==
  ASSUME MaxFaults \in Nat, None \notin Monthly!Row, MonthlyIInv, NEW d \in Deliveries,
  NEW heard \in BOOLEAN,
         Monthly!Commit(d, heard)
  PROVE  MonthlyIInv'
<1> DEFINE j == job[d]
<1>1. /\ Monthly!NoJob \in JobRow /\ ~Monthly!NoJob.gift /\ Monthly!NoJob.pc = "idle" /\ faults \in 0..MaxFaults
      /\ j \in JobRow /\ JobFine(j) /\ dunning \in Monthly!Row \cup {None} /\ j.pc = "write"
      /\ job' = [job EXCEPT ![d] = Monthly!NoJob] /\ UNCHANGED Monthly!Stripe
  BY DEF Monthly!NoJob, JobRow, MonthlyIInv, Monthly!TypeOK, JobsFine, Monthly!Commit, Monthly!Finish
<1>2. CASE j.write # "nothing" /\ j.insert /\ dunning # None
  <2>1. UNCHANGED <<monthlyEvents, Monthly!Database, faults>>
    BY <1>2 DEF Monthly!Commit
  <2>2. JobFine(Monthly!NoJob)
    BY <1>1 DEF JobFine
  <2>3. PICK k \in JobRow : k = Monthly!NoJob
    BY <1>1
  <2> QED BY <1>1, <2>1, <2>2, <2>3, JobMoved
<1>3. CASE ~(j.write # "nothing" /\ j.insert /\ dunning # None)
  <2>1. /\ parent' = (parent \/ j.ev = Monthly!Checkout)
        /\ gifts' = IF j.gift THEN [gifts EXCEPT ![j.ev.inv] = @ + 1] ELSE gifts
        /\ dunning' = IF j.write = "nothing" THEN dunning ELSE Monthly!Written(dunning, j.write)
        /\ claimed' = claimed \cup {j.ev} /\ monthlyEvents' \subseteq monthlyEvents
        /\ faults' \in 0..MaxFaults
    BY <1>1, <1>3 DEF Monthly!Commit
  <2>2. j.ev \in Monthly!Event
    BY <1>1 DEF JobFine
  <2>3. dunning' \in Monthly!Row \cup {None}
    BY <1>1, <2>1, WrittenRow DEF JobRow
  <2>4. gifts' \in [Invoices -> Nat]
    BY <1>1, <2>1 DEF MonthlyIInv, Monthly!TypeOK, JobFine
  <2>5. Monthly!TypeOK'
    BY <1>1, <2>1, <2>2, <2>3, <2>4 DEF MonthlyIInv, Monthly!TypeOK, JobRow, Monthly!Stripe
  <2>6. \A i \in Invoices : gifts'[i] = gifts[i] \/ (j.gift /\ i = j.ev.inv /\ gifts[i] = 0 /\ gifts'[i] = 1)
    BY <1>1, <2>1 DEF MonthlyIInv, Monthly!TypeOK, JobFine
  <2>7. Monthly!RenewalOnce'
    BY <2>6 DEF MonthlyIInv, Monthly!RenewalOnce
  <2>8. job'[d] = Monthly!NoJob /\ \A o \in Deliveries \ {d} : job'[o] = job[o]
    BY <1>1 DEF MonthlyIInv, Monthly!TypeOK
  <2>9. ASSUME NEW o \in Deliveries PROVE JobFine(job[o])'
    <3>1. CASE o = d
      BY <1>1, <2>8, <3>1 DEF JobFine
    <3>2. CASE o # d
      <4>1. JobFine(job[o]) /\ job'[o] = job[o]
        BY <2>8, <3>2 DEF MonthlyIInv, JobsFine
      <4>2. job[o].gift /\ j.gift => job[o].ev.inv # j.ev.inv
        BY <3>2 DEF MonthlyIInv, OneInserts
      <4> QED BY <2>6, <4>1, <4>2 DEF JobFine
    <3> QED BY <3>1, <3>2
  <2>10. OneInserts'
    BY <1>1, <2>8 DEF MonthlyIInv, OneInserts
  <2> QED BY <2>5, <2>7, <2>9, <2>10 DEF MonthlyIInv, JobsFine
<1> QED BY <1>2, <1>3
-------------------------------------------------------------------------------
LEMMA MonthlyNext ==
  ASSUME MaxFails \in Nat, MaxFaults \in Nat, None \notin Monthly!Row, MonthlyIInv,
  [Monthly!Next]_(Monthly!vars)
  PROVE  MonthlyIInv'
<1>1. CASE UNCHANGED Monthly!vars
  BY <1>1 DEF Monthly!vars, Monthly!Stripe, Monthly!Database, MonthlyIInv, Monthly!TypeOK, JobsFine,
              JobFine, OneInserts, Monthly!RenewalOnce
<1>2. ASSUME NEW d \in Deliveries, Monthly!Commit(d, TRUE) \/ Monthly!Commit(d, FALSE) PROVE MonthlyIInv'
  BY <1>2, CommitStep
<1> QED BY <1>1, <1>2, SubscriptionSteps, DeliverySteps DEF Monthly!Next, Monthly!Deliver
-------------------------------------------------------------------------------
(* Gifts on their way to a claim                                               *)

GiftStripe == [paid : {"none", "pending", "paid", "failed"}, back : 0..Amount]
MailState == {"idle", "due", "mailed", "bounced"}

GiftTyped ==
  /\ giftStripe \in [Gifts -> GiftStripe] /\ giftEvents \subseteq Claims!Event
  /\ reading \subseteq [event : Claims!Event, saw : Claims!Row]
  /\ row \in [Gifts -> Claims!Row \cup {None}]
  /\ mail \in [Gifts -> MailState] /\ batchedAt \in [Gifts -> 0..Amount]

GiftPaid(g) == giftStripe[g].paid = "paid"
InClaim(claim) == claim \in {"batched", "adjustment_due"}
Waits(r) == r.confirmation \in {"pending", "sent", "undelivered"}

\* A donation that is or may be claimed was paid and has a declaration; one that waits for its
\* declaration has none.
RowFine(g, r) ==
  /\ r.claim # "not_eligible" \/ r.batched \/ r.confirmation # "not_required" => GiftPaid(g)
  /\ r.claim # "not_eligible" \/ r.batched => r.declared # None
  /\ Waits(r) => r.declared = None
Adjusted(g, r) == r.batched /\ g \notin written => InClaim(r.claim) /\ r.refunded - batchedAt[g] <= r.adjusted
RowsFine == \A g \in Gifts : row[g] # None => RowFine(g, row[g]) /\ Adjusted(g, row[g])

\* What an event tells is true, and of a gift that is not recorded yet if it tells of it first.
EventTrue(e) ==
  /\ e.type = "created" => e.total = 0 /\ row[e.gift] = None /\ giftStripe[e.gift].paid # "none"
  /\ e.type = "created" /\ kind[e.gift] # "bacs" => GiftPaid(e.gift)
  /\ e.type \in {"settled", "refund"} => GiftPaid(e.gift)
EventsTrue == \A e \in giftEvents : EventTrue(e)

\* What is left true of a donation a transaction has read.
ReadTrue(r) ==
  /\ row[r.event.gift] # None
  /\ r.event.type \in {"settled", "refund"} => GiftPaid(r.event.gift)
  /\ r.saw.claim # "not_eligible" \/ r.saw.declared # None => row[r.event.gift].declared # None
  /\ r.saw.batched /\ r.event.gift \notin written => InClaim(r.saw.claim)
ReadingTrue == \A r \in reading : ReadTrue(r)

MailTrue == \A g \in Gifts : mail[g] # "idle" => row[g] # None /\ row[g].confirmation = "pending"
NotGiven == \A g \in Gifts : giftStripe[g].paid = "none" => row[g] = None

GiftIInv == GiftTyped /\ RowsFine /\ EventsTrue /\ ReadingTrue /\ MailTrue /\ NotGiven
-------------------------------------------------------------------------------
LEMMA GiftInit == ASSUME Amount \in Nat, Claims!Init PROVE GiftIInv
<1>1. GiftTyped
  BY DEF Claims!Init, GiftTyped, GiftStripe, MailState
<1>2. RowsFine /\ EventsTrue /\ ReadingTrue /\ MailTrue /\ NotGiven
  BY DEF Claims!Init, RowsFine, EventsTrue, ReadingTrue, MailTrue, NotGiven
<1> QED BY <1>1, <1>2 DEF GiftIInv

\* A step of Stripe: what was paid stays so, and the new event is true.
LEMMA GiftStripeStep ==
  ASSUME GiftIInv, NEW g \in Gifts, NEW s \in GiftStripe, NEW e \in Claims!Event,
         giftStripe' = [giftStripe EXCEPT ![g] = s], giftEvents' = giftEvents \cup {e},
         UNCHANGED <<kind, reading, row, mail, batchedAt, written>>,
         GiftPaid(g) => s.paid = "paid", s.paid # "none", EventTrue(e)'
  PROVE  GiftIInv'
<1>1. \A h \in Gifts : (GiftPaid(h) => GiftPaid(h)') /\ (giftStripe'[h].paid = "none" => giftStripe[h].paid = "none")
  BY DEF GiftIInv, GiftTyped, GiftPaid
<1>2. GiftTyped'
  BY DEF GiftIInv, GiftTyped
<1>3. RowsFine'
  BY <1>1 DEF GiftIInv, RowsFine, RowFine, Adjusted, Waits, InClaim
<1>4. EventsTrue'
  <2>1. ASSUME NEW f \in giftEvents PROVE EventTrue(f)'
    <3>1. f.gift \in Gifts /\ EventTrue(f)
      BY DEF GiftIInv, GiftTyped, Claims!Event, EventsTrue
    <3> QED BY <1>1, <3>1 DEF EventTrue
  <2> QED BY <2>1 DEF EventsTrue
<1>5. ReadingTrue'
  BY <1>1 DEF GiftIInv, GiftTyped, Claims!Event, ReadingTrue, ReadTrue, InClaim
<1>6. MailTrue' /\ NotGiven'
  BY <1>1 DEF GiftIInv, MailTrue, NotGiven
<1> QED BY <1>2, <1>3, <1>4, <1>5, <1>6 DEF GiftIInv

LEMMA GiftStripeSteps ==
  ASSUME Amount \in Nat, GiftIInv, NEW g \in Gifts,
         \/ Claims!Give(g) \/ (\E ok \in BOOLEAN : Claims!Settle(g, ok))
         \/ \E a \in 1..Amount, disputed \in BOOLEAN : Claims!Refund(g, a, disputed)
  PROVE  GiftIInv'
<1>1. giftStripe[g] \in GiftStripe
  BY DEF GiftIInv, GiftTyped
<1>2. CASE Claims!Give(g)
  <2> DEFINE s == [giftStripe[g] EXCEPT !.paid = IF kind[g] = "bacs" THEN "pending" ELSE "paid"]
             e == Claims!EventOf(g, "created", 0)
  <2>1. /\ s \in GiftStripe /\ s.paid # "none" /\ (kind[g] # "bacs" => s.paid = "paid") /\ ~GiftPaid(g)
        /\ giftStripe' = [giftStripe EXCEPT ![g] = s]
    BY <1>1, <1>2 DEF Claims!Give, GiftStripe, GiftPaid
  <2>2. e \in Claims!Event /\ e.gift = g /\ e.type = "created" /\ e.total = 0
    BY DEF Claims!EventOf, Claims!Event
  <2>3. row[g] = None
    BY <1>2 DEF Claims!Give, GiftIInv, NotGiven
  <2>4. giftEvents' = giftEvents \cup {e} /\ UNCHANGED <<kind, reading, row, mail, batchedAt, written>>
    BY <1>2 DEF Claims!Give, Claims!Told
  <2> HIDE DEF s, e
  <2>5. EventTrue(e)'
    BY <2>1, <2>2, <2>3, <2>4 DEF EventTrue, GiftPaid, GiftIInv, GiftTyped
  <2> QED BY <2>1, <2>2, <2>4, <2>5, GiftStripeStep
<1>3. ASSUME NEW ok \in BOOLEAN, Claims!Settle(g, ok) PROVE GiftIInv'
  <2> DEFINE s == [giftStripe[g] EXCEPT !.paid = IF ok THEN "paid" ELSE "failed"]
             e == Claims!EventOf(g, IF ok THEN "settled" ELSE "failed", 0)
  <2>1. /\ s \in GiftStripe /\ s.paid # "none" /\ (ok => s.paid = "paid") /\ ~GiftPaid(g)
        /\ giftStripe' = [giftStripe EXCEPT ![g] = s]
    BY <1>1, <1>3 DEF Claims!Settle, GiftStripe, GiftPaid
  <2>2. e \in Claims!Event /\ e.gift = g /\ e.type \notin {"created", "refund"} /\ (e.type = "settled" => ok)
    BY DEF Claims!EventOf, Claims!Event
  <2>3. giftEvents' = giftEvents \cup {e} /\ UNCHANGED <<kind, reading, row, mail, batchedAt, written>>
    BY <1>3 DEF Claims!Settle, Claims!Told, Claims!history
  <2> HIDE DEF s, e
  <2>4. EventTrue(e)'
    BY <2>1, <2>2 DEF EventTrue, GiftPaid, GiftIInv, GiftTyped
  <2> QED BY <2>1, <2>2, <2>3, <2>4, GiftStripeStep
<1>4. ASSUME NEW a \in 1..Amount, NEW disputed \in BOOLEAN, Claims!Refund(g, a, disputed) PROVE GiftIInv'
  <2>1. /\ giftStripe[g].back + a \in 0..Amount /\ a \in 0..Amount
    BY <1>1, <1>4 DEF Claims!Refund, GiftStripe
  <2>6. PICK total \in 0..Amount : Claims!Told(Claims!EventOf(g, "refund", total))
    BY <1>4, <2>1 DEF Claims!Refund
  <2> DEFINE s == [giftStripe[g] EXCEPT !.back = @ + a]
             e == Claims!EventOf(g, "refund", total)
  <2>2. /\ s \in GiftStripe /\ s.paid = "paid" /\ giftStripe' = [giftStripe EXCEPT ![g] = s]
    BY <1>1, <1>4, <2>1 DEF Claims!Refund, GiftStripe
  <2>3. e \in Claims!Event /\ e.gift = g /\ e.type = "refund"
    BY DEF Claims!EventOf, Claims!Event
  <2>4. giftEvents' = giftEvents \cup {e} /\ UNCHANGED <<kind, reading, row, mail, batchedAt, written>>
    BY <1>4, <2>6 DEF Claims!Refund, Claims!Told, Claims!history
  <2> HIDE DEF s, e
  <2>5. EventTrue(e)'
    BY <2>2, <2>3 DEF EventTrue, GiftPaid, GiftIInv, GiftTyped
  <2> QED BY <2>2, <2>3, <2>4, <2>5, GiftStripeStep
<1> QED BY <1>2, <1>3, <1>4
-------------------------------------------------------------------------------
\* A step of anyone else that writes one donation: what is left to show of it is what it writes.
LEMMA RowWritten ==
  ASSUME GiftIInv, NEW g \in Gifts, NEW new \in Claims!Row, NEW n \in 0..Amount, row[g] # None,
         row' = [row EXCEPT ![g] = new], batchedAt' = [batchedAt EXCEPT ![g] = n],
         UNCHANGED <<kind, giftStripe>>, giftEvents' \subseteq giftEvents, reading' \subseteq reading,
         mail' \in [Gifts -> MailState],
         \A h \in Gifts : mail'[h] # "idle" => mail[h] # "idle",
         mail'[g] # "idle" => new.confirmation = "pending",
         written \subseteq written', written' \subseteq written \cup {g},
         row[g].declared # None => new.declared # None,
         RowFine(g, new), Adjusted(g, new)',
         None \notin Claims!Row
  PROVE  GiftIInv'
<1>1. /\ row'[g] = new /\ new # None
      /\ \A h \in Gifts \ {g} : row'[h] = row[h] /\ batchedAt'[h] = batchedAt[h]
  BY DEF GiftIInv, GiftTyped
<1>2. GiftTyped'
  BY DEF GiftIInv, GiftTyped
<1>3. RowsFine'
  <2>1. ASSUME NEW h \in Gifts \ {g}, row[h] # None
        PROVE  RowFine(h, row[h])' /\ Adjusted(h, row[h])'
    <3>1. RowFine(h, row[h]) /\ Adjusted(h, row[h])
      BY <2>1 DEF GiftIInv, RowsFine
    <3> QED BY <1>1, <2>1, <3>1 DEF RowFine, GiftPaid, Waits, Adjusted, InClaim
  <2>2. RowFine(g, row[g])' /\ Adjusted(g, row[g])'
    BY <1>1 DEF RowFine, GiftPaid, Waits, Adjusted, InClaim
  <2> QED BY <1>1, <2>1, <2>2 DEF RowsFine
<1>4. EventsTrue'
  <2>1. ASSUME NEW e \in giftEvents PROVE EventTrue(e)'
    <3>1. e.gift \in Gifts /\ EventTrue(e)
      BY DEF GiftIInv, GiftTyped, Claims!Event, EventsTrue
    <3> QED BY <1>1, <3>1 DEF EventTrue, GiftPaid
  <2> QED BY <2>1 DEF EventsTrue
<1>5. ReadingTrue'
  <2>1. ASSUME NEW r \in reading PROVE ReadTrue(r)'
    <3>1. r.event.gift \in Gifts /\ ReadTrue(r)
      BY DEF GiftIInv, GiftTyped, Claims!Event, ReadingTrue
    <3> QED BY <1>1, <3>1 DEF ReadTrue, GiftPaid, InClaim
  <2> QED BY <2>1 DEF ReadingTrue
<1>6. MailTrue' /\ NotGiven'
  BY <1>1 DEF GiftIInv, MailTrue, NotGiven
<1> QED BY <1>2, <1>3, <1>4, <1>5, <1>6 DEF GiftIInv

\* A new donation is one of the donations there can be.
LEMMA NewRowTyped ==
  ASSUME Amount \in Nat, NEW pay \in {"pending", "paid", "failed"}, NEW giftAid \in BOOLEAN,
         NEW declared \in Gifts \cup {None},
         NEW confirmation \in {"not_required", "pending", "sent", "undelivered", "completed"}
  PROVE  /\ Claims!NewRow(pay, giftAid, declared, confirmation) \in Claims!Row
         /\ \E new \in Claims!Row : new = Claims!NewRow(pay, giftAid, declared, confirmation)
<1>1. Claims!DeriveClaimStatus(giftAid, declared, 0, pay) \in {"not_eligible", "eligible"} /\ 0 \in 0..Amount
  BY DEF Claims!DeriveClaimStatus
<1>2. Claims!NewRow(pay, giftAid, declared, confirmation) \in Claims!Row
  BY <1>1 DEF Claims!NewRow, Claims!Row
<1> QED BY <1>2

\* A donation is recorded once: its event was the only one of its kind.
LEMMA CreatedStep ==
  ASSUME Amount \in Nat, None \notin Claims!Row, GiftIInv, NEW e \in giftEvents, Claims!TakeCreated(e)
  PROVE  GiftIInv'
<1> DEFINE g == e.gift
<1>1. /\ g \in Gifts /\ e.type = "created" /\ e \in Claims!Event /\ EventTrue(e)
      /\ giftEvents' = giftEvents \ {e}
      /\ UNCHANGED <<kind, giftStripe, reading, revoked, batchedAt, written, given>>
  BY DEF GiftIInv, GiftTyped, Claims!Event, Claims!TakeCreated, EventsTrue, Claims!history
<1>2. /\ row[g] = None /\ giftStripe[g].paid # "none" /\ e.total = 0
      /\ kind[g] # "bacs" => GiftPaid(g)
  BY <1>1 DEF EventTrue
<1>3. \A r \in reading : r.event.gift # g
  BY <1>2 DEF GiftIInv, ReadingTrue, ReadTrue
<1>4. \A f \in giftEvents : f # e => ~(f.gift = g /\ f.type = "created")
  <2>1. ASSUME NEW f \in giftEvents, f.gift = g, f.type = "created" PROVE f = e
    <3>1. f \in Claims!Event /\ f.total = 0
      BY <2>1 DEF GiftIInv, GiftTyped, EventsTrue, EventTrue
    <3> QED BY <1>1, <1>2, <2>1, <3>1 DEF Claims!Event
  <2> QED BY <2>1
<1>5. ASSUME NEW new \in Claims!Row, row' = [row EXCEPT ![g] = new], RowFine(g, new), ~new.batched,
             \/ UNCHANGED mail
             \/ mail' = [mail EXCEPT ![g] = "due"] /\ new.confirmation = "pending"
      PROVE  GiftIInv'
  <2>1. row'[g] = new /\ new # None /\ \A h \in Gifts \ {g} : row'[h] = row[h]
    BY <1>1, <1>5 DEF GiftIInv, GiftTyped
  <2>2. GiftTyped'
    BY <1>1, <1>5 DEF GiftIInv, GiftTyped, MailState
  <2>3. RowsFine'
    <3>1. ASSUME NEW h \in Gifts \ {g}, row[h] # None
          PROVE  RowFine(h, row[h])' /\ Adjusted(h, row[h])'
      <4>1. RowFine(h, row[h]) /\ Adjusted(h, row[h])
        BY <3>1 DEF GiftIInv, RowsFine
      <4> QED BY <1>1, <2>1, <3>1, <4>1 DEF RowFine, GiftPaid, Waits, Adjusted, InClaim
    <3>2. RowFine(g, row[g])' /\ Adjusted(g, row[g])'
      BY <1>1, <1>5, <2>1 DEF RowFine, GiftPaid, Waits, Adjusted, InClaim
    <3> QED BY <1>1, <2>1, <3>1, <3>2 DEF RowsFine
  <2>4. EventsTrue'
    <3>1. ASSUME NEW f \in giftEvents, f # e PROVE EventTrue(f)'
      <4>1. f.gift \in Gifts /\ EventTrue(f) /\ ~(f.gift = g /\ f.type = "created")
        BY <1>4, <3>1 DEF GiftIInv, GiftTyped, Claims!Event, EventsTrue
      <4> QED BY <1>1, <2>1, <4>1 DEF EventTrue, GiftPaid
    <3> QED BY <1>1, <3>1 DEF EventsTrue
  <2>5. ReadingTrue'
    <3>1. ASSUME NEW r \in reading PROVE ReadTrue(r)'
      <4>1. r.event.gift \in Gifts \ {g} /\ ReadTrue(r)
        BY <1>3 DEF GiftIInv, GiftTyped, Claims!Event, ReadingTrue
      <4> QED BY <1>1, <2>1, <4>1 DEF ReadTrue, GiftPaid, InClaim
    <3> QED BY <1>1, <3>1 DEF ReadingTrue
  <2>6. MailTrue'
    BY <1>1, <1>2, <1>5, <2>1 DEF GiftIInv, MailTrue, GiftTyped, MailState
  <2>7. NotGiven'
    BY <1>1, <1>2, <2>1 DEF GiftIInv, NotGiven
  <2> QED BY <2>2, <2>3, <2>4, <2>5, <2>6, <2>7 DEF GiftIInv
<1> HIDE DEF g
<1>6. CASE Claims!InsertDonation(g)
  <2> DEFINE pay == IF kind[g] = "bacs" THEN "pending" ELSE "paid"
  <2>0. pay \in {"pending", "paid", "failed"}
    OBVIOUS
  <2>1. PICK new \in Claims!Row : new = Claims!NewRow(pay, TRUE, g, "not_required")
    BY <1>1, <2>0, NewRowTyped
  <2>2. /\ ~new.batched /\ new.confirmation = "not_required"
        /\ new.claim # "not_eligible" => kind[g] # "bacs" /\ new.declared # None
    BY <2>1 DEF Claims!NewRow, Claims!DeriveClaimStatus
  <2>3. RowFine(g, new)
    BY <1>2, <2>2 DEF RowFine, Waits
  <2>4. row' = [row EXCEPT ![g] = new] /\ UNCHANGED mail
    BY <1>6, <2>1 DEF Claims!InsertDonation
  <2> QED BY <1>5, <2>2, <2>3, <2>4
<1>7. CASE Claims!InsertTap(g)
  <2>1. PICK new \in Claims!Row : new = Claims!NewRow("paid", FALSE, None, "pending")
    BY NewRowTyped
  <2>2. ~new.batched /\ new.confirmation = "pending" /\ new.claim = "not_eligible" /\ new.declared = None
    BY <2>1 DEF Claims!NewRow, Claims!DeriveClaimStatus
  <2>3. RowFine(g, new)
    BY <1>2, <1>7, <2>2 DEF RowFine, Waits, Claims!InsertTap
  <2>4. row' = [row EXCEPT ![g] = new] /\ mail' = [mail EXCEPT ![g] = "due"]
    BY <1>7, <2>1 DEF Claims!InsertTap
  <2> QED BY <1>5, <2>2, <2>3, <2>4
<1>8. CASE Claims!InsertRenewal(g)
  <2>1. CASE \E p \in Claims!Parents : row[p] # None
    <3> DEFINE p == CHOOSE q \in Claims!Parents : row[q] # None
    <3>1. p \in Claims!Parents /\ row[p] # None /\ p \in Gifts /\ row[p] \in Claims!Row
      BY <2>1 DEF Claims!Parents, GiftIInv, GiftTyped
    <3>2. row[p].giftAid \in BOOLEAN /\ row[p].declared \in Gifts \cup {None}
      BY <3>1 DEF Claims!Row
    <3>3. row' = [row EXCEPT ![g] = Claims!NewRow("paid", row[p].giftAid, Claims!Inherited(p), "not_required")] /\ UNCHANGED mail
      BY <1>8, <2>1 DEF Claims!InsertRenewal
    <3> HIDE DEF p
    <3>4. PICK new \in Claims!Row : new = Claims!NewRow("paid", row[p].giftAid, Claims!Inherited(p), "not_required")
      BY <3>2, NewRowTyped DEF Claims!Inherited
    <3>5. /\ ~new.batched /\ new.confirmation = "not_required"
          /\ new.claim # "not_eligible" => new.declared # None
      BY <3>4 DEF Claims!NewRow, Claims!DeriveClaimStatus
    <3>6. RowFine(g, new)
      BY <1>2, <1>8, <3>5 DEF RowFine, Waits, Claims!InsertRenewal
    <3> QED BY <1>5, <3>3, <3>4, <3>5, <3>6
  <2>2. CASE ~ \E p \in Claims!Parents : row[p] # None
    <3>1. UNCHANGED <<kind, giftStripe, reading, row, mail, batchedAt, written>> /\ giftEvents' \subseteq giftEvents
      BY <1>1, <1>8, <2>2 DEF Claims!InsertRenewal, GiftIInv, GiftTyped
    <3> QED BY <3>1 DEF GiftIInv, GiftTyped, RowsFine, RowFine, Adjusted, GiftPaid, EventsTrue, EventTrue,
                        ReadingTrue,
                        ReadTrue, MailTrue, NotGiven
  <2> QED BY <2>1, <2>2
<1> QED BY <1>6, <1>7, <1>8 DEF Claims!TakeCreated, g
-------------------------------------------------------------------------------
\* What a transaction decided on an old reading is still true of the donation it writes.
LEMMA DecidedSteps ==
  ASSUME Amount \in Nat, None \notin Claims!Row, GiftIInv, NEW r \in reading,
         Claims!HandleRefund(r) \/ Claims!HandleAsyncPayment(r)
  PROVE  GiftIInv'
<1>1. PICK g \in Gifts : g = r.event.gift
  BY DEF GiftIInv, GiftTyped, Claims!Event
<1>2. /\ r.event \in Claims!Event /\ r.saw \in Claims!Row /\ ReadTrue(r)
      /\ row[g] # None /\ row[g] \in Claims!Row /\ RowFine(g, row[g]) /\ Adjusted(g, row[g])
  BY <1>1 DEF GiftIInv, GiftTyped, ReadingTrue, ReadTrue, RowsFine
<1>3. batchedAt' = [batchedAt EXCEPT ![g] = batchedAt[g]] /\ batchedAt[g] \in 0..Amount
  BY DEF Claims!HandleRefund, Claims!HandleAsyncPayment, GiftIInv, GiftTyped
<1>4. PICK n \in 0..Amount : n = batchedAt[g]
  BY <1>3
<1>5. /\ UNCHANGED <<kind, giftStripe, mail>> /\ mail' \in [Gifts -> MailState]
      /\ giftEvents' \subseteq giftEvents /\ reading' \subseteq reading
      /\ written \subseteq written' /\ written' \subseteq written \cup {g}
      /\ mail[g] # "idle" => row[g].confirmation = "pending"
  BY <1>1 DEF Claims!HandleRefund, Claims!HandleAsyncPayment, Claims!Taken, Claims!WritesOver, GiftIInv,
              GiftTyped, MailTrue
<1>6. CASE Claims!HandleRefund(r)
  <2>1. PICK total \in 0..Amount : total = r.event.total
    BY <1>2 DEF Claims!Event
  <2>2. PICK claim \in {"not_eligible", "eligible", "batched", "adjustment_due"} : claim = Claims!Recalculated(r.saw, total)
    BY DEF Claims!Recalculated, Claims!DeriveClaimStatus
  <2>3. /\ claim # "not_eligible" => r.saw.claim # "not_eligible" \/ r.saw.declared # None
        /\ r.saw.claim \in {"batched", "adjustment_due"} => claim = "adjustment_due"
    BY <1>6, <2>2 DEF Claims!Recalculated, Claims!DeriveClaimStatus, Claims!HandleRefund
  <2>4. PICK new \in Claims!Row :
          new = [row[g] EXCEPT !.refunded = total, !.claim = claim,
                               !.adjusted = IF claim = "adjustment_due" THEN total ELSE @]
    BY <1>2 DEF Claims!Row
  <2>5. row' = [row EXCEPT ![g] = new]
    BY <1>1, <1>6, <2>1, <2>2, <2>4 DEF Claims!HandleRefund, GiftIInv, GiftTyped
  <2>6. /\ new.refunded = total /\ new.claim = claim /\ new.declared = row[g].declared
        /\ new.batched = row[g].batched /\ new.confirmation = row[g].confirmation
        /\ claim = "adjustment_due" => new.adjusted = total
    BY <1>2, <2>4 DEF Claims!Row
  <2>7. GiftPaid(g) /\ (claim # "not_eligible" => row[g].declared # None)
    BY <1>1, <1>2, <1>6, <2>3 DEF Claims!HandleRefund, ReadTrue
  <2>8. RowFine(g, new)
    BY <1>2, <2>6, <2>7 DEF RowFine, Waits
  <2>9. ASSUME new.batched, g \notin written' PROVE claim = "adjustment_due"
    <3>1. r.saw.batched /\ g \notin written
      BY <1>1, <1>6, <2>6, <2>9 DEF Claims!HandleRefund, Claims!WritesOver
    <3> QED BY <1>1, <1>2, <2>3, <3>1 DEF ReadTrue, InClaim
  <2>10. Adjusted(g, new)'
    <3>1. total - batchedAt'[g] <= total
      BY <1>3 DEF GiftIInv, GiftTyped
    <3> QED BY <2>6, <2>9, <3>1 DEF Adjusted, InClaim
  <2> QED BY <1>2, <1>3, <1>4, <1>5, <2>5, <2>6, <2>8, <2>10, RowWritten
<1>7. CASE Claims!HandleAsyncPayment(r)
  <2>1. PICK pay \in {"paid", "failed"} : pay = IF r.event.type = "settled" THEN "paid" ELSE "failed"
    OBVIOUS
  <2>2. PICK claim \in {"not_eligible", "eligible"} :
          claim = Claims!DeriveClaimStatus(r.saw.giftAid, r.saw.declared, r.saw.refunded, pay)
    BY DEF Claims!DeriveClaimStatus
  <2>3. claim # "not_eligible" => r.event.type = "settled" /\ r.saw.declared # None
    BY <2>1, <2>2 DEF Claims!DeriveClaimStatus
  <2>4. PICK new \in Claims!Row : new = [row[g] EXCEPT !.pay = pay, !.claim = claim]
    BY <1>2 DEF Claims!Row
  <2>5. row' = [row EXCEPT ![g] = new]
    BY <1>1, <1>7, <2>1, <2>2, <2>4 DEF Claims!HandleAsyncPayment, GiftIInv, GiftTyped
  <2>6. /\ new.claim = claim /\ new.declared = row[g].declared
        /\ new.batched = row[g].batched /\ new.confirmation = row[g].confirmation
    BY <1>2, <2>4 DEF Claims!Row
  <2>7. claim # "not_eligible" => GiftPaid(g) /\ row[g].declared # None
    BY <1>1, <1>2, <2>3 DEF ReadTrue
  <2>8. RowFine(g, new)
    BY <1>2, <2>6, <2>7 DEF RowFine, Waits
  <2>9. Adjusted(g, new)'
    BY <1>1, <1>7, <2>6 DEF Claims!HandleAsyncPayment, Claims!WritesOver, Adjusted
  <2> QED BY <1>2, <1>3, <1>4, <1>5, <2>5, <2>6, <2>8, <2>9, RowWritten
<1> QED BY <1>6, <1>7

\* Reading a donation, and giving a reading up.
LEMMA ReadSteps ==
  ASSUME Amount \in Nat, None \notin Claims!Row, GiftIInv,
         \/ \E e \in giftEvents : Claims!ReadDonation(e)
         \/ \E r \in reading : Claims!Abort(r)
  PROVE  GiftIInv'
<1>1. UNCHANGED <<kind, giftStripe, row, mail, batchedAt, written>> /\ giftEvents' \subseteq giftEvents
  BY DEF Claims!ReadDonation, Claims!Abort, Claims!history
<1>2. ASSUME NEW r \in reading' PROVE r \in [event : Claims!Event, saw : Claims!Row] /\ ReadTrue(r)
  <2>1. CASE r \in reading
    BY <2>1 DEF GiftIInv, GiftTyped, ReadingTrue
  <2>2. CASE r \notin reading
    <3>1. PICK e \in giftEvents : Claims!ReadDonation(e)
      BY <2>2 DEF Claims!Abort
    <3>2. row[e.gift] # None /\ e.type # "created" /\ r = [event |-> e, saw |-> row[e.gift]]
      BY <2>2, <3>1 DEF Claims!ReadDonation
    <3>3. /\ e \in Claims!Event /\ e.gift \in Gifts /\ EventTrue(e) /\ row[e.gift] \in Claims!Row
          /\ RowFine(e.gift, row[e.gift]) /\ Adjusted(e.gift, row[e.gift])
      BY <3>2 DEF GiftIInv, GiftTyped, Claims!Event, EventsTrue, RowsFine
    <3>4. r.event = e /\ r.saw = row[e.gift]
      BY <3>2
    <3>5. r \in [event : Claims!Event, saw : Claims!Row]
      BY <3>2, <3>3
    <3>6. ReadTrue(r)
      BY <3>2, <3>3, <3>4 DEF ReadTrue, EventTrue, RowFine, Adjusted
    <3> QED BY <3>5, <3>6
  <2> QED BY <2>1, <2>2
<1>3. GiftTyped' /\ ReadingTrue'
  BY <1>1, <1>2 DEF GiftIInv, GiftTyped, ReadingTrue, ReadTrue, GiftPaid, InClaim
<1>4. RowsFine' /\ EventsTrue' /\ MailTrue' /\ NotGiven'
  BY <1>1 DEF GiftIInv, RowsFine, RowFine, Adjusted, GiftPaid, EventsTrue, EventTrue, MailTrue, NotGiven
<1> QED BY <1>3, <1>4 DEF GiftIInv

\* What the donor and the staff do to one donation.
LEMMA HandSteps ==
  ASSUME Amount \in Nat, None \notin Claims!Row \cup Gifts, GiftIInv, NEW g \in Gifts,
         \/ Claims!EmailLink(g) \/ Claims!StampLink(g) \/ Claims!CompleteDeclaration(g) \/ Claims!CancelDeclaration(g)
         \/ Claims!BatchDonation(g) \/ Claims!MarkGasdsClaimed(g)
  PROVE  GiftIInv'
<1>1. UNCHANGED <<kind, giftStripe, giftEvents, reading, written>>
  BY DEF Claims!EmailLink, Claims!StampLink, Claims!CompleteDeclaration, Claims!CancelDeclaration,
         Claims!BatchDonation, Claims!MarkGasdsClaimed, Claims!history
<1>2. /\ row[g] # None => row[g] \in Claims!Row /\ RowFine(g, row[g]) /\ Adjusted(g, row[g])
      /\ mail[g] # "idle" => row[g] # None /\ row[g].confirmation = "pending"
      /\ batchedAt[g] \in 0..Amount /\ batchedAt = [batchedAt EXCEPT ![g] = batchedAt[g]]
      /\ mail \in [Gifts -> MailState]
  BY DEF GiftIInv, GiftTyped, RowsFine, MailTrue
<1>3. PICK n \in 0..Amount : n = batchedAt[g]
  BY <1>2
<1>4. ASSUME UNCHANGED <<row, batchedAt>>, mail' \in [Gifts -> MailState],
             \A h \in Gifts : mail'[h] # "idle" => mail[h] # "idle"
      PROVE  GiftIInv'
  BY <1>1, <1>4 DEF GiftIInv, GiftTyped, RowsFine, RowFine, Adjusted, GiftPaid, EventsTrue, EventTrue,
                    ReadingTrue,
                    ReadTrue, MailTrue, NotGiven
<1>5. CASE Claims!EmailLink(g)
  <2>1. PICK result \in {"mailed", "bounced", "idle"} : mail' = [mail EXCEPT ![g] = result]
    BY <1>5 DEF Claims!EmailLink
  <2> QED BY <1>2, <1>4, <1>5, <2>1 DEF Claims!EmailLink, Claims!history, MailState
<1>6. CASE Claims!StampLink(g)
  <2>1. mail' = [mail EXCEPT ![g] = "idle"] /\ mail' \in [Gifts -> MailState] /\ UNCHANGED batchedAt
    BY <1>2, <1>6 DEF Claims!StampLink, Claims!history, MailState
  <2>2. CASE UNCHANGED row
    BY <1>2, <1>4, <2>1, <2>2
  <2>3. CASE row' = [row EXCEPT ![g].confirmation = IF mail[g] = "mailed" THEN "sent" ELSE "undelivered"]
    <3>1. row[g] # None /\ row[g].confirmation = "pending"
      BY <1>2, <1>6 DEF Claims!StampLink
    <3>2. PICK new \in Claims!Row : new = [row[g] EXCEPT !.confirmation = IF mail[g] = "mailed" THEN "sent" ELSE "undelivered"]
      BY <1>2, <3>1 DEF Claims!Row
    <3>3. row' = [row EXCEPT ![g] = new]
      BY <2>3, <3>2 DEF GiftIInv, GiftTyped
    <3>4. /\ new.claim = row[g].claim /\ new.batched = row[g].batched /\ new.declared = row[g].declared
          /\ new.refunded = row[g].refunded /\ new.adjusted = row[g].adjusted
          /\ new.confirmation \in {"sent", "undelivered"}
      BY <1>2, <3>1, <3>2 DEF Claims!Row
    <3>5. RowFine(g, new) /\ Adjusted(g, new)'
      BY <1>1, <1>2, <2>1, <3>1, <3>4 DEF RowFine, Waits, Adjusted
    <3>6. mail'[g] = "idle" /\ \A h \in Gifts : mail'[h] # "idle" => mail[h] # "idle"
      BY <1>2, <2>1
    <3> QED BY <1>1, <1>2, <1>3, <2>1, <3>1, <3>3, <3>4, <3>5, <3>6, RowWritten
  <2> QED BY <1>6, <2>2, <2>3 DEF Claims!StampLink
<1>7. CASE Claims!CompleteDeclaration(g)
  <2>1. row[g] # None /\ row[g].confirmation \in {"sent", "undelivered"} /\ UNCHANGED <<mail, batchedAt>>
    BY <1>7 DEF Claims!CompleteDeclaration, Claims!history
  <2>2. GiftPaid(g) /\ ~row[g].batched /\ mail[g] = "idle"
    BY <1>2, <2>1 DEF RowFine, Waits
  <2>3. PICK claim \in {"not_eligible", "eligible"} : claim = Claims!DeriveClaimStatus(TRUE, g, 0, "paid")
    BY DEF Claims!DeriveClaimStatus
  <2>4. PICK new \in Claims!Row :
          new = [row[g] EXCEPT !.declared = g, !.giftAid = TRUE, !.confirmation = "completed",
          !.claim = claim]
    BY <1>2, <2>1 DEF Claims!Row
  <2>5. row' = [row EXCEPT ![g] = new]
    BY <1>7, <2>3, <2>4 DEF Claims!CompleteDeclaration, GiftIInv, GiftTyped
  <2>6. new.declared = g /\ g # None /\ new.batched = row[g].batched /\ new.confirmation = "completed"
    BY <1>2, <2>1, <2>4 DEF Claims!Row
  <2>7. RowFine(g, new) /\ Adjusted(g, new)'
    BY <2>2, <2>6 DEF RowFine, Waits, Adjusted
  <2> QED BY <1>1, <1>2, <1>3, <2>1, <2>2, <2>5, <2>6, <2>7, RowWritten
<1>8. CASE Claims!CancelDeclaration(g)
  BY <1>2, <1>4, <1>8 DEF Claims!CancelDeclaration, Claims!history
<1>9. CASE Claims!BatchDonation(g)
  <2>1. row[g] # None /\ row[g].claim = "eligible" /\ ~row[g].batched /\ UNCHANGED mail
    BY <1>2, <1>9 DEF Claims!BatchDonation, Claims!BatchBlocked
  <2>2. PICK now \in 0..Amount : now = row[g].refunded
    BY <1>2, <2>1 DEF Claims!Row
  <2>3. PICK new \in Claims!Row : new = [row[g] EXCEPT !.batched = TRUE, !.claim = "batched"]
    BY <1>2, <2>1 DEF Claims!Row
  <2>4. row' = [row EXCEPT ![g] = new] /\ batchedAt' = [batchedAt EXCEPT ![g] = now]
    BY <1>9, <2>2, <2>3 DEF Claims!BatchDonation, GiftIInv, GiftTyped
  <2>5. /\ new.declared = row[g].declared /\ new.confirmation = row[g].confirmation
        /\ new.claim = "batched" /\ new.refunded = now /\ new.adjusted \in 0..Amount
    BY <1>2, <2>1, <2>2, <2>3 DEF Claims!Row
  <2>6. RowFine(g, new)
    BY <1>2, <2>1, <2>5 DEF RowFine, Waits
  <2>7. Adjusted(g, new)'
    <3>1. batchedAt'[g] = now
      BY <2>4 DEF GiftIInv, GiftTyped
    <3> QED BY <2>5, <3>1 DEF Adjusted, InClaim
  <2> QED BY <1>1, <1>2, <2>1, <2>4, <2>5, <2>6, <2>7, RowWritten
<1>10. CASE Claims!MarkGasdsClaimed(g)
  <2>1. row[g] # None /\ UNCHANGED <<mail, batchedAt>>
    BY <1>10 DEF Claims!MarkGasdsClaimed, Claims!history
  <2>2. PICK new \in Claims!Row : new = [row[g] EXCEPT !.gasds = TRUE]
    BY <1>2, <2>1 DEF Claims!Row
  <2>3. row' = [row EXCEPT ![g] = new]
    BY <1>10, <2>2 DEF Claims!MarkGasdsClaimed, GiftIInv, GiftTyped
  <2>4. /\ new.claim = row[g].claim /\ new.batched = row[g].batched /\ new.declared = row[g].declared
        /\ new.refunded = row[g].refunded /\ new.adjusted = row[g].adjusted
        /\ new.confirmation = row[g].confirmation
    BY <1>2, <2>1, <2>2 DEF Claims!Row
  <2>5. RowFine(g, new) /\ Adjusted(g, new)'
    BY <1>1, <1>2, <2>1, <2>4 DEF RowFine, Waits, Adjusted
  <2> QED BY <1>1, <1>2, <1>3, <2>1, <2>3, <2>4, <2>5, RowWritten
<1> QED BY <1>5, <1>6, <1>7, <1>8, <1>9, <1>10
-------------------------------------------------------------------------------
LEMMA GiftNext ==
  ASSUME Amount \in Nat, None \notin Claims!Row \cup Gifts, GiftIInv, [Claims!Next]_(Claims!vars)
  PROVE  GiftIInv'
<1>1. CASE UNCHANGED Claims!vars
  BY <1>1 DEF Claims!vars, GiftIInv, GiftTyped, RowsFine, RowFine, Adjusted, GiftPaid, EventsTrue,
              EventTrue, ReadingTrue,
              ReadTrue, MailTrue, NotGiven
<1>2. ASSUME NEW g \in Gifts,
             \/ Claims!Give(g) \/ (\E ok \in BOOLEAN : Claims!Settle(g, ok))
             \/ \E a \in 1..Amount, disputed \in BOOLEAN : Claims!Refund(g, a, disputed)
      PROVE  GiftIInv'
  BY <1>2, GiftStripeSteps
<1>3. ASSUME NEW g \in Gifts,
             \/ Claims!EmailLink(g) \/ Claims!StampLink(g) \/ Claims!CompleteDeclaration(g) \/ Claims!CancelDeclaration(g)
             \/ Claims!BatchDonation(g) \/ Claims!MarkGasdsClaimed(g)
      PROVE  GiftIInv'
  BY <1>3, HandSteps
<1>4. ASSUME NEW e \in giftEvents, Claims!TakeCreated(e) PROVE GiftIInv'
  BY <1>4, CreatedStep
<1>5. ASSUME (\E e \in giftEvents : Claims!ReadDonation(e)) \/ (\E r \in reading : Claims!Abort(r)) PROVE GiftIInv'
  BY <1>5, ReadSteps
<1>6. ASSUME NEW r \in reading, Claims!HandleRefund(r) \/ Claims!HandleAsyncPayment(r) PROVE GiftIInv'
  BY <1>6, DecidedSteps
<1> QED BY <1>1, <1>2, <1>3, <1>4, <1>5, <1>6 DEF Claims!Next
-------------------------------------------------------------------------------
(* The parts together                                                          *)

\* What a gift is, besides what its promises rest on.
GiftRest == kind \in Mixes /\ revoked \subseteq Gifts /\ written \subseteq Gifts /\ given \subseteq Gifts

LEMMA GiftTypes ==
  ASSUME GiftIInv', Claims!TypeOK, [Claims!Next]_(Claims!vars)
  PROVE  Claims!TypeOK'
<1>1. /\ giftStripe' \in [Gifts -> GiftStripe] /\ giftEvents' \subseteq Claims!Event
      /\ reading' \subseteq [event : Claims!Event, saw : Claims!Row]
      /\ row' \in [Gifts -> Claims!Row \cup {None}]
      /\ mail' \in [Gifts -> MailState] /\ batchedAt' \in [Gifts -> 0..Amount]
  BY DEF GiftIInv, GiftTyped
<1>2. /\ GiftRest
      /\ giftEvents \subseteq Claims!Event /\ reading \subseteq [event : Claims!Event, saw : Claims!Row]
  BY DEF Claims!TypeOK, GiftRest
<1>3. GiftRest'
  <2> USE DEF GiftRest
  <2>1. CASE UNCHANGED Claims!vars
    BY <1>2, <2>1 DEF Claims!vars
  <2>2. ASSUME NEW g \in Gifts,
               \/ Claims!Give(g) \/ (\E ok \in BOOLEAN : Claims!Settle(g, ok))
               \/ \E a \in 1..Amount, disputed \in BOOLEAN : Claims!Refund(g, a, disputed)
        PROVE  GiftRest'
    BY <1>2, <2>2 DEF Claims!Give, Claims!Settle, Claims!Refund, Claims!history
  <2>3. ASSUME NEW g \in Gifts,
               \/ Claims!EmailLink(g) \/ Claims!StampLink(g) \/ Claims!CompleteDeclaration(g)
               \/ Claims!CancelDeclaration(g) \/ Claims!BatchDonation(g) \/ Claims!MarkGasdsClaimed(g)
        PROVE  GiftRest'
    BY <1>2, <2>3 DEF Claims!EmailLink, Claims!StampLink, Claims!CompleteDeclaration,
                      Claims!CancelDeclaration, Claims!BatchDonation, Claims!MarkGasdsClaimed, Claims!history
  <2>4. ASSUME NEW e \in giftEvents, Claims!TakeCreated(e) \/ Claims!ReadDonation(e) PROVE GiftRest'
    <3>1. e.gift \in Gifts
      BY <1>2 DEF Claims!Event
    <3> QED BY <1>2, <2>4, <3>1 DEF Claims!TakeCreated, Claims!ReadDonation, Claims!InsertTap,
                                    Claims!InsertRenewal, Claims!InsertDonation, Claims!history
  <2>5. ASSUME NEW r \in reading, Claims!HandleRefund(r) \/ Claims!HandleAsyncPayment(r) \/ Claims!Abort(r)
        PROVE  GiftRest'
    <3>1. r.event.gift \in Gifts
      BY <1>2 DEF Claims!Event
    <3> QED BY <1>2, <2>5, <3>1 DEF Claims!HandleRefund, Claims!HandleAsyncPayment, Claims!Abort,
                                    Claims!Taken, Claims!WritesOver, Claims!history
  <2> QED BY <2>1, <2>2, <2>3, <2>4, <2>5 DEF Claims!Next
<1> QED BY <1>1, <1>3 DEF GiftRest, Claims!TypeOK, GiftStripe, MailState

PaymentsIInv == TypeOK /\ MonthlyIInv /\ GiftIInv /\ Claims!TypeOK

LEMMA PaymentsInitIInv == PaymentsInit => PaymentsIInv
<1> SUFFICES ASSUME PaymentsInit PROVE PaymentsIInv
  OBVIOUS
<1>1. Monthly!Init /\ Claims!Init
  BY DEF PaymentsInit
<1>2. MonthlyIInv /\ GiftIInv
  BY <1>1, MonthlyInit, GiftInit, PaymentsAssumption
<1>3. Claims!TypeOK
  BY <1>1, <1>2 DEF Claims!Init, Claims!TypeOK, GiftIInv, GiftTyped, GiftStripe, MailState
<1>4. TypeOK
  BY InitTypes DEF PaymentsInit
<1> QED BY <1>2, <1>3, <1>4 DEF PaymentsIInv

\* A step of one part is a step of its own, and the others stay.
LEMMA OnePart ==
  ASSUME [PaymentsNext]_all
  PROVE  [Next]_vars /\ [Monthly!Next]_(Monthly!vars) /\ [Claims!Next]_(Claims!vars)
BY DEF PaymentsNext, BallStep, MonthlyStep, ClaimsStep, all, monthly, claims, Monthly!vars, Claims!vars

LEMMA PaymentsNextIInv == PaymentsIInv /\ [PaymentsNext]_all => PaymentsIInv'
<1> SUFFICES ASSUME PaymentsIInv, [PaymentsNext]_all PROVE PaymentsIInv'
  OBVIOUS
<1>1. [Monthly!Next]_(Monthly!vars) /\ [Claims!Next]_(Claims!vars)
  BY OnePart
<1>2. MonthlyIInv'
  BY <1>1, MonthlyNext, PaymentsAssumption DEF PaymentsIInv
<1>3. GiftIInv'
  BY <1>1, GiftNext, PaymentsAssumption DEF PaymentsIInv
<1>4. Claims!TypeOK'
  BY <1>1, <1>3, GiftTypes DEF PaymentsIInv
<1>5. TypeOK'
  BY OnePart, TypesKept DEF PaymentsIInv
<1> QED BY <1>2, <1>3, <1>4, <1>5 DEF PaymentsIInv

LEMMA PaymentsAlways == PaymentsSpec => []PaymentsIInv
BY PaymentsInitIInv, PaymentsNextIInv, PTL DEF PaymentsSpec

\* The types of each part: the ball's room, a monthly gift, and gifts on their way to a claim.
THEOREM PaymentsTypeCorrect == PaymentsSpec => []PaymentsTypeOK
<1>1. PaymentsIInv => PaymentsTypeOK
  BY DEF PaymentsIInv, MonthlyIInv, PaymentsTypeOK
<1> QED BY PaymentsAlways, <1>1, PTL

\* Beside the other two parts the ball goes on as it does by itself, so what is proved of it holds here.
THEOREM BallByItself == PaymentsSpec => Spec
<1>1. PaymentsInit => Init
  BY DEF PaymentsInit
<1>2. [PaymentsNext]_all => [Next]_vars
  BY OnePart
<1> QED BY <1>1, <1>2, PTL DEF PaymentsSpec, Spec

\* A renewal is recorded at most once, though Stripe tells of it with two events, each delivered more
\* than once and both at the same time (handleRecurring's lock on the invoice).
THEOREM RenewalsOnce == PaymentsSpec => []RenewalOnce
<1>1. PaymentsIInv => RenewalOnce
  BY DEF PaymentsIInv, MonthlyIInv, RenewalOnce
<1> QED BY PaymentsAlways, <1>1, PTL

\* The end of a monthly gift, once recorded, stays recorded, though handleDunning writes over a row it
\* read with no lock.
THEOREM EndsKept == PaymentsSpec => EndKept
<1> DEFINE Stays == dunning # None => /\ dunning' # None
                                      /\ dunning.lapsed => dunning'.lapsed
                                      /\ dunning.cancelled => dunning'.cancelled
<1>1. PaymentsIInv /\ [PaymentsNext]_all => [Stays]_(Monthly!vars)
  <2> SUFFICES ASSUME PaymentsIInv, Monthly!Next PROVE Stays
    BY OnePart
  <2>1. ASSUME NEW d \in Deliveries, NEW heard \in BOOLEAN, Monthly!Commit(d, heard) PROVE Stays
    <3>1. /\ dunning \in Monthly!Row \cup {None}
          /\ job[d].write \in Monthly!Statuses \cup {"nothing", "cancelled"}
      BY DEF PaymentsIInv, MonthlyIInv, Monthly!TypeOK
    <3>2. dunning' = dunning \/ (job[d].write # "nothing" /\ dunning' = Monthly!Written(dunning, job[d].write))
      BY <2>1 DEF Monthly!Commit, Monthly!Database
    <3> QED BY <3>1, <3>2, WrittenRow, PaymentsAssumption
  <2>2. CASE UNCHANGED dunning
    BY <2>2
  <2>3. (\E d \in Deliveries : Monthly!Commit(d, TRUE) \/ Monthly!Commit(d, FALSE)) \/ UNCHANGED dunning
    BY DEF Monthly!Next, Monthly!Deliver, Monthly!PayCheckout, Monthly!Charge, Monthly!Fail, Monthly!End,
           Monthly!LookForInvoice, Monthly!ReadDunning, Monthly!Die, Monthly!Claim, Monthly!Database
  <2> QED BY <2>1, <2>2, <2>3
<1> QED BY PaymentsAlways, <1>1, PTL DEF PaymentsSpec, EndKept, Monthly!EndKept

\* Gift Aid is claimed only on money that arrived: the transaction that settles a BACS payment and
\* the one that refunds it decide on what they read (handleAsyncPayment, handleRefund), and batchDonation
\* looks at nothing but the status they leave.
THEOREM SettledOnly == PaymentsSpec => []OnlySettledClaimed
<1>1. PaymentsIInv => OnlySettledClaimed
  BY DEF PaymentsIInv, GiftIInv, RowsFine, RowFine, GiftPaid, OnlySettledClaimed, Claims!OnlySettledClaimed
<1> QED BY PaymentsAlways, <1>1, PTL

\* What went back after a gift was batched is on record as owed to HMRC (recalculateClaimOnRefund), unless
\* a transaction wrote over a batch it had not seen.
THEOREM AdjustmentsRecorded == PaymentsSpec => []AdjustmentRecorded
<1>1. PaymentsIInv => AdjustmentRecorded
  BY DEF PaymentsIInv, GiftIInv, RowsFine, Adjusted, AdjustmentRecorded, Claims!AdjustmentRecorded
<1> QED BY PaymentsAlways, <1>1, PTL
===============================================================================
