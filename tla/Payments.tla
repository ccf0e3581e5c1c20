------------------------------- MODULE Payments -------------------------------
(* Three parts that take money through Stripe: the Festive Ball's room, a     *)
(* monthly gift, and gifts on their way to a Gift Aid claim.  They share no   *)
(* state, so the first state chooses the part that runs; the other two stay   *)
(* as they begin.                                                             *)
EXTENDS BallBookings

CONSTANTS
  Invoices, Deliveries, MaxFails, MaxFaults,  \* of Subscriptions
  Gifts, Mixes, Amount,                       \* of GiftAid
  None

VARIABLES
  part,
  sub, charge, monthlyEvents, claimed, parent, gifts, dunning, job, faults,
  kind, giftStripe, giftEvents, reading, row, revoked, mail, batchedAt, written, given

monthly == <<sub, charge, monthlyEvents, claimed, parent, gifts, dunning, job, faults>>
claims == <<kind, giftStripe, giftEvents, reading, row, revoked, mail, batchedAt, written, given>>
all == <<part, vars, monthly, claims>>

Monthly == INSTANCE Subscriptions WITH events <- monthlyEvents, row <- dunning
Claims == INSTANCE GiftAid WITH stripe <- giftStripe, events <- giftEvents

ASSUME PaymentsAssumption ==
  /\ MaxFails \in Nat /\ MaxFaults \in Nat /\ Amount \in Nat
  /\ None \notin Gifts \cup Monthly!Row \cup Claims!Row

PaymentsInit ==
  /\ part \in {"ball", "monthly", "claims"}
  /\ Init /\ (part # "ball" => \A n \in Tables : settings.tables <= n)
  /\ Monthly!Init
  /\ Claims!Init /\ (part # "claims" => kind = CHOOSE k \in Mixes : TRUE)

BallStep    == part = "ball" /\ Next /\ UNCHANGED <<part, monthly, claims>>
MonthlyStep == part = "monthly" /\ Monthly!Next /\ UNCHANGED <<part, vars, claims>>
ClaimsStep  == part = "claims" /\ Claims!Next /\ UNCHANGED <<part, vars, monthly>>

PaymentsNext == BallStep \/ MonthlyStep \/ ClaimsStep

PaymentsSpec == PaymentsInit /\ [][PaymentsNext]_all /\ Fairness /\ Monthly!Fairness
-----------------------------------------------------------------------------
\* The types of each part.
PaymentsTypeOK == TypeOK /\ Monthly!TypeOK /\ Claims!TypeOK

\* A renewal is recorded at most once (handleRecurring).
RenewalOnce == Monthly!RenewalOnce

\* The end of a monthly gift, once recorded, is not taken back (handleDunning).
EndKept == Monthly!EndKept

\* A subscription that ended at Stripe is at last recorded as ended (handleDunning).
EndRecorded == Monthly!EndRecorded

\* Gift Aid is claimed only on money that arrived (deriveClaimStatus).
OnlySettledClaimed == Claims!OnlySettledClaimed

\* What went back after a gift was batched is owed as an adjustment (handleRefund).
AdjustmentRecorded == Claims!AdjustmentRecorded
=============================================================================
