------------------------------- MODULE GiftAid -------------------------------
(***************************************************************************)
(* A donation on its way to a Gift Aid claim: what Stripe's webhook does   *)
(* to it (src/src/db/stripe-webhook.ts, stripe-webhook-model.ts), the rule *)
(* of eligibility (donations-model.ts, claims/refund.ts), the donor's      *)
(* declaration (donations.ts, declarations.ts) and the staff who put it in *)
(* a batch or claim it as a small donation (db/admin.ts).                  *)
(*                                                                         *)
(* Stripe delivers events in any order, and again until they are taken.    *)
(* Refunds and settlements read the donation and then write it, with no    *)
(* lock in between.  Companies' gifts never enter the pipeline and are     *)
(* left out, and so are the times a batch is sent to HMRC: submitting it   *)
(* changes no donation.                                                    *)
(***************************************************************************)
EXTENDS Integers

CONSTANTS
  Gifts,    \* the donations, each named by its payment at Stripe
  Mixes,    \* what they may be: functions from Gifts to "card", "bacs", "tap", "renewal", "absent"
  Amount,   \* what each is worth, in the units refunds are made in
  None      \* no donation, and no declaration

Kinds == {"card", "bacs", "tap", "renewal", "absent"}

VARIABLES
  kind,        \* which gift is what
  stripe,      \* of each gift, what Stripe knows: paid, and how much went back
  events,      \* events not taken yet
  reading,     \* the webhook transactions that have read a donation and not written it
  row,         \* the donations, None if there is none
  revoked,     \* the gifts whose declaration the donor has cancelled
  mail,        \* the email with the link to declare, for a tap
  batchedAt, written, given   \* history, below

vars == <<kind, stripe, events, reading, row, revoked, mail, batchedAt, written, given>>
history == <<batchedAt, written, given>>

Event == [gift : Gifts, type : {"created", "settled", "failed", "refund"}, total : 0..Amount]
Row == [pay : {"pending", "paid", "failed"}, refunded : 0..Amount, giftAid : BOOLEAN,
        declared : Gifts \cup {None}, claim : {"not_eligible", "eligible", "batched", "adjustment_due"},
        batched : BOOLEAN, adjusted : 0..Amount, gasds : BOOLEAN,
        confirmation : {"not_required", "pending", "sent", "undelivered", "completed"}]

TypeOK ==
  /\ kind \in Mixes
  /\ stripe \in [Gifts -> [paid : {"none", "pending", "paid", "failed"}, back : 0..Amount]]
  /\ events \subseteq Event
  /\ reading \subseteq [event : Event, saw : Row]
  /\ row \in [Gifts -> Row \cup {None}]
  /\ revoked \subseteq Gifts /\ written \subseteq Gifts /\ given \subseteq Gifts
  /\ mail \in [Gifts -> {"idle", "due", "mailed", "bounced"}]
  /\ batchedAt \in [Gifts -> 0..Amount]

Init ==
  /\ kind \in Mixes
  /\ stripe = [g \in Gifts |-> [paid |-> "none", back |-> 0]]
  /\ events = {} /\ reading = {} /\ revoked = {}
  /\ row = [g \in Gifts |-> None]
  /\ mail = [g \in Gifts |-> "idle"]
  /\ batchedAt = [g \in Gifts |-> 0] /\ written = {} /\ given = {}

\* mutant: the payment's state is not looked at
DeriveUngated(giftAid, declared, refunded, pay) ==
  IF giftAid /\ declared # None /\ refunded < Amount THEN "eligible" ELSE "not_eligible"

\* deriveClaimStatus, of an individual's gift.
DeriveClaimStatus(giftAid, declared, refunded, pay) ==
  IF giftAid /\ declared # None /\ refunded < Amount /\ pay = "paid" THEN "eligible" ELSE "not_eligible"
----------------------------------------------------------------------------
(* Stripe                                                                   *)

Told(e) == events' = events \cup {e}
EventOf(g, type, total) == [gift |-> g, type |-> type, total |-> total]

\* The gift a renewal renews.
Parents == {g \in Gifts : kind[g] = "card" /\ stripe[g].paid = "paid"}
DeclarationOf(g) ==
  CASE kind[g] \in {"card", "bacs"} -> {g} [] kind[g] = "renewal" -> Parents [] OTHER -> {}

\* A checkout, a tap, or a subscription's next charge.  History: it was given after the
\* declaration it would be claimed under was cancelled.
Give(g) ==
  /\ stripe[g].paid = "none" /\ kind[g] # "absent"
  /\ kind[g] = "renewal" => Parents # {}
  /\ stripe' = [stripe EXCEPT ![g].paid = IF kind[g] = "bacs" THEN "pending" ELSE "paid"]
  /\ Told(EventOf(g, "created", 0))
  /\ given' = given \cup (IF DeclarationOf(g) \cap revoked # {} THEN {g} ELSE {})
  /\ UNCHANGED <<kind, reading, row, revoked, mail, batchedAt, written>>

\* A BACS payment is confirmed or fails, days later.
Settle(g, ok) ==
  /\ stripe[g].paid = "pending"
  /\ stripe' = [stripe EXCEPT ![g].paid = IF ok THEN "paid" ELSE "failed"]
  /\ Told(EventOf(g, IF ok THEN "settled" ELSE "failed", 0))
  /\ UNCHANGED <<kind, reading, row, revoked, mail, history>>

\* A refund, told of as the total that has gone back; a dispute, told of as its own amount.
Refund(g, a, disputed) ==
  /\ stripe[g].paid = "paid" /\ stripe[g].back + a <= Amount
  /\ stripe' = [stripe EXCEPT ![g].back = @ + a]
  /\ Told(EventOf(g, "refund", IF disputed THEN a ELSE stripe[g].back + a))
  /\ UNCHANGED <<kind, reading, row, revoked, mail, history>>
----------------------------------------------------------------------------
(* The webhook                                                              *)

NewRow(pay, giftAid, declared, confirmation) ==
  [pay |-> pay, refunded |-> 0, giftAid |-> giftAid, declared |-> declared,
   claim |-> DeriveClaimStatus(giftAid, declared, 0, pay), batched |-> FALSE, adjusted |-> 0,
   gasds |-> FALSE, confirmation |-> confirmation]

\* handleCheckoutCompleted: the declaration is captured with the gift; a BACS payment is still
\* unpaid in the session.
InsertDonation(g) ==
  /\ kind[g] \in {"card", "bacs"}
  /\ row' = [row EXCEPT ![g] =
       NewRow(IF kind[g] = "bacs" THEN "pending" ELSE "paid", TRUE, g, "not_required")]
  /\ UNCHANGED mail

\* handleChargeSucceeded: a tap, with a link to declare.  An email goes out after the commit.
InsertTap(g) ==
  /\ kind[g] = "tap"
  /\ row' = [row EXCEPT ![g] = NewRow("paid", FALSE, None, "pending")]
  /\ mail' = [mail EXCEPT ![g] = "due"]

\* handleRecurring: Gift Aid and the declaration come from the subscription's first donation,
\* and without one the charge is ignored.
Inherited(p) == row[p].declared
InsertRenewal(g) ==
  /\ kind[g] = "renewal"
  /\ row' = [row EXCEPT ![g] =
       IF \E p \in Parents : row[p] # None
       THEN LET p == CHOOSE q \in Parents : row[q] # None
            IN NewRow("paid", row[p].giftAid, Inherited(p), "not_required")
       ELSE @]
  /\ UNCHANGED mail

TakeCreated(e) ==
  /\ e \in events /\ e.type = "created"
  /\ events' = events \ {e}
  /\ InsertDonation(e.gift) \/ InsertTap(e.gift) \/ InsertRenewal(e.gift)
  /\ UNCHANGED <<kind, stripe, reading, revoked, history>>

\* handleRefund and handleAsyncPayment: the donation is read.  Without one the event is taken all
\* the same, and Stripe will not send it again.
ReadDonation(e) ==
  /\ e \in events /\ e.type # "created" /\ \A r \in reading : r.event # e
  /\ IF row[e.gift] = None
     THEN events' = events \ {e} /\ UNCHANGED reading
     ELSE reading' = reading \cup {[event |-> e, saw |-> row[e.gift]]} /\ UNCHANGED events
  /\ UNCHANGED <<kind, stripe, row, revoked, mail, history>>

\* recalculateClaimOnRefund, of what was read.
RecalculatedClaimedOnly(saw, total) == DeriveClaimStatus(saw.giftAid, saw.declared, total, "paid")   \* mutant: a batched gift is treated as any other
Recalculated(saw, total) ==
  IF saw.claim = "batched" THEN "adjustment_due"
  ELSE DeriveClaimStatus(saw.giftAid, saw.declared, total, "paid")

\* The rest of the transaction: the write, and the adjustment a batched gift owes.  History: a
\* transaction wrote over a batch it had not seen, or does not look at.
Taken(r) == events' = events \ {r.event} /\ reading' = reading \ {r}
WritesOver(g, sawBatch) == written' = written \cup (IF row[g].batched /\ ~sawBatch THEN {g} ELSE {})

HandleRefund(r) ==
  LET g == r.event.gift   total == r.event.total   claim == Recalculated(r.saw, total)
  IN /\ r \in reading /\ r.event.type = "refund"
     /\ r.saw.claim # "adjustment_due"    \* refundInputSchema takes no such status: it throws
     /\ Taken(r)
     /\ row' = [row EXCEPT ![g].refunded = total, ![g].claim = claim,
                           ![g].adjusted = IF claim = "adjustment_due" THEN total ELSE @]
     /\ WritesOver(g, r.saw.batched)
     /\ UNCHANGED <<kind, stripe, revoked, mail, batchedAt, given>>

HandleAsyncPayment(r) ==
  LET g == r.event.gift   pay == IF r.event.type = "settled" THEN "paid" ELSE "failed"
      claim == DeriveClaimStatus(r.saw.giftAid, r.saw.declared, r.saw.refunded, pay)
  IN /\ r \in reading /\ r.event.type \in {"settled", "failed"}
     /\ Taken(r)
     /\ row' = [row EXCEPT ![g].pay = pay, ![g].claim = claim]
     /\ WritesOver(g, FALSE)
     /\ UNCHANGED <<kind, stripe, revoked, mail, batchedAt, given>>

\* It throws or dies: rolled back, the event is sent again, and given up in the end if it throws.
Abort(r) ==
  /\ r \in reading
  /\ reading' = reading \ {r}
  /\ \/ UNCHANGED events
     \/ r.saw.claim = "adjustment_due" /\ r.event.type = "refund" /\ events' = events \ {r.event}
  /\ UNCHANGED <<kind, stripe, row, revoked, mail, history>>
----------------------------------------------------------------------------
(* The donor and the staff                                                  *)

\* sendDeclarationConfirmation: the email, then the stamp, or the server dies in between.
EmailLink(g) ==
  /\ mail[g] = "due"
  /\ \E result \in {"mailed", "bounced", "idle"} : mail' = [mail EXCEPT ![g] = result]
  /\ UNCHANGED <<kind, stripe, events, reading, row, revoked, history>>

StampLink(g) ==
  /\ mail[g] \in {"mailed", "bounced"}
  /\ mail' = [mail EXCEPT ![g] = "idle"]
  /\ \/ row' = [row EXCEPT ![g].confirmation = IF mail[g] = "mailed" THEN "sent" ELSE "undelivered"]
     \/ UNCHANGED row
  /\ UNCHANGED <<kind, stripe, events, reading, revoked, history>>

\* completeDeclaration, with the donation FOR UPDATE: the payment and the refunds are not looked at.
CompleteDeclaration(g) ==
  /\ row[g] # None /\ row[g].confirmation \in {"sent", "undelivered"}
  /\ row' = [row EXCEPT ![g].declared = g, ![g].giftAid = TRUE, ![g].confirmation = "completed",
                        ![g].claim = DeriveClaimStatus(TRUE, g, 0, "paid")]
  /\ UNCHANGED <<kind, stripe, events, reading, revoked, mail, history>>

\* cancelDeclaration never touches donations.
CancelDeclaration(g) ==
  /\ row[g] # None /\ row[g].declared = g /\ g \notin revoked
  /\ revoked' = revoked \cup {g}
  /\ UNCHANGED <<kind, stripe, events, reading, row, mail, history>>

\* batchDonation, with the donation FOR UPDATE.
BatchBlocked(g) == row[g].batched \/ row[g].claim # "eligible"
BatchDonation(g) ==
  /\ row[g] # None /\ ~BatchBlocked(g)
  /\ row' = [row EXCEPT ![g].batched = TRUE, ![g].claim = "batched"]
  /\ batchedAt' = [batchedAt EXCEPT ![g] = row[g].refunded]
  /\ UNCHANGED <<kind, stripe, events, reading, revoked, mail, written, given>>

\* markGasdsClaimed, of a tap small enough.
MarkGasdsClaimed(g) ==
  /\ row[g] # None /\ kind[g] = "tap" /\ ~row[g].gasds
  /\ row' = [row EXCEPT ![g].gasds = TRUE]
  /\ UNCHANGED <<kind, stripe, events, reading, revoked, mail, history>>
----------------------------------------------------------------------------
Next ==
  \/ \E g \in Gifts :
       \/ Give(g) \/ (\E ok \in BOOLEAN : Settle(g, ok))
       \/ \E a \in 1..Amount, disputed \in BOOLEAN : Refund(g, a, disputed)
       \/ EmailLink(g) \/ StampLink(g) \/ CompleteDeclaration(g) \/ CancelDeclaration(g)
       \/ BatchDonation(g) \/ MarkGasdsClaimed(g)
  \/ \E e \in events : TakeCreated(e) \/ ReadDonation(e)
  \/ \E r \in reading : HandleRefund(r) \/ HandleAsyncPayment(r) \/ Abort(r)

Spec == Init /\ [][Next]_vars
----------------------------------------------------------------------------
(* What the pipeline promises                                               *)

\* Gift Aid is claimed only on money that arrived: whatever order the events of a BACS payment
\* and its refunds come in, a gift in a batch was paid at Stripe.
OnlySettledClaimed == \A g \in Gifts : row[g] # None /\ row[g].batched => stripe[g].paid = "paid"

\* What went back after a gift was batched is owed to HMRC as an adjustment as soon as it is
\* recorded, unless a transaction wrote over the batch without having seen it (the head of
\* handleRefund).
AdjustmentRecorded ==
  \A g \in Gifts : row[g] # None /\ row[g].batched /\ g \notin written
                     => row[g].refunded - batchedAt[g] <= row[g].adjusted

\* "future donations for this donor no longer carry an active declaration and no further claims
\* are made" (declarations.ts, cancelDeclaration): a gift made after its declaration was cancelled
\* does not become claimable.
CancelledNotClaimed == \A g \in given : row[g] # None => row[g].claim = "not_eligible"

\* A tap is claimed "under the Small Donations Scheme instead of Gift Aid" (stripe-webhook-model.ts,
\* cardPresentDonationInput), never under both.
ClaimedUnderOne == \A g \in Gifts : row[g] # None => ~(row[g].gasds /\ row[g].batched)
=============================================================================
