------------------------------- MODULE Invoices -------------------------------
(***************************************************************************)
(* One invoice for a donation (src/src/db/invoices.ts, src/src/invoices/,  *)
(* src/src/routes/invoices.ts): its payer opens it more than once, adds or *)
(* drops Gift Aid and pays by card or by transfer; staff mark it paid or   *)
(* cancel it; Stripe says what was paid, more than once.                   *)
(*                                                                         *)
(* settleInvoice and saveGiftAid lock the row before they read it, so each *)
(* is one step; what a route looked at before that may be old by then.     *)
(***************************************************************************)
EXTENDS Integers, Sequences

CONSTANTS
  Visitors,    \* visits of the invoice's page at work
  Staff,       \* presses of Mark paid at work
  MaxMinute,   \* bound: minutes the run lasts; a checkout is opened at most once a minute
  MaxEvents    \* bound: event ids Stripe tells of one payment under

VARIABLES
  invoice,  \* its row
  gifts,    \* its donations, in order
  minute,
  session,  \* the checkout of each minute's idempotency key
  due,      \* events to deliver
  told,     \* stripe_webhook_events: those committed
  visit,    \* visits: where each is, what it posted
  press,    \* presses of Mark paid
  alerts    \* sendInvoicesPaidTwiceAlert, after a commit: how many are at each step

vars == <<invoice, gifts, minute, session, due, told, visit, press, alerts>>

Minutes == 1..MaxMinute
Transfer == 0
Payments == {Transfer} \cup Minutes
Kinds == {"paid", "paid-twice", "paid-after-cancel"}

TypeOK ==
  /\ invoice \in [payer : {"person", "company"}, status : {"waiting", "paid", "cancelled"},
                  giftAid : BOOLEAN, twice : BOOLEAN, alerted : BOOLEAN]
  /\ gifts \in Seq([by : Payments, giftAid : BOOLEAN, kind : Kinds])
  /\ minute \in Minutes
  /\ session \in [Minutes -> {"none", "open", "paid", "over"}]
  /\ due \subseteq Minutes \X (1..MaxEvents) /\ told \subseteq Minutes \X (1..MaxEvents)
  /\ visit \in [Visitors -> [pc : {"idle", "save", "checkout"}, ticked : BOOLEAN, pay : BOOLEAN]]
  /\ press \in [Staff -> {"idle", "settle"}]
  /\ alerts \in [{"read", "send", "stamp", "lost"} -> Nat]

NoVisit == [pc |-> "idle", ticked |-> FALSE, pay |-> FALSE]

\* createInvoice.
Init ==
  /\ invoice \in [payer : {"person", "company"}, status : {"waiting"},
                  giftAid : {FALSE}, twice : {FALSE}, alerted : {FALSE}]
  /\ gifts = <<>>
  /\ minute = 1 /\ session = [m \in Minutes |-> "none"]
  /\ due = {} /\ told = {}
  /\ visit = [v \in Visitors |-> NoVisit]
  /\ press = [s \in Staff |-> "idle"]
  /\ alerts = [p \in {"read", "send", "stamp", "lost"} |-> 0]
----------------------------------------------------------------------------
(* A payment                                                                *)

SettleKind(status) ==
  IF status = "paid" THEN "paid-twice" ELSE IF status = "cancelled" THEN "paid-after-cancel" ELSE "paid"

\* donationWrite: the saved declaration goes with a person's gift, never with a second payment.
DeclaredAlways(kind) == invoice.payer = "person" /\ invoice.giftAid   \* mutant: a second payment keeps the declaration
Declared(kind) == invoice.payer = "person" /\ invoice.giftAid /\ kind # "paid-twice"

\* A session this invoice's donations already have, under another event id.
AlreadyRecorded(by) == by # Transfer /\ \E i \in DOMAIN gifts : gifts[i].by = by

\* Mark paid on an invoice paid since the route looked.
RefusedNever(by) == FALSE   \* mutant: a transfer is not looked at again under the lock
Refused(by) == by = Transfer /\ invoice.status = "paid"

Settle(by) ==
  IF Refused(by) \/ AlreadyRecorded(by) THEN UNCHANGED <<invoice, gifts>>
  ELSE LET kind == SettleKind(invoice.status) IN
       /\ gifts' = Append(gifts, [by |-> by, giftAid |-> Declared(kind), kind |-> kind])
       /\ invoice' = IF kind = "paid-twice" THEN [invoice EXCEPT !.twice = TRUE, !.alerted = FALSE]
                     ELSE [invoice EXCEPT !.status = "paid"]

\* mutant: a third payment is not told of
TellsStaffOnce(by) ==
  ~AlreadyRecorded(by) /\ SettleKind(invoice.status) = "paid-twice" /\ ~invoice.twice

\* handleInvoiceEvent, in processWebhookEvent: the event is claimed, the payment settled, all
\* committed; after a second payment the giving inbox is told.
TellsStaff(by) == ~AlreadyRecorded(by) /\ SettleKind(invoice.status) = "paid-twice"
Deliver(e) ==
  /\ e \in due
  /\ due' = due \ {e} /\ told' = told \cup {e}
  /\ IF e \in told THEN UNCHANGED <<invoice, gifts, alerts>>
     ELSE /\ Settle(e[1])
          /\ alerts' = IF TellsStaff(e[1]) THEN [alerts EXCEPT !["read"] = @ + 1] ELSE alerts
  /\ UNCHANGED <<minute, session, visit, press>>

\* sendInvoicesPaidTwiceAlert reads what is not yet told, sends, and stamps; a crash or a failed
\* send ends it.
Alert(from, to) ==
  /\ alerts[from] > 0
  /\ alerts' = IF to = "" THEN [alerts EXCEPT ![from] = @ - 1]
               ELSE [alerts EXCEPT ![from] = @ - 1, ![to] = IF to = "lost" THEN 1 ELSE @ + 1]
  /\ UNCHANGED <<gifts, minute, session, due, told, visit, press>>
Unalerted == invoice.twice /\ ~invoice.alerted
AlertStaff ==
  \/ Alert("read", IF Unalerted THEN "send" ELSE "") /\ UNCHANGED invoice
  \/ \E to \in {"stamp", "lost"} : Alert("send", to) /\ UNCHANGED invoice
  \/ Alert("stamp", "") /\ invoice' = [invoice EXCEPT !.alerted = TRUE]

\* postMarkInvoicePaid looks, and markInvoicePaidByTransfer settles.
LookUnpaid(s) ==
  /\ press[s] = "idle" /\ invoice.status # "paid"
  /\ press' = [press EXCEPT ![s] = "settle"]
  /\ UNCHANGED <<invoice, gifts, minute, session, due, told, visit, alerts>>
MarkPaid(s) ==
  /\ press[s] = "settle"
  /\ press' = [press EXCEPT ![s] = "idle"]
  /\ Settle(Transfer)
  /\ UNCHANGED <<minute, session, due, told, visit, alerts>>

CancelInvoice ==
  /\ invoice.status = "waiting" /\ invoice' = [invoice EXCEPT !.status = "cancelled"]
  /\ UNCHANGED <<gifts, minute, session, due, told, visit, press, alerts>>
----------------------------------------------------------------------------
(* The payer                                                                *)

KeepMoney == UNCHANGED <<gifts, due, told, press, alerts>>

\* postInvoicePay, and postInvoiceGiftAid of a person: isPayable, of the row as read.
Open(v, ticked, pay) ==
  /\ visit[v].pc = "idle" /\ invoice.status = "waiting"
  /\ pay \/ invoice.payer = "person"
  /\ visit' = [visit EXCEPT ![v] = [pc |-> IF invoice.payer = "person" THEN "save" ELSE "checkout",
                                    ticked |-> ticked, pay |-> pay]]
  /\ KeepMoney /\ UNCHANGED <<invoice, minute, session>>

SaveGiftAid(v) ==
  /\ visit[v].pc = "save"
  /\ invoice' = IF invoice.status = "waiting" THEN [invoice EXCEPT !.giftAid = visit[v].ticked] ELSE invoice
  /\ visit' = IF visit[v].pay THEN [visit EXCEPT ![v].pc = "checkout"] ELSE [visit EXCEPT ![v] = NoVisit]
  /\ KeepMoney /\ UNCHANGED <<minute, session>>

\* One session a minute: the same key asks for the same session.
CreateSession(v) ==
  /\ visit[v].pc = "checkout"
  /\ session' = IF session[minute] = "none" THEN [session EXCEPT ![minute] = "open"] ELSE session
  /\ visit' = [visit EXCEPT ![v] = NoVisit]
  /\ KeepMoney /\ UNCHANGED <<invoice, minute>>

\* The payer pays it or it expires; Stripe may tell of one payment under another event id.
Checkout(m) ==
  /\ \/ session[m] = "open" /\ session' = [session EXCEPT ![m] = "over"] /\ UNCHANGED due
     \/ session[m] = "open" /\ session' = [session EXCEPT ![m] = "paid"] /\ due' = due \cup {<<m, 1>>}
     \/ session[m] = "paid" /\ UNCHANGED session /\ \E n \in 1..MaxEvents : due' = due \cup {<<m, n>>}
  /\ UNCHANGED <<invoice, gifts, minute, told, visit, press, alerts>>

NextMinute ==
  /\ minute < MaxMinute /\ minute' = minute + 1
  /\ UNCHANGED <<invoice, gifts, session, due, told, visit, press, alerts>>
----------------------------------------------------------------------------
Next ==
  \/ \E v \in Visitors : (\E t, p \in BOOLEAN : Open(v, t, p)) \/ SaveGiftAid(v) \/ CreateSession(v)
  \/ \E m \in Minutes : Checkout(m)
  \/ \E e \in due : Deliver(e)
  \/ \E s \in Staff : LookUnpaid(s) \/ MarkPaid(s)
  \/ AlertStaff \/ CancelInvoice \/ NextMinute

Spec == Init /\ [][Next]_vars
----------------------------------------------------------------------------
(* What an invoice is promised                                              *)

\* Each payment becomes one donation: a card payment told twice, and a transfer two staff mark at
\* the same moment, or while a card payment settles, are recorded once (settleInvoice's look under
\* the lock, refuseIfPaid).
PaymentOnce ==
  /\ \A i, j \in DOMAIN gifts : gifts[i].by = gifts[j].by => i = j
  /\ \A i \in DOMAIN gifts : gifts[i].by = Transfer => gifts[i].kind # "paid-twice"

\* The payer's declaration covers one donation, the first, and none of a company's.
DeclaredOnce ==
  \A i \in DOMAIN gifts : gifts[i].giftAid => i = 1 /\ invoice.payer = "person"

\* A second payment staff have not been told of has a note on its way to them, or its note was lost.
AlertOwed == Unalerted => alerts["read"] + alerts["send"] + alerts["stamp"] + alerts["lost"] > 0
=============================================================================
