------------------------------ MODULE Desk_proofs ------------------------------
(* What an invoice and a pledge are promised, for any number of visits,        *)
(* presses, minutes, event ids, tabs and failed calls, and that the three      *)
(* desks are well typed.                                                       *)
(*                                                                             *)
(* The promises about an invoice's donations rest on one fact that no action   *)
(* states: an invoice that has a donation is paid, and stays so.  So a         *)
(* transfer finds the invoice unpaid only if it is the first payment, and only *)
(* the first payment is not a second one.                                      *)
(*                                                                             *)
(* One checkout of a pledge at a time rests on two.  A checkout its sponsor    *)
(* may come to pay is the one the pledge keeps, until the pledge is paid; and  *)
(* a request on its way to a checkout of its own has seen the one it read      *)
(* closed for good.  So when it replaces that one, nobody can pay it.          *)
EXTENDS Desk, AdminTeam_proofs, SequenceTheorems, TLAPS
-------------------------------------------------------------------------------
(* An invoice                                                                  *)

Donation == [by : Invoice!Payments, giftAid : BOOLEAN, kind : Invoice!Kinds]
InvoiceRow == [payer : {"person", "company"}, status : {"waiting", "paid", "cancelled"},
               giftAid : BOOLEAN, twice : BOOLEAN, alerted : BOOLEAN]
Readers == [Visitors -> [pc : {"idle", "save", "checkout"}, ticked : BOOLEAN, pay : BOOLEAN]]
AlertNotes == [{"read", "send", "stamp", "lost"} -> Nat]

\* What the steps below read is well typed.
InvoiceTyped ==
  /\ invoice \in InvoiceRow /\ invoiceGifts \in Seq(Donation)
  /\ due \subseteq Invoice!Minutes \X Nat
  /\ reader \in Readers
  /\ alerts \in AlertNotes

GivenIsPaid == invoiceGifts # <<>> => invoice.status = "paid"

InvoiceIInv == InvoiceTyped /\ GivenIsPaid /\ Invoice!PaymentOnce /\ Invoice!DeclaredOnce /\ Invoice!AlertOwed
-------------------------------------------------------------------------------
(* A donation is put after those there are.                                    *)
LEMMA OneMore ==
  ASSUME NEW S, NEW s \in Seq(S), NEW x \in S
  PROVE  /\ Append(s, x) \in Seq(S) /\ Len(s) \in Nat
         /\ DOMAIN s = 1..Len(s) /\ DOMAIN Append(s, x) = 1..(Len(s) + 1)
         /\ \A i \in 1..Len(s) : Append(s, x)[i] = s[i]
         /\ Append(s, x)[Len(s) + 1] = x
         /\ Append(s, x) # <<>> /\ (s = <<>> => Len(s) = 0)
BY AppendProperties, LenProperties

\* Only a payment that comes to a paid invoice is a second one.
LEMMA SettleKinds == \A s \in {"waiting", "paid", "cancelled"} :
  Invoice!SettleKind(s) \in Invoice!Kinds /\ (Invoice!SettleKind(s) = "paid-twice" <=> s = "paid")
BY DEF Invoice!SettleKind, Invoice!Kinds

\* A payment keeps what is promised of donations, and raises "twice" exactly with a second one.
LEMMA SettleKeeps ==
  ASSUME InvoiceIInv, NEW by \in Invoice!Payments, Invoice!Settle(by)
  PROVE  /\ invoice' \in InvoiceRow /\ invoiceGifts' \in Seq(Donation)
         /\ GivenIsPaid' /\ Invoice!PaymentOnce' /\ Invoice!DeclaredOnce'
         /\ Invoice!TellsStaff(by) \/ Invoice!Refused(by) \/ (invoice'.twice = invoice.twice /\ invoice'.alerted = invoice.alerted)
<1> DEFINE kind == Invoice!SettleKind(invoice.status)
           new == [by |-> by, giftAid |-> Invoice!Declared(kind), kind |-> kind]
<1>1. CASE Invoice!Refused(by) \/ Invoice!AlreadyRecorded(by)
  BY <1>1 DEF Invoice!Settle, InvoiceIInv, InvoiceTyped, GivenIsPaid, Invoice!PaymentOnce,
              Invoice!DeclaredOnce
<1>2. CASE ~(Invoice!Refused(by) \/ Invoice!AlreadyRecorded(by))
  <2>1. kind \in Invoice!Kinds /\ (kind = "paid-twice" <=> invoice.status = "paid")
    BY SettleKinds DEF InvoiceIInv, InvoiceTyped, InvoiceRow
  <2>2. Invoice!Declared(kind) \in BOOLEAN /\ (Invoice!Declared(kind) => invoice.status # "paid" /\ invoice.payer = "person")
    BY <2>1 DEF Invoice!Declared
  <2>3. new \in Donation
    BY <2>1, <2>2 DEF Donation
  <2>4. invoiceGifts' = Append(invoiceGifts, new)
    BY <1>2 DEF Invoice!Settle
  <2>5. /\ invoice' \in InvoiceRow /\ invoice'.payer = invoice.payer /\ invoice'.status = "paid"
        /\ Invoice!TellsStaff(by) \/ (invoice'.twice = invoice.twice /\ invoice'.alerted = invoice.alerted)
    BY <1>2, <2>1 DEF Invoice!Settle, InvoiceIInv, InvoiceTyped, InvoiceRow, Invoice!TellsStaff
  <2>6. /\ invoiceGifts' \in Seq(Donation) /\ invoiceGifts' # <<>>
        /\ Len(invoiceGifts) \in Nat /\ DOMAIN invoiceGifts = 1..Len(invoiceGifts) /\ DOMAIN invoiceGifts' = 1..(Len(invoiceGifts) + 1)
        /\ \A i \in 1..Len(invoiceGifts) : invoiceGifts'[i] = invoiceGifts[i]
        /\ invoiceGifts'[Len(invoiceGifts) + 1] = new
        /\ invoiceGifts = <<>> => Len(invoiceGifts) = 0
    BY <2>3, <2>4, OneMore DEF InvoiceIInv, InvoiceTyped
  <2>7. new.by = by /\ new.giftAid = Invoice!Declared(kind) /\ new.kind = kind
    OBVIOUS
  <2> HIDE DEF new, kind
  <2>8. \A i \in DOMAIN invoiceGifts : invoiceGifts[i].by # by
    <3>1. CASE by = Invoice!Transfer
      <4>1. invoice.status # "paid"
        BY <1>2, <3>1 DEF Invoice!Refused
      <4>2. invoiceGifts = <<>>
        BY <4>1 DEF InvoiceIInv, GivenIsPaid
      <4> QED BY <4>2, <2>6
    <3>2. CASE by # Invoice!Transfer
      BY <1>2, <3>2 DEF Invoice!AlreadyRecorded
    <3> QED BY <3>1, <3>2
  <2>9. Invoice!PaymentOnce'
    <3>1. \A i, j \in DOMAIN invoiceGifts' : invoiceGifts'[i].by = invoiceGifts'[j].by => i = j
      BY <2>6, <2>7, <2>8 DEF InvoiceIInv, Invoice!PaymentOnce
    <3>2. by = Invoice!Transfer => new.kind # "paid-twice"
      BY <1>2, <2>1, <2>7 DEF Invoice!Refused
    <3>3. \A i \in DOMAIN invoiceGifts' : invoiceGifts'[i].by = Invoice!Transfer => invoiceGifts'[i].kind # "paid-twice"
      BY <2>6, <2>7, <3>2 DEF InvoiceIInv, Invoice!PaymentOnce
    <3> QED BY <3>1, <3>3 DEF Invoice!PaymentOnce
  <2>10. Invoice!DeclaredOnce'
    <3>1. new.giftAid => Len(invoiceGifts) = 0 /\ invoice'.payer = "person"
      BY <2>2, <2>5, <2>6, <2>7 DEF InvoiceIInv, GivenIsPaid
    <3> QED BY <2>5, <2>6, <3>1 DEF InvoiceIInv, Invoice!DeclaredOnce
  <2> QED BY <2>5, <2>6, <2>9, <2>10 DEF GivenIsPaid
<1> QED BY <1>1, <1>2
-------------------------------------------------------------------------------
LEMMA InvoiceInit == ASSUME Invoice!Init PROVE InvoiceIInv
<1>1. invoice \in InvoiceRow /\ invoice.twice = FALSE
  BY DEF Invoice!Init, InvoiceRow
<1>2. invoiceGifts \in Seq(Donation) /\ invoiceGifts = <<>> /\ due = {} /\ reader \in Readers /\ alerts \in AlertNotes
  BY DEF Invoice!Init, Readers, AlertNotes, Invoice!NoVisit
<1>3. GivenIsPaid /\ Invoice!PaymentOnce /\ Invoice!DeclaredOnce
  BY <1>2 DEF GivenIsPaid, Invoice!PaymentOnce, Invoice!DeclaredOnce
<1>4. Invoice!AlertOwed
  BY <1>1 DEF Invoice!AlertOwed, Invoice!Unalerted
<1> QED BY <1>1, <1>2, <1>3, <1>4 DEF InvoiceIInv, InvoiceTyped

\* A step that makes no donation and does not touch what has been paid.
LEMMA KeepsGifts ==
  ASSUME InvoiceIInv, UNCHANGED invoiceGifts, InvoiceTyped', invoice'.payer = invoice.payer,
  Invoice!AlertOwed',
         invoice'.status = invoice.status \/ invoice.status # "paid"
  PROVE  InvoiceIInv'
<1>1. GivenIsPaid'
  BY DEF InvoiceIInv, GivenIsPaid
<1>2. Invoice!PaymentOnce' /\ Invoice!DeclaredOnce'
  BY DEF InvoiceIInv, Invoice!PaymentOnce, Invoice!DeclaredOnce
<1> QED BY <1>1, <1>2 DEF InvoiceIInv

\* Stripe's events.
LEMMA DeliverStep ==
  ASSUME InvoiceIInv, NEW e \in due, Invoice!Deliver(e)
  PROVE  InvoiceIInv'
<1>1. e[1] \in Invoice!Payments
  BY DEF InvoiceIInv, InvoiceTyped, Invoice!Payments
<1>2. due' \subseteq Invoice!Minutes \X Nat /\ UNCHANGED reader
  BY DEF InvoiceIInv, InvoiceTyped, Invoice!Deliver
<1>3. CASE e \in invoiceTold
  BY <1>2, <1>3 DEF Invoice!Deliver, InvoiceIInv, InvoiceTyped, GivenIsPaid, Invoice!PaymentOnce,
                    Invoice!DeclaredOnce, Invoice!AlertOwed, Invoice!Unalerted
<1>4. CASE e \notin invoiceTold
  <2>1. Invoice!Settle(e[1]) /\ alerts' = IF Invoice!TellsStaff(e[1]) THEN [alerts EXCEPT !["read"] = @ + 1] ELSE alerts
    BY <1>4 DEF Invoice!Deliver
  <2>2. /\ invoice' \in InvoiceRow /\ invoiceGifts' \in Seq(Donation)
        /\ GivenIsPaid' /\ Invoice!PaymentOnce' /\ Invoice!DeclaredOnce'
        /\ Invoice!TellsStaff(e[1]) \/ Invoice!Refused(e[1])
           \/ (invoice'.twice = invoice.twice /\ invoice'.alerted = invoice.alerted)
    BY <1>1, <2>1, SettleKeeps
  <2>3. ~Invoice!Refused(e[1])
    BY DEF Invoice!Refused, Invoice!Transfer, InvoiceIInv, InvoiceTyped, Invoice!Minutes
  <2>4. alerts' \in AlertNotes /\ Invoice!AlertOwed'
    BY <2>1, <2>2, <2>3 DEF InvoiceIInv, InvoiceTyped, AlertNotes, Invoice!AlertOwed, Invoice!Unalerted
  <2> QED BY <1>2, <2>2, <2>4 DEF InvoiceIInv, InvoiceTyped
<1> QED BY <1>3, <1>4

\* Mark paid.
LEMMA MarkPaidStep ==
  ASSUME InvoiceIInv, NEW s \in Staff, Invoice!MarkPaid(s)
  PROVE  InvoiceIInv'
<1>1. Invoice!Settle(Invoice!Transfer) /\ UNCHANGED <<due, reader, alerts>>
  BY DEF Invoice!MarkPaid
<1>2. /\ invoice' \in InvoiceRow /\ invoiceGifts' \in Seq(Donation)
      /\ GivenIsPaid' /\ Invoice!PaymentOnce' /\ Invoice!DeclaredOnce'
      /\ Invoice!TellsStaff(Invoice!Transfer) \/ Invoice!Refused(Invoice!Transfer)
         \/ (invoice'.twice = invoice.twice /\ invoice'.alerted = invoice.alerted)
  BY <1>1, SettleKeeps DEF Invoice!Payments
<1>3. Invoice!TellsStaff(Invoice!Transfer) => Invoice!Refused(Invoice!Transfer)
  BY SettleKinds DEF Invoice!TellsStaff, Invoice!Refused, InvoiceIInv, InvoiceTyped, InvoiceRow
<1>4. Invoice!Refused(Invoice!Transfer) => UNCHANGED invoice
  BY <1>1 DEF Invoice!Settle
<1>5. Invoice!AlertOwed'
  BY <1>1, <1>2, <1>3, <1>4 DEF InvoiceIInv, Invoice!AlertOwed, Invoice!Unalerted
<1> QED BY <1>1, <1>2, <1>5 DEF InvoiceIInv, InvoiceTyped

\* The note to staff.
LEMMA AlertStep ==
  ASSUME InvoiceIInv, Invoice!AlertStaff
  PROVE  InvoiceIInv'
<1>1. UNCHANGED <<invoiceGifts, due, reader>>
  BY DEF Invoice!AlertStaff, Invoice!Alert
<1>2. alerts \in AlertNotes /\ invoice \in InvoiceRow
  BY DEF InvoiceIInv, InvoiceTyped
<1>3. CASE Invoice!Alert("read", IF Invoice!Unalerted THEN "send" ELSE "") /\ UNCHANGED invoice
  <2>1. CASE Invoice!Unalerted
    <3>1. alerts' = [alerts EXCEPT !["read"] = @ - 1, !["send"] = @ + 1] /\ alerts["read"] > 0
      BY <1>3, <2>1 DEF Invoice!Alert
    <3>2. alerts' \in AlertNotes /\ alerts'["send"] > 0
      BY <1>2, <3>1 DEF AlertNotes
    <3>3. Invoice!AlertOwed'
      BY <3>2 DEF AlertNotes, Invoice!AlertOwed
    <3> QED BY <1>1, <1>3, <3>2, <3>3, KeepsGifts DEF InvoiceIInv, InvoiceTyped
  <2>2. CASE ~Invoice!Unalerted
    <3>1. alerts' = [alerts EXCEPT !["read"] = @ - 1] /\ alerts["read"] > 0
      BY <1>3, <2>2 DEF Invoice!Alert
    <3>2. alerts' \in AlertNotes
      BY <1>2, <3>1 DEF AlertNotes
    <3>3. Invoice!AlertOwed'
      BY <1>3, <2>2 DEF Invoice!AlertOwed, Invoice!Unalerted
    <3> QED BY <1>1, <1>3, <3>2, <3>3, KeepsGifts DEF InvoiceIInv, InvoiceTyped
  <2> QED BY <2>1, <2>2
<1>4. ASSUME NEW to \in {"stamp", "lost"}, Invoice!Alert("send", to), UNCHANGED invoice PROVE InvoiceIInv'
  <2>1. alerts["send"] > 0 /\ alerts' = [alerts EXCEPT !["send"] = @ - 1, ![to] = IF to = "lost" THEN 1 ELSE @ + 1]
    BY <1>4 DEF Invoice!Alert
  <2>2. alerts' \in AlertNotes /\ alerts'[to] > 0
    BY <1>2, <2>1 DEF AlertNotes
  <2>3. Invoice!AlertOwed'
    BY <2>2 DEF AlertNotes, Invoice!AlertOwed
  <2> QED BY <1>1, <1>4, <2>2, <2>3, KeepsGifts DEF InvoiceIInv, InvoiceTyped
<1>5. CASE Invoice!Alert("stamp", "") /\ invoice' = [invoice EXCEPT !.alerted = TRUE]
  <2>1. alerts' \in AlertNotes
    BY <1>2, <1>5 DEF Invoice!Alert, AlertNotes
  <2>2. invoice' \in InvoiceRow /\ Invoice!AlertOwed' /\ invoice'.payer = invoice.payer /\ invoice'.status = invoice.status
    BY <1>2, <1>5 DEF InvoiceRow, Invoice!AlertOwed, Invoice!Unalerted
  <2> QED BY <1>1, <2>1, <2>2, KeepsGifts DEF InvoiceIInv, InvoiceTyped
<1> QED BY <1>3, <1>4, <1>5 DEF Invoice!AlertStaff

\* Staff who look or cancel, the payer, Stripe's checkout and the clock.
LEMMA InvoiceOthers ==
  ASSUME InvoiceIInv,
         \/ \E v \in Visitors : (\E t, p \in BOOLEAN : Invoice!Open(v, t, p)) \/ Invoice!SaveGiftAid(v) \/ Invoice!CreateSession(v)
         \/ \E m \in Invoice!Minutes : Invoice!Checkout(m)
         \/ \E s \in Staff : Invoice!LookUnpaid(s)
         \/ Invoice!CancelInvoice \/ Invoice!NextMinute
  PROVE  InvoiceIInv'
<1>1. ASSUME NEW v \in Visitors, NEW t \in BOOLEAN, NEW p \in BOOLEAN, Invoice!Open(v, t, p) PROVE InvoiceIInv'
  <2>1. UNCHANGED <<invoice, invoiceGifts, due, alerts>>
    BY <1>1 DEF Invoice!Open, Invoice!KeepMoney
  <2>2. reader' \in Readers
    BY <1>1 DEF Invoice!Open, InvoiceIInv, InvoiceTyped, Readers
  <2> QED BY <2>1, <2>2, KeepsGifts DEF InvoiceIInv, InvoiceTyped, Invoice!AlertOwed, Invoice!Unalerted
<1>2. ASSUME NEW v \in Visitors, Invoice!SaveGiftAid(v) PROVE InvoiceIInv'
  <2>1. UNCHANGED <<invoiceGifts, due, alerts>>
    BY <1>2 DEF Invoice!SaveGiftAid, Invoice!KeepMoney
  <2>2. /\ invoice' \in InvoiceRow /\ invoice'.payer = invoice.payer /\ invoice'.status = invoice.status
        /\ invoice'.twice = invoice.twice /\ invoice'.alerted = invoice.alerted
    BY <1>2 DEF Invoice!SaveGiftAid, InvoiceIInv, InvoiceTyped, InvoiceRow, Readers
  <2>3. reader' \in Readers
    BY <1>2 DEF Invoice!SaveGiftAid, InvoiceIInv, InvoiceTyped, Readers, Invoice!NoVisit
  <2> QED BY <2>1, <2>2, <2>3, KeepsGifts DEF InvoiceIInv, InvoiceTyped, Invoice!AlertOwed,
                                              Invoice!Unalerted
<1>3. ASSUME NEW v \in Visitors, Invoice!CreateSession(v) PROVE InvoiceIInv'
  <2>1. UNCHANGED <<invoice, invoiceGifts, due, alerts>>
    BY <1>3 DEF Invoice!CreateSession, Invoice!KeepMoney
  <2>2. reader' \in Readers
    BY <1>3 DEF Invoice!CreateSession, InvoiceIInv, InvoiceTyped, Readers, Invoice!NoVisit
  <2> QED BY <2>1, <2>2, KeepsGifts DEF InvoiceIInv, InvoiceTyped, Invoice!AlertOwed, Invoice!Unalerted
<1>4. ASSUME NEW m \in Invoice!Minutes, Invoice!Checkout(m) PROVE InvoiceIInv'
  <2>1. UNCHANGED <<invoice, invoiceGifts, reader, alerts>>
    BY <1>4 DEF Invoice!Checkout
  <2>2. due' \subseteq Invoice!Minutes \X Nat
    <3>1. CASE UNCHANGED due
      BY <3>1 DEF InvoiceIInv, InvoiceTyped
    <3>2. CASE due' = due \cup {<<m, 1>>} \/ \E n \in 1..MaxEvents : due' = due \cup {<<m, n>>}
      BY <3>2 DEF InvoiceIInv, InvoiceTyped
    <3> QED BY <1>4, <3>1, <3>2 DEF Invoice!Checkout
  <2> QED BY <2>1, <2>2, KeepsGifts DEF InvoiceIInv, InvoiceTyped, Invoice!AlertOwed, Invoice!Unalerted
<1>5. ASSUME NEW s \in Staff, Invoice!LookUnpaid(s) PROVE InvoiceIInv'
  BY <1>5, KeepsGifts DEF Invoice!LookUnpaid, InvoiceIInv, InvoiceTyped, Invoice!AlertOwed,
                          Invoice!Unalerted
<1>6. CASE Invoice!CancelInvoice
  <2>1. UNCHANGED <<invoiceGifts, due, reader, alerts>> /\ invoice.status = "waiting"
    BY <1>6 DEF Invoice!CancelInvoice
  <2>2. /\ invoice' \in InvoiceRow /\ invoice'.payer = invoice.payer
        /\ invoice'.twice = invoice.twice /\ invoice'.alerted = invoice.alerted
    BY <1>6 DEF Invoice!CancelInvoice, InvoiceIInv, InvoiceTyped, InvoiceRow
  <2> QED BY <2>1, <2>2, KeepsGifts DEF InvoiceIInv, InvoiceTyped, Invoice!AlertOwed, Invoice!Unalerted
<1>7. CASE Invoice!NextMinute
  BY <1>7, KeepsGifts DEF Invoice!NextMinute, InvoiceIInv, InvoiceTyped, Invoice!AlertOwed,
                          Invoice!Unalerted
<1> QED BY <1>1, <1>2, <1>3, <1>4, <1>5, <1>6, <1>7

LEMMA InvoiceNext == InvoiceIInv /\ [Invoice!Next]_(Invoice!vars) => InvoiceIInv'
<1> SUFFICES ASSUME InvoiceIInv, [Invoice!Next]_(Invoice!vars) PROVE InvoiceIInv'
  OBVIOUS
<1>1. CASE Invoice!Next
  BY <1>1, InvoiceOthers, AlertStep, MarkPaidStep, DeliverStep DEF Invoice!Next
<1>2. CASE UNCHANGED Invoice!vars
  BY <1>2, KeepsGifts DEF Invoice!vars, InvoiceIInv, InvoiceTyped, Invoice!AlertOwed, Invoice!Unalerted
<1> QED BY <1>1, <1>2
-------------------------------------------------------------------------------
(* A pledge                                                                    *)

Payment == [tab : Tabs, giftAid : BOOLEAN, guarded : BOOLEAN, settled : BOOLEAN]
TabRow == [pc : {"idle", "close", "ask", "create", "save", "lost", "redirect", "done"},
           previous : Tabs \cup {None}, giftAid : BOOLEAN]
SessionRow == [state : {"none", "made", "open", "over", "paid"}, giftAid : BOOLEAN]

PledgeTyped ==
  /\ pledge \in Pledge!Pledge /\ payments \in Seq(Payment) /\ faults \in Nat
  /\ session \in [Tabs -> SessionRow] /\ tab \in [Tabs -> TabRow]
  /\ \A t \in Tabs : tab[t].pc \in {"close", "ask"} => tab[t].previous \in Tabs

\* A checkout that is paid, or that its sponsor can pay or is being sent to.
Live(t) == session[t].state \in {"open", "paid"} \/ (tab[t].pc = "redirect" /\ session[t].state = "made")

OneLive == \A s, t \in Tabs : Live(s) /\ Live(t) => s = t
LiveKept == pledge.status # "paid" => \A t \in Tabs : Live(t) => pledge.checkout = t
Closed == \A t \in Tabs :
  /\ tab[t].pc \in {"create", "save", "lost"} /\ tab[t].previous # None
       => session[tab[t].previous].state \in {"over", "none"}
  /\ tab[t].pc = "ask" => session[tab[t].previous].state \in {"over", "none", "paid"}
Saved == /\ pledge.checkout # None => tab[pledge.checkout].pc \in {"redirect", "done"}
         /\ \A t \in Tabs : tab[t].previous # None => tab[tab[t].previous].pc \in {"redirect", "done"}
OneAtATime == faults = 0 => OneLive /\ LiveKept /\ Closed /\ Saved

SettledIsPaid == \A i \in DOMAIN payments : payments[i].settled => pledge.status = "paid"

PledgeIInv == PledgeTyped /\ OneAtATime /\ SettledIsPaid /\ Pledge!DeclaredOnce
-------------------------------------------------------------------------------
LEMMA PledgeInit == ASSUME Pledge!Init PROVE PledgeIInv
<1>1. PledgeTyped
  <2>1. pledge \in Pledge!Pledge
    BY DEF Pledge!Init, Pledge!Pledge
  <2>2. session \in [Tabs -> SessionRow] /\ tab \in [Tabs -> TabRow]
    BY DEF Pledge!Init, TabRow, SessionRow
  <2>3. payments \in Seq(Payment) /\ faults \in Nat
    BY DEF Pledge!Init
  <2>4. \A t \in Tabs : tab[t].pc = "idle"
    BY DEF Pledge!Init
  <2> QED BY <2>1, <2>2, <2>3, <2>4 DEF PledgeTyped
<1>2. \A t \in Tabs : ~Live(t)
  BY DEF Pledge!Init, Live
<1>3. OneAtATime
  BY <1>2 DEF Pledge!Init, OneAtATime, OneLive, LiveKept, Closed, Saved
<1>4. SettledIsPaid /\ Pledge!DeclaredOnce
  BY DEF Pledge!Init, SettledIsPaid, Pledge!DeclaredOnce
<1> QED BY <1>1, <1>3, <1>4 DEF PledgeIInv

\* A step that takes no payment.
LEMMA NoPayment ==
  ASSUME PledgeIInv, UNCHANGED payments, PledgeTyped', OneAtATime',
         pledge'.status = pledge.status \/ pledge.status # "paid"
  PROVE  PledgeIInv'
BY DEF PledgeIInv, SettledIsPaid, Pledge!DeclaredOnce

\* A failed call is remembered.
LEMMA FaultCounts == ASSUME faults \in Nat, Pledge!Fault PROVE faults' \in Nat /\ faults' # 0
BY DEF Pledge!Fault, Pledge!Faults

\* A request reads the pledge.
LEMMA ReadStep ==
  ASSUME None \notin Tabs, PledgeIInv, NEW t \in Tabs, NEW ticked \in BOOLEAN, Pledge!ReadPledge(t, ticked)
  PROVE  PledgeIInv'
<1>1. PledgeTyped'
  BY DEF Pledge!ReadPledge, PledgeIInv, PledgeTyped, TabRow, Pledge!Pledge
<1>2. ASSUME faults = 0 PROVE OneLive' /\ LiveKept' /\ Closed' /\ Saved'
  <2>1. OneLive /\ LiveKept /\ Closed /\ Saved
    BY <1>2 DEF PledgeIInv, OneAtATime
  <2>2. \A s \in Tabs : tab'[s].pc # "redirect" \/ tab'[s] = tab[s]
    BY DEF Pledge!ReadPledge, PledgeIInv, PledgeTyped
  <2>3. \A s \in Tabs : Live(s)' => Live(s)
    BY <2>2 DEF Pledge!ReadPledge, Live
  <2>4. OneLive' /\ LiveKept'
    BY <2>1, <2>3 DEF OneLive, LiveKept, Pledge!ReadPledge
  <2>5. Closed'
    <3>1. CASE pledge.checkout = None
      BY <2>1, <3>1 DEF Pledge!ReadPledge, Closed, PledgeIInv, PledgeTyped
    <3>2. CASE pledge.checkout # None
      BY <2>1, <3>2 DEF Pledge!ReadPledge, Closed, PledgeIInv, PledgeTyped
    <3> QED BY <3>1, <3>2
  <2>6. Saved'
    <3>1. \A s \in Tabs : tab[s].pc \in {"redirect", "done"} => tab'[s] = tab[s]
      BY DEF Pledge!ReadPledge, Pledge!At, PledgeIInv, PledgeTyped
    <3>2. \A s \in Tabs : tab'[s].previous \in {tab[s].previous, pledge.checkout}
      BY DEF Pledge!ReadPledge, PledgeIInv, PledgeTyped
    <3> QED BY <2>1, <3>1, <3>2 DEF Saved, PledgeIInv, PledgeTyped, Pledge!Pledge, TabRow, Pledge!ReadPledge
  <2> QED BY <2>4, <2>5, <2>6
<1>3. OneAtATime'
  BY <1>2 DEF OneAtATime, Pledge!ReadPledge
<1> QED BY <1>1, <1>3, NoPayment DEF Pledge!ReadPledge

\* The request's place alone changes: it goes on, closing nothing.
LEMMA TabMoves ==
  ASSUME None \notin Tabs, PledgeIInv, NEW t \in Tabs, NEW pc \in {"ask", "create", "lost", "done"},
  Pledge!Goto(t, pc),
         UNCHANGED <<pledge, payments, session>>, faults' \in Nat, faults' = 0 => faults = 0,
         faults = 0 => tab[t].pc # "done" /\ (tab[t].pc = "redirect" => pc = "done"),
         faults' = 0 /\ pc = "create" /\ tab[t].previous # None
           => session[tab[t].previous].state \in {"over", "none"},
         faults' = 0 /\ pc = "ask" => session[tab[t].previous].state \in {"over", "none", "paid"},
         pc = "ask" => tab[t].pc = "close", pc = "lost" => tab[t].pc = "save"
  PROVE  PledgeIInv'
<1>1. /\ PledgeTyped'
      /\ \A s \in Tabs \ {t} : tab'[s] = tab[s]
      /\ tab'[t].pc = pc /\ tab'[t].previous = tab[t].previous
  BY DEF Pledge!Goto, PledgeIInv, PledgeTyped, TabRow
<1>2. ASSUME faults' = 0 PROVE OneLive' /\ LiveKept' /\ Closed' /\ Saved'
  <2>1. OneLive /\ LiveKept /\ Closed /\ Saved
    BY <1>2 DEF PledgeIInv, OneAtATime
  <2>2. \A s \in Tabs : Live(s)' => Live(s)
    BY <1>1 DEF Live
  <2>3. OneLive' /\ LiveKept'
    BY <2>1, <2>2 DEF OneLive, LiveKept
  <2>4. Closed'
    BY <1>1, <1>2, <2>1 DEF Closed
  <2>5. Saved'
    BY <1>1, <1>2, <2>1 DEF Saved, PledgeIInv, PledgeTyped, Pledge!Pledge, TabRow
  <2> QED BY <2>3, <2>4, <2>5
<1> QED BY <1>1, <1>2, NoPayment DEF OneAtATime

\* A checkout is closed, and the request goes on.
LEMMA SessionCloses ==
  ASSUME None \notin Tabs, PledgeIInv, NEW t \in Tabs, NEW s \in Tabs, NEW pc \in {"create", "done"},
  Pledge!Goto(t, pc),
         session' = [session EXCEPT ![s].state = "over"], UNCHANGED <<pledge, payments, faults>>,
         tab[t].pc # "done", tab[t].pc = "redirect" => pc = "done",
         pc = "create" => tab[t].previous = s
  PROVE  PledgeIInv'
<1>1. /\ PledgeTyped'
      /\ \A u \in Tabs \ {t} : tab'[u] = tab[u]
      /\ tab'[t].pc = pc /\ tab'[t].previous = tab[t].previous
      /\ \A u \in Tabs \ {s} : session'[u] = session[u]
      /\ session'[s].state = "over"
  BY DEF Pledge!Goto, PledgeIInv, PledgeTyped, TabRow, SessionRow
<1>2. ASSUME faults = 0 PROVE OneLive' /\ LiveKept' /\ Closed' /\ Saved'
  <2>1. OneLive /\ LiveKept /\ Closed /\ Saved
    BY <1>2 DEF PledgeIInv, OneAtATime
  <2>2. \A u \in Tabs : Live(u)' => Live(u)
    BY <1>1 DEF Live
  <2>3. OneLive' /\ LiveKept'
    BY <2>1, <2>2 DEF OneLive, LiveKept
  <2>4. Closed'
    BY <1>1, <1>2, <2>1 DEF Closed, PledgeIInv, PledgeTyped, TabRow
  <2>5. Saved'
    BY <1>1, <1>2, <2>1 DEF Saved, PledgeIInv, PledgeTyped, Pledge!Pledge, TabRow
  <2> QED BY <2>3, <2>4, <2>5
<1> QED BY <1>1, <1>2, NoPayment DEF OneAtATime

\* expireCheckout, and what a request does when Stripe refuses.
LEMMA CloseSteps ==
  ASSUME None \notin Tabs, PledgeIInv, NEW t \in Tabs,
         Pledge!ClosePrevious(t) \/ Pledge!AskPrevious(t) \/ Pledge!CloseOwn(t) \/ Pledge!Crash(t)
  PROVE  PledgeIInv'
<1>1. CASE Pledge!ClosePrevious(t)
  <2> DEFINE s == tab[t].previous
  <2>1. s \in Tabs /\ session[s] \in SessionRow /\ tab[t].pc = "close" /\ faults \in Nat
    BY <1>1 DEF Pledge!ClosePrevious, Pledge!At, PledgeIInv, PledgeTyped
  <2>2. CASE Pledge!Closable(s) /\ session' = [session EXCEPT ![s].state = "over"] /\ Pledge!Goto(t, "create") /\ UNCHANGED faults
    BY <1>1, <2>1, <2>2, SessionCloses DEF Pledge!ClosePrevious
  <2>3. CASE ~Pledge!Closable(s) /\ Pledge!Goto(t, "ask") /\ UNCHANGED <<session, faults>>
    <3>1. session[s].state \in {"over", "none", "paid"}
      BY <2>1, <2>3 DEF Pledge!Closable, SessionRow
    <3> HIDE DEF s
    <3> QED BY <1>1, <2>1, <2>3, <3>1, TabMoves DEF Pledge!ClosePrevious, s
  <2>4. CASE Pledge!Fault /\ Pledge!Goto(t, "ask") /\ UNCHANGED session
    BY <1>1, <2>1, <2>4, FaultCounts, TabMoves DEF Pledge!ClosePrevious
  <2> QED BY <1>1, <2>2, <2>3, <2>4 DEF Pledge!ClosePrevious
<1>2. CASE Pledge!AskPrevious(t)
  <2> DEFINE s == tab[t].previous
  <2>1. s \in Tabs /\ tab[t].pc = "ask" /\ faults \in Nat
        /\ (faults = 0 => session[s].state \in {"over", "none", "paid"})
    BY <1>2 DEF Pledge!AskPrevious, Pledge!At, PledgeIInv, PledgeTyped, OneAtATime, Closed
  <2>2. CASE Pledge!Goto(t, "done") /\ UNCHANGED faults
    BY <1>2, <2>1, <2>2, TabMoves DEF Pledge!AskPrevious
  <2>3. CASE ~Pledge!TakenAlready(s) /\ Pledge!Goto(t, "create") /\ UNCHANGED faults
    <3>1. faults = 0 => session[s].state \in {"over", "none"}
      BY <2>1, <2>3 DEF Pledge!TakenAlready
    <3> QED BY <1>2, <2>1, <2>3, <3>1, TabMoves DEF Pledge!AskPrevious
  <2>4. CASE Pledge!Fault /\ Pledge!Goto(t, "create")
    BY <1>2, <2>1, <2>4, FaultCounts, TabMoves DEF Pledge!AskPrevious
  <2> QED BY <1>2, <2>2, <2>3, <2>4 DEF Pledge!AskPrevious
<1>3. CASE Pledge!CloseOwn(t)
  <2>1. tab[t].pc = "lost" /\ faults \in Nat
    BY <1>3 DEF Pledge!CloseOwn, Pledge!At, PledgeIInv, PledgeTyped
  <2>2. CASE session' = [session EXCEPT ![t].state = "over"] /\ UNCHANGED faults
    BY <1>3, <2>1, <2>2, SessionCloses DEF Pledge!CloseOwn
  <2>3. CASE Pledge!Fault /\ UNCHANGED session
    BY <1>3, <2>1, <2>3, FaultCounts, TabMoves DEF Pledge!CloseOwn
  <2> QED BY <1>3, <2>2, <2>3 DEF Pledge!CloseOwn
<1>4. CASE Pledge!Crash(t)
  BY <1>4, TabMoves DEF Pledge!Crash, PledgeIInv, PledgeTyped
<1> QED BY <1>1, <1>2, <1>3, <1>4

\* A checkout of the request's own, that its sponsor does not know of yet.
LEMMA CreateStep ==
  ASSUME None \notin Tabs, PledgeIInv, NEW t \in Tabs, Pledge!CreateCheckout(t)
  PROVE  PledgeIInv'
<1>1. /\ PledgeTyped' /\ tab[t].pc = "create" /\ tab'[t].pc = "save" /\ tab'[t].previous = tab[t].previous
      /\ \A u \in Tabs \ {t} : tab'[u] = tab[u] /\ session'[u] = session[u]
  BY DEF Pledge!CreateCheckout, Pledge!At, Pledge!Goto, PledgeIInv, PledgeTyped, TabRow, SessionRow
<1>2. ASSUME faults = 0 PROVE OneLive' /\ LiveKept' /\ Closed' /\ Saved'
  <2>1. OneLive /\ LiveKept /\ Closed /\ Saved
    BY <1>2 DEF PledgeIInv, OneAtATime
  <2>2. \A u \in Tabs : Live(u)' => Live(u)
    BY <1>1 DEF Live, Pledge!CreateCheckout, PledgeIInv, PledgeTyped
  <2>3. OneLive' /\ LiveKept'
    BY <2>1, <2>2 DEF OneLive, LiveKept, Pledge!CreateCheckout
  <2>4. \A u \in Tabs : tab[u].previous \in Tabs => tab[u].previous # t
    BY <1>1, <2>1 DEF Saved
  <2>5. Closed'
    BY <1>1, <2>1, <2>4 DEF Closed, PledgeIInv, PledgeTyped, TabRow
  <2>6. Saved'
    BY <1>1, <2>1 DEF Saved, PledgeIInv, PledgeTyped, Pledge!Pledge, TabRow, Pledge!CreateCheckout
  <2> QED BY <2>3, <2>5, <2>6
<1> QED BY <1>1, <1>2, NoPayment DEF OneAtATime, Pledge!CreateCheckout

\* saveCheckoutSession: the checkout it replaces is the one it saw closed.
LEMMA SaveStep ==
  ASSUME None \notin Tabs, PledgeIInv, NEW t \in Tabs, Pledge!SaveCheckout(t)
  PROVE  PledgeIInv'
<1>1. tab[t].pc = "save" /\ faults \in Nat /\ UNCHANGED <<payments, session>>
  BY DEF Pledge!SaveCheckout, Pledge!At, PledgeIInv, PledgeTyped
<1>2. CASE ~Pledge!MaySave(t) /\ Pledge!Goto(t, "lost") /\ UNCHANGED <<pledge, faults>>
  BY <1>1, <1>2, TabMoves
<1>3. CASE Pledge!Fault /\ Pledge!Goto(t, "redirect") /\ UNCHANGED pledge
  <2>1. PledgeTyped'
    BY <1>1, <1>3, FaultCounts DEF Pledge!Goto, PledgeIInv, PledgeTyped, TabRow
  <2> QED BY <1>1, <1>3, <2>1, FaultCounts, NoPayment DEF OneAtATime
<1>4. CASE Pledge!MaySave(t) /\ pledge' = [pledge EXCEPT !.checkout = t] /\ Pledge!Goto(t, "redirect") /\ UNCHANGED faults
  <2>1. /\ PledgeTyped' /\ pledge'.checkout = t /\ pledge'.status = pledge.status
        /\ tab'[t].pc = "redirect" /\ tab'[t].previous = tab[t].previous
        /\ \A u \in Tabs \ {t} : tab'[u] = tab[u]
    BY <1>1, <1>4 DEF Pledge!Goto, PledgeIInv, PledgeTyped, TabRow, Pledge!Pledge
  <2>2. ASSUME faults = 0 PROVE OneLive' /\ LiveKept' /\ Closed' /\ Saved'
    <3>1. OneLive /\ LiveKept /\ Closed /\ Saved
      BY <2>2 DEF PledgeIInv, OneAtATime
    <3>2. \A u \in Tabs : ~Live(u)
      <4> SUFFICES ASSUME NEW u \in Tabs, Live(u) PROVE FALSE
        OBVIOUS
      <4>1. pledge.checkout = u /\ tab[t].previous = u
        BY <1>4, <3>1 DEF LiveKept, Pledge!MaySave
      <4>2. session[u].state \in {"over", "none"}
        BY <1>1, <3>1, <4>1 DEF Closed
      <4> QED BY <4>2 DEF Live
    <3>3. OneLive' /\ LiveKept'
      BY <1>1, <2>1, <3>2 DEF OneLive, LiveKept, Live
    <3>4. Closed'
      BY <1>1, <2>1, <3>1 DEF Closed
    <3>5. Saved'
      BY <1>1, <2>1, <3>1 DEF Saved, PledgeIInv, PledgeTyped, Pledge!Pledge, TabRow
    <3> QED BY <3>3, <3>4, <3>5
  <2> QED BY <1>1, <1>4, <2>1, <2>2, NoPayment DEF OneAtATime
<1> QED BY <1>2, <1>3, <1>4 DEF Pledge!SaveCheckout

\* The sponsor is sent to pay, pays, or lets the checkout end.
LEMMA SponsorSteps ==
  ASSUME None \notin Tabs, PledgeIInv, NEW t \in Tabs, Pledge!Redirect(t) \/ Pledge!Checkout(t)
  PROVE  PledgeIInv'
<1>1. /\ PledgeTyped' /\ UNCHANGED <<pledge, payments, faults>>
      /\ \A u \in Tabs \ {t} : tab'[u] = tab[u] /\ session'[u] = session[u]
      /\ tab'[t].previous = tab[t].previous
      /\ tab'[t].pc = tab[t].pc \/ (tab[t].pc = "redirect" /\ tab'[t].pc = "done")
      /\ session[t].state \in {"made", "open"} \/ session'[t].state = session[t].state
  <2>1. CASE Pledge!Redirect(t)
    BY <2>1 DEF Pledge!Redirect, Pledge!At, Pledge!Goto, PledgeIInv, PledgeTyped, TabRow, SessionRow
  <2>2. CASE Pledge!Checkout(t)
    BY <2>2 DEF Pledge!Checkout, PledgeIInv, PledgeTyped, TabRow, SessionRow
  <2> QED BY <2>1, <2>2
<1>2. Live(t)' => Live(t)
  <2>1. CASE Pledge!Redirect(t)
    BY <2>1 DEF Pledge!Redirect, Pledge!At, Pledge!Goto, PledgeIInv, PledgeTyped, TabRow, SessionRow, Live
  <2>2. CASE Pledge!Checkout(t)
    BY <2>2 DEF Pledge!Checkout, Live
  <2> QED BY <2>1, <2>2
<1>3. ASSUME faults = 0 PROVE OneLive' /\ LiveKept' /\ Closed' /\ Saved'
  <2>1. OneLive /\ LiveKept /\ Closed /\ Saved
    BY <1>3 DEF PledgeIInv, OneAtATime
  <2>2. \A u \in Tabs : Live(u)' => Live(u)
    BY <1>1, <1>2 DEF Live
  <2>3. OneLive' /\ LiveKept'
    BY <1>1, <2>1, <2>2 DEF OneLive, LiveKept
  <2>4. Closed'
    BY <1>1, <2>1 DEF Closed, PledgeIInv, PledgeTyped, TabRow
  <2>5. Saved'
    BY <1>1, <2>1 DEF Saved, PledgeIInv, PledgeTyped, Pledge!Pledge, TabRow
  <2> QED BY <2>3, <2>4, <2>5
<1> QED BY <1>1, <1>3, NoPayment DEF OneAtATime

\* A payment: after one has settled the pledge, none whose guard was made carries the declaration.
LEMMA WebhookStep ==
  ASSUME None \notin Tabs, PledgeIInv, NEW t \in Tabs, Pledge!Webhook(t)
  PROVE  PledgeIInv'
<1>1. PICK guarded \in BOOLEAN, settled \in BOOLEAN :
        /\ Pledge!Faults(Pledge!Failed(guarded) + Pledge!Failed(settled))
        /\ payments' = Append(payments, [tab |-> t, giftAid |-> Pledge!CarriesGiftAid(t, guarded),
                                         guarded |-> guarded, settled |-> settled])
        /\ pledge' = IF settled THEN Pledge!Settled ELSE pledge
  BY DEF Pledge!Webhook
<1> DEFINE new == [tab |-> t, giftAid |-> Pledge!CarriesGiftAid(t, guarded),
                   guarded |-> guarded, settled |-> settled]
<1>2. /\ Pledge!CarriesGiftAid(t, guarded) \in BOOLEAN
      /\ guarded /\ Pledge!CarriesGiftAid(t, guarded) => pledge.status # "paid"
  BY DEF Pledge!CarriesGiftAid, PledgeIInv, PledgeTyped, SessionRow
<1>3. /\ payments' \in Seq(Payment) /\ Len(payments) \in Nat
      /\ DOMAIN payments = 1..Len(payments) /\ DOMAIN payments' = 1..(Len(payments) + 1)
      /\ \A i \in 1..Len(payments) : payments'[i] = payments[i]
      /\ payments'[Len(payments) + 1] = new
  <2>1. new \in Payment
    BY <1>2 DEF Payment
  <2> HIDE DEF new
  <2> QED BY <1>1, <2>1, AppendProperties, LenProperties DEF PledgeIInv, PledgeTyped, new
<1>4. new.giftAid = Pledge!CarriesGiftAid(t, guarded) /\ new.guarded = guarded /\ new.settled = settled
  OBVIOUS
<1>5. /\ pledge' \in Pledge!Pledge /\ faults' \in Nat /\ (faults' = 0 => faults = 0 /\ settled)
      /\ settled => pledge'.status = "paid"
      /\ pledge.status = "paid" => pledge'.status = "paid"
      /\ pledge'.checkout \in {pledge.checkout, None}
  <2>1. pledge \in Pledge!Pledge /\ faults \in Nat /\ faults' \in Nat /\ (faults' = 0 => faults = 0 /\ settled)
    BY <1>1 DEF Pledge!Faults, Pledge!Failed, PledgeIInv, PledgeTyped
  <2>2. CASE settled
    <3>1. Pledge!Settled \in Pledge!Pledge /\ Pledge!Settled.status = "paid" /\ Pledge!Settled.checkout \in {pledge.checkout, None}
      <4>1. CASE pledge.status = "paid"
        BY <2>1, <4>1 DEF Pledge!Settled, Pledge!Pledge
      <4>2. CASE pledge.status # "paid"
        <5>1. (pledge.double \/ Pledge!Flags(pledge.status)) \in BOOLEAN
          BY <2>1 DEF Pledge!Flags, Pledge!Pledge
        <5> HIDE DEF Pledge!Flags
        <5> QED BY <2>1, <4>2, <5>1 DEF Pledge!Settled, Pledge!Pledge
      <4> QED BY <4>1, <4>2
    <3> QED BY <1>1, <2>1, <2>2, <3>1
  <2>3. CASE ~settled
    BY <1>1, <2>1, <2>3
  <2> QED BY <2>2, <2>3
<1> HIDE DEF new
<1>6. PledgeTyped'
  BY <1>3, <1>5 DEF Pledge!Webhook, PledgeIInv, PledgeTyped
<1>7. OneAtATime'
  <2> SUFFICES ASSUME faults' = 0 PROVE OneLive' /\ LiveKept' /\ Closed' /\ Saved'
    BY DEF OneAtATime
  <2>1. OneLive /\ LiveKept /\ Closed /\ Saved /\ pledge'.status = "paid"
    BY <1>5 DEF PledgeIInv, OneAtATime
  <2>2. UNCHANGED <<session, tab>>
    BY DEF Pledge!Webhook
  <2>3. OneLive' /\ LiveKept' /\ Closed'
    BY <2>1, <2>2 DEF OneLive, LiveKept, Closed, Live
  <2>4. Saved'
    BY <1>5, <2>1, <2>2 DEF Saved
  <2> QED BY <2>3, <2>4
<1>8. SettledIsPaid'
  BY <1>3, <1>4, <1>5 DEF PledgeIInv, SettledIsPaid
<1>9. Pledge!DeclaredOnce'
  BY <1>2, <1>3, <1>4 DEF PledgeIInv, SettledIsPaid, Pledge!DeclaredOnce
<1> QED BY <1>6, <1>7, <1>8, <1>9 DEF PledgeIInv

\* Everyone else.
LEMMA OthersStep == ASSUME PledgeIInv, Pledge!Others PROVE PledgeIInv'
<1>1. /\ pledge' \in Pledge!Pledge /\ pledge'.checkout = pledge.checkout /\ pledge.status # "paid"
      /\ pledge'.status # "paid" /\ UNCHANGED <<payments, session, tab, faults>>
  BY DEF Pledge!Others, Pledge!CancelPledge, Pledge!MarkPledgeCash, Pledge!UnmarkPledgeCash,
         Pledge!AnonymisePledge, PledgeIInv, PledgeTyped, Pledge!Pledge
<1>2. PledgeTyped'
  BY <1>1 DEF PledgeIInv, PledgeTyped
<1>3. OneAtATime'
  BY <1>1 DEF PledgeIInv, OneAtATime, OneLive, LiveKept, Closed, Saved, Live
<1> QED BY <1>1, <1>2, <1>3, NoPayment

LEMMA PledgeNext == ASSUME None \notin Tabs PROVE PledgeIInv /\ [Pledge!Next]_(Pledge!vars) => PledgeIInv'
<1> SUFFICES ASSUME PledgeIInv, [Pledge!Next]_(Pledge!vars) PROVE PledgeIInv'
  OBVIOUS
<1>1. CASE Pledge!Next
  BY <1>1, ReadStep, CloseSteps, CreateStep, SaveStep, SponsorSteps, WebhookStep,
      OthersStep DEF Pledge!Next, Pledge!Request
<1>2. CASE UNCHANGED Pledge!vars
  BY <1>2 DEF Pledge!vars, PledgeIInv, PledgeTyped, OneAtATime, OneLive, LiveKept, Closed, Saved, Live,
              SettledIsPaid, Pledge!DeclaredOnce
<1> QED BY <1>1, <1>2
-------------------------------------------------------------------------------
(* The desks together                                                          *)

\* What an invoice is, besides what its promises rest on.
InvoiceRest ==
  /\ minute \in Invoice!Minutes /\ invoiceSession \in [Invoice!Minutes -> {"none", "open", "paid", "over"}]
  /\ due \subseteq Invoice!Minutes \X (1..MaxEvents) /\ invoiceTold \subseteq Invoice!Minutes \X (1..MaxEvents)
  /\ press \in [Staff -> {"idle", "settle"}]

LEMMA InvoiceTypes ==
  ASSUME InvoiceIInv', Invoice!TypeOK, [Invoice!Next]_(Invoice!vars)
  PROVE  Invoice!TypeOK'
<1>1. /\ invoice' \in InvoiceRow /\ invoiceGifts' \in Seq(Donation)
      /\ reader' \in Readers /\ alerts' \in AlertNotes
  BY DEF InvoiceIInv, InvoiceTyped
<1>2. InvoiceRest
  BY DEF Invoice!TypeOK, InvoiceRest
<1>3. InvoiceRest'
  <2> USE DEF InvoiceRest
  <2>1. CASE UNCHANGED Invoice!vars
    BY <1>2, <2>1 DEF Invoice!vars
  <2>2. ASSUME NEW v \in Visitors,
               (\E t, p \in BOOLEAN : Invoice!Open(v, t, p)) \/ Invoice!SaveGiftAid(v) \/ Invoice!CreateSession(v)
        PROVE  InvoiceRest'
    BY <1>2, <2>2 DEF Invoice!Open, Invoice!SaveGiftAid, Invoice!CreateSession, Invoice!KeepMoney
  <2>3. ASSUME NEW m \in Invoice!Minutes, Invoice!Checkout(m) PROVE InvoiceRest'
    <3>1. 1 \in 1..MaxEvents
      BY DeskAssumption
    <3> QED BY <1>2, <2>3, <3>1 DEF Invoice!Checkout
  <2>4. ASSUME NEW e \in due, Invoice!Deliver(e) PROVE InvoiceRest'
    BY <1>2, <2>4 DEF Invoice!Deliver
  <2>5. ASSUME NEW s \in Staff, Invoice!LookUnpaid(s) \/ Invoice!MarkPaid(s) PROVE InvoiceRest'
    BY <1>2, <2>5 DEF Invoice!LookUnpaid, Invoice!MarkPaid
  <2>6. CASE Invoice!AlertStaff \/ Invoice!CancelInvoice
    BY <1>2, <2>6 DEF Invoice!AlertStaff, Invoice!Alert, Invoice!CancelInvoice
  <2>7. CASE Invoice!NextMinute
    <3>1. minute' \in Invoice!Minutes
      BY <1>2, <2>7, DeskAssumption DEF Invoice!NextMinute, Invoice!Minutes
    <3> QED BY <1>2, <2>7, <3>1 DEF Invoice!NextMinute
  <2> QED BY <2>1, <2>2, <2>3, <2>4, <2>5, <2>6, <2>7 DEF Invoice!Next
<1> QED BY <1>1, <1>3 DEF InvoiceRest, Invoice!TypeOK, InvoiceRow, Donation, Readers, AlertNotes

\* What a pledge is, besides what its promises rest on.
LEMMA PledgeTypes ==
  ASSUME PledgeIInv', Pledge!TypeOK, [Pledge!Next]_(Pledge!vars)
  PROVE  Pledge!TypeOK'
<1>1. /\ pledge' \in Pledge!Pledge /\ payments' \in Seq(Payment)
      /\ session' \in [Tabs -> SessionRow] /\ tab' \in [Tabs -> TabRow]
  BY DEF PledgeIInv, PledgeTyped
<1>2. told \subseteq Tabs /\ faults \in 0..MaxFaults
  BY DEF Pledge!TypeOK
<1>3. faults' = faults \/ \E n \in 0..2 : Pledge!Faults(n)
  <2>1. ASSUME NEW t \in Tabs, Pledge!Webhook(t) PROVE \E n \in 0..2 : Pledge!Faults(n)
    <3>1. \A a, b \in BOOLEAN : Pledge!Failed(a) + Pledge!Failed(b) \in 0..2
      BY DEF Pledge!Failed
    <3> QED BY <2>1, <3>1 DEF Pledge!Webhook
  <2>2. Pledge!Fault => \E n \in 0..2 : Pledge!Faults(n)
    BY DEF Pledge!Fault
  <2>3. faults' = faults \/ Pledge!Fault \/ \E t \in Tabs : Pledge!Webhook(t)
    BY DEF Pledge!Next, Pledge!vars, Pledge!Request, Pledge!Checkout, Pledge!Others,
           Pledge!ReadPledge, Pledge!ClosePrevious, Pledge!AskPrevious, Pledge!CreateCheckout,
           Pledge!SaveCheckout, Pledge!CloseOwn, Pledge!Redirect, Pledge!Crash
  <2> QED BY <2>1, <2>2, <2>3
<1>4. faults' \in 0..MaxFaults
  BY <1>2, <1>3, DeskAssumption DEF Pledge!Faults
<1>5. told' \subseteq Tabs
  BY <1>2 DEF Pledge!Next, Pledge!vars, Pledge!Request, Pledge!Checkout, Pledge!Webhook, Pledge!Others,
         Pledge!ReadPledge, Pledge!ClosePrevious, Pledge!AskPrevious, Pledge!CreateCheckout,
         Pledge!SaveCheckout, Pledge!CloseOwn, Pledge!Redirect, Pledge!Crash
<1> QED BY <1>1, <1>4, <1>5 DEF Pledge!TypeOK, Payment, SessionRow, TabRow

DeskIInv ==
  /\ IInv
  /\ InvoiceIInv /\ Invoice!TypeOK
  /\ PledgeIInv /\ Pledge!TypeOK

LEMMA DeskInitIInv == DeskInit => DeskIInv
<1> SUFFICES ASSUME DeskInit PROVE DeskIInv
  OBVIOUS
<1>1. Init /\ Invoice!Init /\ Pledge!Init
  BY DEF DeskInit
<1>2. IInv /\ InvoiceIInv /\ PledgeIInv
  BY <1>1, InitIInv, InvoiceInit, PledgeInit
<1>3. Invoice!TypeOK
  <2>1. 1 \in Invoice!Minutes
    BY DeskAssumption DEF Invoice!Minutes
  <2>2. /\ invoice \in InvoiceRow /\ invoiceGifts \in Seq(Donation)
        /\ reader \in Readers /\ alerts \in AlertNotes
    BY <1>2 DEF InvoiceIInv, InvoiceTyped
  <2> QED BY <1>1, <2>1, <2>2 DEF Invoice!Init, Invoice!TypeOK, InvoiceRow, Donation, Readers, AlertNotes
<1>4. Pledge!TypeOK
  <2>1. /\ pledge \in Pledge!Pledge /\ payments \in Seq(Payment)
        /\ session \in [Tabs -> SessionRow] /\ tab \in [Tabs -> TabRow]
    BY <1>2 DEF PledgeIInv, PledgeTyped
  <2>2. told \subseteq Tabs /\ faults \in 0..MaxFaults
    BY <1>1, DeskAssumption DEF Pledge!Init
  <2> QED BY <2>1, <2>2 DEF Pledge!TypeOK, Payment, SessionRow, TabRow
<1> QED BY <1>2, <1>3, <1>4 DEF DeskIInv

\* A step of one desk is a step of its own, and the others stay.
LEMMA OneDesk ==
  ASSUME [DeskNext]_desks
  PROVE  [Next]_vars /\ [Invoice!Next]_(Invoice!vars) /\ [Pledge!Next]_(Pledge!vars)
BY DEF DeskNext, TeamStep, InvoiceStep, PledgeStep, desks, invoices, pledges, Invoice!vars, Pledge!vars

LEMMA DeskNextIInv == DeskIInv /\ [DeskNext]_desks => DeskIInv'
<1> SUFFICES ASSUME DeskIInv, [DeskNext]_desks PROVE DeskIInv'
  OBVIOUS
<1>1. [Next]_vars /\ [Invoice!Next]_(Invoice!vars) /\ [Pledge!Next]_(Pledge!vars)
  BY OneDesk
<1>2. IInv'
  BY <1>1, NextIInv DEF DeskIInv
<1>3. InvoiceIInv'
  BY <1>1, InvoiceNext DEF DeskIInv
<1>4. PledgeIInv'
  BY <1>1, PledgeNext, DeskAssumption DEF DeskIInv
<1>5. Invoice!TypeOK' /\ Pledge!TypeOK'
  BY <1>1, <1>3, <1>4, InvoiceTypes, PledgeTypes DEF DeskIInv
<1> QED BY <1>2, <1>3, <1>4, <1>5 DEF DeskIInv

LEMMA DeskAlways == DeskSpec => []DeskIInv
BY DeskInitIInv, DeskNextIInv, PTL DEF DeskSpec

\* The types of each desk: users, links and staff requests, an invoice with its donations and notes,
\* a pledge with its checkouts.
THEOREM DeskTypeCorrect == DeskSpec => []DeskTypeOK
<1>1. DeskIInv => DeskTypeOK
  BY DEF DeskIInv, IInv, DeskTypeOK
<1> QED BY DeskAlways, <1>1, PTL

\* Each payment of an invoice becomes one donation, however often Stripe tells of it and however
\* many staff mark a transfer at the same moment (settleInvoice).
THEOREM PaymentsOnce == DeskSpec => []PaymentOnce
<1>1. DeskIInv => PaymentOnce
  BY DEF DeskIInv, InvoiceIInv, PaymentOnce
<1> QED BY DeskAlways, <1>1, PTL

\* The payer's declaration covers the first donation of an invoice only (donationWrite).
THEOREM InvoiceDeclarationsOnce == DeskSpec => []InvoiceDeclaredOnce
<1>1. DeskIInv => InvoiceDeclaredOnce
  BY DEF DeskIInv, InvoiceIInv, InvoiceDeclaredOnce
<1> QED BY DeskAlways, <1>1, PTL

\* A second payment is on its way to staff, or its note was lost (sendInvoicesPaidTwiceAlert).
THEOREM AlertIsOwed == DeskSpec => []AlertOwed
<1>1. DeskIInv => AlertOwed
  BY DEF DeskIInv, InvoiceIInv, AlertOwed
<1> QED BY DeskAlways, <1>1, PTL

\* However many tabs a sponsor opens the pay link in, while Stripe and the database answer there is
\* one checkout at most that they can pay or have paid (postPay).
THEOREM PayableAtMostOnce == DeskSpec => []PayableOnce
<1>1. DeskIInv => PayableOnce
  BY DEF DeskIInv, PledgeIInv, OneAtATime, OneLive, Live, PayableOnce, Pledge!PayableOnce
<1> QED BY DeskAlways, <1>1, PTL

\* However many payments arrive, for any tabs and failed calls, none that could be checked against the
\* pledge carries the declaration once one has settled it (guardPledgePayment; one whose guard failed
\* behind its savepoint keeps what its session came with: guardPledgePaymentSafely).
THEOREM PledgeDeclarationsOnce == DeskSpec => []PledgeDeclaredOnce
<1>1. DeskIInv => PledgeDeclaredOnce
  BY DEF DeskIInv, PledgeIInv, PledgeDeclaredOnce
<1> QED BY DeskAlways, <1>1, PTL
===============================================================================
