-------------------------------- MODULE Desk --------------------------------
(* Three desks of the office: the admin team, an invoice, and a sponsor's   *)
(* pledge.  They share no state, so the first state chooses the desk that   *)
(* runs; the other two stay as they begin.                                  *)
EXTENDS AdminTeam

CONSTANTS
  Visitors,   \* visits of the invoice's page at work
  Staff,      \* presses of Mark paid at work
  MaxMinute,  \* bound: minutes an invoice's run lasts
  MaxEvents,  \* bound: event ids Stripe tells of one payment under
  Tabs,       \* requests to pay a pledge
  MaxFaults   \* bound: calls to Stripe or the database that fail

ASSUME DeskAssumption ==
  /\ MaxMinute \in Nat \ {0} /\ MaxEvents \in Nat \ {0} /\ MaxFaults \in Nat
  /\ None \notin Tabs

VARIABLES
  desk,
  invoice, invoiceGifts, minute, invoiceSession, due, invoiceTold, reader, press, alerts,
  pledge, payments, session, told, tab, faults

invoices == <<invoice, invoiceGifts, minute, invoiceSession, due, invoiceTold, reader, press, alerts>>
pledges == <<pledge, payments, session, told, tab, faults>>

Invoice == INSTANCE Invoices WITH
  gifts <- invoiceGifts, session <- invoiceSession, told <- invoiceTold, visit <- reader
Pledge == INSTANCE Pledges

DeskInit ==
  /\ desk \in {"team", "invoice", "pledge"}
  /\ Init /\ (desk # "team" => \A u \in Users : users[u] # None /\ users[u].role = "admin")
  /\ Invoice!Init /\ (desk # "invoice" => invoice.payer = "person")
  /\ Pledge!Init /\ (desk # "pledge" => pledge.address)

TeamStep    == desk = "team" /\ Next /\ UNCHANGED <<desk, invoices, pledges>>
InvoiceStep == desk = "invoice" /\ Invoice!Next /\ UNCHANGED <<desk, vars, pledges>>
PledgeStep  == desk = "pledge" /\ Pledge!Next /\ UNCHANGED <<desk, vars, invoices>>

DeskNext == TeamStep \/ InvoiceStep \/ PledgeStep

desks == <<desk, vars, invoices, pledges>>

DeskSpec == DeskInit /\ [][DeskNext]_desks
-----------------------------------------------------------------------------
\* The types of each desk.
DeskTypeOK == TypeOK /\ Invoice!TypeOK /\ Pledge!TypeOK

\* Each payment of an invoice becomes one donation (settleInvoice).
PaymentOnce == Invoice!PaymentOnce

\* The payer's declaration covers the first donation of an invoice only (donationWrite).
InvoiceDeclaredOnce == Invoice!DeclaredOnce

\* A second payment of an invoice has a note to staff on its way (sendInvoicesPaidTwiceAlert).
AlertOwed == Invoice!AlertOwed

\* A sponsor is not sent to a second checkout they could pay (postPay).
PayableOnce == Pledge!PayableOnce

\* The sponsor's declaration goes with one donation, of those guardPledgePayment could look at.
PledgeDeclaredOnce == Pledge!DeclaredOnce
=============================================================================
