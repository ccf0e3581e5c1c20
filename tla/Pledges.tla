------------------------------- MODULE Pledges -------------------------------
(***************************************************************************)
(* One sponsor's confirmed pledge (src/src/db/pledges.ts and               *)
(* src/src/routes/pledges.ts): its sponsor opens the pay link in several   *)
(* tabs and pays or cancels, the organiser marks it as cash, staff cancel  *)
(* it, its details are removed, and Stripe's webhook settles it.           *)
(*                                                                         *)
(* One request to pay reads the pledge, then asks Stripe to close the      *)
(* checkout it read, opens its own, and saves it only over the one it      *)
(* read: nothing is locked in between.  Every other change is one locked   *)
(* statement or transaction on the row.                                    *)
(***************************************************************************)
EXTENDS Integers, Sequences

CONSTANTS
  Tabs,       \* requests to pay; each opens at most one checkout
  MaxFaults,  \* bound: calls to Stripe or the database that fail
  None        \* no checkout

VARIABLES
  pledge,    \* its row of sponsor_pledges
  payments,  \* the donations made from its checkouts, in order
  session,   \* at Stripe: each tab's checkout, and whether it carries the declaration
  told,      \* checkout.session.completed events the webhook has committed
  tab,       \* requests to pay: where each is, and the row it read
  faults

vars == <<pledge, payments, session, told, tab, faults>>

Pledge == [status : {"open", "cancelled", "cash", "expired", "paid"},
           address : BOOLEAN,           \* the home address its declaration needs is there
           checkout : Tabs \cup {None}, \* checkout_session_id
           double : BOOLEAN]            \* double_paid_at

TypeOK ==
  /\ pledge \in Pledge
  /\ payments \in Seq([tab : Tabs, giftAid : BOOLEAN, guarded : BOOLEAN, settled : BOOLEAN])
  /\ session \in [Tabs -> [state : {"none", "made", "open", "over", "paid"}, giftAid : BOOLEAN]]
  /\ told \subseteq Tabs
  /\ tab \in [Tabs -> [pc : {"idle", "close", "ask", "create", "save", "lost", "redirect", "done"},
                       previous : Tabs \cup {None}, giftAid : BOOLEAN]]
  /\ faults \in 0..MaxFaults

\* A pledge its sponsor confirmed, with Gift Aid or without.
Init ==
  /\ pledge \in [status : {"open"}, address : BOOLEAN, checkout : {None}, double : {FALSE}]
  /\ payments = <<>>
  /\ session = [t \in Tabs |-> [state |-> "none", giftAid |-> FALSE]]
  /\ told = {}
  /\ tab = [t \in Tabs |-> [pc |-> "idle", previous |-> None, giftAid |-> FALSE]]
  /\ faults = 0

At(t, pc) == tab[t].pc = pc
Goto(t, pc) == tab' = [tab EXCEPT ![t].pc = pc]
Faults(n) == faults + n <= MaxFaults /\ faults' = faults + n
Fault == Faults(1)
Payable == {t \in Tabs : session[t].state = "open"}
----------------------------------------------------------------------------
(* postPay                                                                  *)

\* pledgeForToken and closedNotice: the row as it is, only while open.
ReadPledge(t, ticked) ==
  /\ At(t, "idle") /\ pledge.status = "open"
  /\ tab' = [tab EXCEPT ![t] = [pc |-> IF pledge.checkout = None THEN "create" ELSE "close",
                                previous |-> pledge.checkout, giftAid |-> ticked /\ pledge.address]]
  /\ UNCHANGED <<pledge, payments, session, told, faults>>

\* expireCheckout: Stripe closes an open checkout, and refuses any other.
Closable(s) == session[s].state \in {"made", "open"}
ClosePrevious(t) ==
  LET s == tab[t].previous IN
  /\ At(t, "close")
  /\ \/ /\ Closable(s)
        /\ session' = [session EXCEPT ![s].state = "over"] /\ Goto(t, "create") /\ UNCHANGED faults
     \/ ~Closable(s) /\ Goto(t, "ask") /\ UNCHANGED <<session, faults>>
     \/ Fault /\ Goto(t, "ask") /\ UNCHANGED session
  /\ UNCHANGED <<pledge, payments, told>>

\* retrieveCheckout: a paid one means no new checkout; anything else, or no answer, goes on.
TakenAlready(s) == session[s].state = "paid"
AskPrevious(t) ==
  /\ At(t, "ask")
  /\ \/ Goto(t, IF TakenAlready(tab[t].previous) THEN "done" ELSE "create") /\ UNCHANGED faults
     \/ Fault /\ Goto(t, "create")
  /\ UNCHANGED <<pledge, payments, session, told>>

CreateCheckout(t) ==
  /\ At(t, "create")
  /\ session' = [session EXCEPT ![t] = [state |-> "made", giftAid |-> tab[t].giftAid]]
  /\ Goto(t, "save")
  /\ UNCHANGED <<pledge, payments, told, faults>>

\* saveCheckoutSession; when the database throws the request goes on as if it had been saved.
MaySaveOver(t) == pledge.status = "open"   \* mutant: saved over whatever checkout is there
MaySave(t) == pledge.status = "open" /\ pledge.checkout = tab[t].previous
SaveCheckout(t) ==
  /\ At(t, "save")
  /\ \/ MaySave(t) /\ pledge' = [pledge EXCEPT !.checkout = t] /\ Goto(t, "redirect") /\ UNCHANGED faults
     \/ ~MaySave(t) /\ Goto(t, "lost") /\ UNCHANGED <<pledge, faults>>
     \/ Fault /\ Goto(t, "redirect") /\ UNCHANGED pledge
  /\ UNCHANGED <<payments, session, told>>

\* The one that lost closes its own; whoever could not is only told so.
CloseOwn(t) ==
  /\ At(t, "lost") /\ Goto(t, "done")
  /\ \/ session' = [session EXCEPT ![t].state = "over"] /\ UNCHANGED faults
     \/ Fault /\ UNCHANGED session
  /\ UNCHANGED <<pledge, payments, told>>

\* The sponsor is sent to pay, unless another request has closed the checkout by now.
Redirect(t) ==
  /\ At(t, "redirect") /\ Goto(t, "done")
  /\ session' = [session EXCEPT ![t].state = IF @ = "made" THEN "open" ELSE @]
  /\ UNCHANGED <<pledge, payments, told, faults>>

\* Any request may die on the way.
Crash(t) ==
  /\ tab[t].pc \notin {"idle", "done"} /\ Goto(t, "done")
  /\ UNCHANGED <<pledge, payments, session, told, faults>>
----------------------------------------------------------------------------
(* Stripe and its webhook                                                   *)

Checkout(t) ==
  /\ session[t].state = "open"
  /\ \E to \in {"paid", "over"} : session' = [session EXCEPT ![t].state = to]
  /\ UNCHANGED <<pledge, payments, told, tab, faults>>

\* guardPledgePayment: a second payment loses its declaration; where the guard itself failed (its
\* savepoint is rolled back), the session keeps what it came with.
CarriesGiftAidAlways(t, guarded) == session[t].giftAid   \* mutant: a second payment keeps the declaration
CarriesGiftAid(t, guarded) == session[t].giftAid /\ (guarded => pledge.status # "paid")

\* settlePledge: a pledge paid before, or marked as cash, is flagged.
Flags(status) == status \in {"paid", "cash"}
Settled ==
  IF pledge.status = "paid" THEN [pledge EXCEPT !.double = TRUE]
  ELSE [status |-> "paid", address |-> FALSE, checkout |-> None, double |-> pledge.double \/ Flags(pledge.status)]

\* handleCheckoutCompleted of a pledge's checkout.  Each of guardPledgePayment and settlePledge is
\* behind a savepoint: it may fail, and the donation stays.  The row is locked from the first that
\* did not fail on; a failed guard has read nothing, so the rest is still one step.
Failed(ok) == IF ok THEN 0 ELSE 1
Webhook(t) ==
  /\ session[t].state = "paid" /\ t \notin told
  /\ told' = told \cup {t}
  /\ \E guarded, settled \in BOOLEAN :
       /\ Faults(Failed(guarded) + Failed(settled))
       /\ payments' = Append(payments, [tab |-> t, giftAid |-> CarriesGiftAid(t, guarded),
                                        guarded |-> guarded, settled |-> settled])
       /\ pledge' = IF settled THEN Settled ELSE pledge
  /\ UNCHANGED <<session, tab>>
----------------------------------------------------------------------------
(* Everyone else                                                            *)

\* cancelPledge, by the sponsor or staff.
CancelPledge == pledge.status = "open" /\ pledge' = [pledge EXCEPT !.status = "cancelled"]

\* markPledgeCash, and back while its details are there.
MarkPledgeCash == pledge.status = "open" /\ pledge' = [pledge EXCEPT !.status = "cash", !.address = FALSE]
UnmarkPledgeCash == pledge.status = "cash" /\ pledge' = [pledge EXCEPT !.status = "open"]

\* anonymisePledge of one still open.
AnonymisePledge == pledge.status = "open" /\ pledge' = [pledge EXCEPT !.status = "expired", !.address = FALSE]

Others ==
  /\ CancelPledge \/ MarkPledgeCash \/ UnmarkPledgeCash \/ AnonymisePledge
  /\ UNCHANGED <<payments, session, told, tab, faults>>
----------------------------------------------------------------------------
Request(t) ==
  \/ \E ticked \in BOOLEAN : ReadPledge(t, ticked)
  \/ ClosePrevious(t) \/ AskPrevious(t) \/ CreateCheckout(t) \/ SaveCheckout(t)
  \/ CloseOwn(t) \/ Redirect(t) \/ Crash(t)
Next == (\E t \in Tabs : Request(t) \/ Checkout(t) \/ Webhook(t)) \/ Others

Spec == Init /\ [][Next]_vars
----------------------------------------------------------------------------
(* What a pledge is promised                                                *)

\* A sponsor who opens the pay link in several tabs is never sent to a second checkout they could
\* pay while one is open or paid for, as long as Stripe and the database answer (postPay).
PayableOnce ==
  faults = 0 => \A s, t \in {x \in Tabs : session[x].state \in {"open", "paid"}} : s = t

\* The sponsor's declaration goes with one donation, even when failed calls let the pledge be paid
\* twice and both payments arrive together: once one has settled the pledge, whatever staff or the
\* sponsor do to it since, no later one that could be checked against it carries the declaration.
DeclaredOnce ==
  \A i, j \in DOMAIN payments :
    i < j /\ payments[i].settled /\ payments[j].guarded => ~payments[j].giftAid

\* "A second payment must never write a second declaration" (guardPledgePayment's comment): no run
\* checks this, as a guard that failed leaves the declaration on the second payment.
SecondNeverDeclared ==
  \A i, j \in DOMAIN payments : i < j /\ payments[i].settled => ~payments[j].giftAid
=============================================================================
