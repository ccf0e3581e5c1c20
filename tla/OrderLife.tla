----------------------------- MODULE OrderLife -----------------------------
(***************************************************************************)
(* What a ticket order promises its buyer, whatever happens between the    *)
(* browser, the server, Stripe and the database: money is only asked for   *)
(* while the order's places are kept, places given back are never kept     *)
(* again, tickets that cost something are only ever sold for money taken,  *)
(* and a payment taken is always good for its tickets.  TicketSales        *)
(* implements it.                                                          *)
(***************************************************************************)
CONSTANT Orders

VARIABLES
  place,  \* the order's places: none yet, kept for the buyer, back on sale, or sold
  money   \* the buyer's money: not asked for, asked for, taken, or nothing to pay

vars == <<place, money>>

TypeOK ==
  /\ place \in [Orders -> {"none", "kept", "back", "sold"}]
  /\ money \in [Orders -> {"none", "asked", "taken", "free"}]

Init ==
  /\ place = [o \in Orders |-> "none"]
  /\ money = [o \in Orders |-> "none"]

\* The places are taken; a server slower than the hold may find them gone at once.
Hold(o) == place[o] = "none" /\ place'[o] \in {"kept", "back"}
           /\ money[o] = "none" /\ money'[o] \in {"none", "free"}

\* The buyer is asked for the money, pays it, or no longer can: the places are kept meanwhile.
Ask(o)  == place[o] = "kept" /\ place'[o] = "kept" /\ money[o] = "none" /\ money'[o] = "asked"
Take(o) == place[o] = "kept" /\ place'[o] = "kept" /\ money[o] = "asked" /\ money'[o] = "taken"
Stop(o) == place'[o] = place[o] /\ money[o] = "asked" /\ money'[o] = "none"

\* The places go back on sale: not while the money is being asked for.
GiveBack(o) == place[o] = "kept" /\ place'[o] = "back"
               /\ money'[o] = IF money[o] = "asked" THEN "none" ELSE money[o]

\* The tickets are sold, even if their places went back before: to a payment, or for nothing.
Sell(o) == place[o] \in {"kept", "back"} /\ place'[o] = "sold"
           /\ money[o] \in {"taken", "free"} /\ money'[o] = money[o]

\* A free booking is cancelled.
Unbook(o) == place[o] = "sold" /\ place'[o] = "back" /\ money[o] = "free" /\ money'[o] = "free"

Stay(o) == place'[o] = place[o] /\ money'[o] = money[o]

Next ==
  \A o \in Orders :
    Hold(o) \/ Ask(o) \/ Take(o) \/ Stop(o) \/ GiveBack(o) \/ Sell(o) \/ Unbook(o) \/ Stay(o)

Spec == Init /\ [][Next]_vars
=============================================================================
