---------------------------- MODULE BallBookings ----------------------------
(***************************************************************************)
(* Selling the room of the Festive Ball: src/src/db/ball.ts, the checkout  *)
(* route of src/src/routes/ball.ts, the arithmetic of ball/capacity.ts,    *)
(* and the bank transfers of src/src/db/ball-transfer.ts.                  *)
(*                                                                         *)
(* A card buyer's request takes the one settings row's lock, reads what is *)
(* sold and then what is reserved (two statements, each seeing what has    *)
(* been committed by then), reserves, asks Stripe for a checkout, writes   *)
(* the pending booking and lets the reservation go.  Transfers, holds and  *)
(* cancelled transfers that come back take the same lock.  Stripe, its     *)
(* webhook, staff and the clock go on around them.  Of time only the order *)
(* matters: a checkout (30 minutes) closes before its booking stops        *)
(* holding seats (an hour), and a reservation (2 minutes) runs out while   *)
(* Stripe is being asked only if SlowStripe.                               *)
(***************************************************************************)
EXTENDS Integers, FiniteSets, Functions

CONSTANTS
  Cards, Transfers, Holds,  \* requests: by card, by bank transfer, staff's named holds
  NoOne,                    \* the settings row's lock when nobody has it
  Wants,                    \* what may be asked for: [kind, quantity]
  Seats,                    \* seats_per_table
  Tables, HeldSeats,        \* what staff may set total_tables and held_seats to
  SlowStripe,               \* may Stripe's answer take longer than a reservation holds?
  MaxStaff                  \* how often staff change the settings: a bound of the model

Bookings == Cards \cup Transfers
Requests == Bookings \cup Holds

ASSUME RequestsAssumption ==
  /\ NoOne \notin Requests /\ IsFiniteSet(Requests)
  /\ Cards \cap Transfers = {} /\ Cards \cap Holds = {} /\ Transfers \cap Holds = {}
ASSUME RoomAssumption ==
  /\ Wants \subseteq [kind : {"seat", "table"}, quantity : Nat \ {0}]
  /\ Seats \in Nat \ {0} /\ Tables \subseteq Nat /\ HeldSeats \subseteq Nat /\ 0 \in HeldSeats
  /\ SlowStripe \in BOOLEAN /\ MaxStaff \in Nat

VARIABLES
  settings,   \* ball_settings: tables, held (seats kept back), closed (sales)
  lock,       \* who has the settings row FOR UPDATE
  soldSeen,   \* the bookings its SOLD_SQL counted
  want,       \* what each request asks for
  pc,         \* where each request is
  status,     \* ball_bookings.status ("none": no row), and of a hold "live" or "released"
  cancelledFrom, \* the status staff cancelled it from
  aged,       \* pending by card for more than an hour: counted no longer
  reserved,   \* the card requests with a live reservation
  session,    \* Stripe's checkout of a card request
  told,       \* the sessions whose closing event the webhook has handled
  staffLeft,  \* settings changes left
  causes      \* history: what has let the room be overfilled

vars == <<settings, lock, soldSeen, want, pc, status, cancelledFrom, aged, reserved, session,
          told, staffLeft, causes>>
room == <<settings, staffLeft>>
stripe == <<session, told>>

Nothing == [kind |-> "seat", quantity |-> 0]

TypeOK ==
  /\ settings \in [tables : Tables, held : HeldSeats, closed : BOOLEAN]
  /\ lock \in Requests \cup {NoOne}
  /\ soldSeen \subseteq Bookings
  /\ want \in [Requests -> Wants \cup {Nothing}]
  /\ pc \in [Requests -> {"idle", "asked", "stripe", "book", "failed", "release", "replied", "done"}]
  /\ status \in [Requests -> {"none", "pending", "paid", "cancelled", "live", "released"}]
  /\ cancelledFrom \in [Bookings -> {"none", "pending", "paid"}]
  /\ aged \subseteq Cards /\ reserved \subseteq Cards /\ told \subseteq Cards
  /\ session \in [Cards -> {"none", "open", "paid", "expired"}]
  /\ staffLeft \in 0..MaxStaff
  /\ causes \subseteq {"settings", "late", "lapsed", "handover"}

Init ==
  /\ settings \in [tables : Tables, held : {0}, closed : {FALSE}]
  /\ lock = NoOne /\ soldSeen = {}
  /\ want = [r \in Requests |-> Nothing]
  /\ pc = [r \in Requests |-> "idle"]
  /\ status = [r \in Requests |-> "none"]
  /\ cancelledFrom = [b \in Bookings |-> "none"]
  /\ aged = {} /\ reserved = {} /\ told = {}
  /\ session = [c \in Cards |-> "none"]
  /\ staffLeft = MaxStaff
  /\ causes = {}
----------------------------------------------------------------------------
(* What is taken, and what is left                                          *)

SeatsFor(w) == IF w.kind = "table" THEN w.quantity * Seats ELSE w.quantity

\* SOLD_SQL: paid, or pending and still able to become paid.
SoldForGood == {b \in Bookings : status[b] \in {"paid", "pending"}}   \* mutant: a pending booking counts for ever
Sold == {b \in Bookings : status[b] = "paid" \/ (status[b] = "pending" /\ b \notin aged)}
Held == {h \in Holds : status[h] = "live"}

Quantities == [r \in Requests |-> want[r].quantity]
SeatsWanted == [r \in Requests |-> SeatsFor(want[r])]

\* The tables sold whole among the bookings B, and the seats of those by the seat.
TablesSold(B) == SumFunctionOnSet(Quantities, {b \in B : want[b].kind = "table"})
LooseSeats(B) == SumFunctionOnSet(Quantities, {b \in B : want[b].kind = "seat"})
PooledSeats(B, R) == LooseSeats(B) + settings.held + SumFunctionOnSet(SeatsWanted, R \cup Held)

Broken(seats) == (seats + Seats - 1) \div Seats
SeatsRemaining(B, R) ==
  LET left == (settings.tables - TablesSold(B)) * Seats - PooledSeats(B, R)
  IN IF left > 0 THEN left ELSE 0
TablesRemaining(B, R) == settings.tables - TablesSold(B) - Broken(PooledSeats(B, R))

\* canFulfil, of the order w when B are sold and R reserved.
CanFulfil(w, B, R) ==
  IF w.kind = "table" THEN TablesRemaining(B, R) >= w.quantity ELSE SeatsRemaining(B, R) >= w.quantity
----------------------------------------------------------------------------
(* A request: by card, by transfer, or a hold                               *)

\* The route's early look at what is left can only turn a buyer away sooner; whether sales are
\* open is looked at here alone, and not for holds or for transfers that staff add.
Begin(r, w) ==
  /\ pc[r] = "idle"
  /\ settings.closed => r \notin Cards
  /\ pc' = [pc EXCEPT ![r] = "asked"]
  /\ want' = [want EXCEPT ![r] = w]
  /\ UNCHANGED <<room, lock, soldSeen, status, cancelledFrom, aged, reserved, stripe, causes>>

\* BEGIN, the settings row FOR UPDATE, and SOLD_SQL.
LockSettings(r) ==
  /\ pc[r] = "asked" /\ lock = NoOne
  /\ lock' = r
  /\ soldSeen' = Sold
  /\ UNCHANGED <<room, want, pc, status, cancelledFrom, aged, reserved, stripe, causes>>

\* RESERVED_SQL and HOLDS_SQL, the check, the write and COMMIT.  Reserves for a card, writes the
\* booking of a transfer or the hold, or brings a cancelled transfer back as paid.
ClaimBlind(r) == TRUE   \* mutant: nothing is looked at under the lock
Fits(r) == IF r \in Holds THEN SeatsRemaining(soldSeen, reserved) >= SeatsFor(want[r])
           ELSE CanFulfil(want[r], soldSeen, reserved)
Claim(r) ==
  /\ lock = r /\ pc[r] = "asked"
  /\ Fits(r)
  /\ lock' = NoOne /\ soldSeen' = {}
  /\ pc' = [pc EXCEPT ![r] = IF r \in Cards THEN "stripe" ELSE "done"]
  /\ reserved' = reserved \cup ({r} \cap Cards)
  /\ status' = [status EXCEPT ![r] = IF r \in Cards THEN @
                                     ELSE IF r \in Holds THEN "live"
                                     ELSE IF @ = "cancelled" THEN "paid" ELSE "pending"]
  /\ UNCHANGED <<room, want, cancelledFrom, aged, stripe, causes>>

NoRoom(r) ==
  /\ lock = r /\ pc[r] = "asked"
  /\ ~Fits(r)
  /\ lock' = NoOne /\ soldSeen' = {}
  /\ pc' = [pc EXCEPT ![r] = "done"]
  /\ UNCHANGED <<room, want, status, cancelledFrom, aged, reserved, stripe, causes>>

\* stripe.checkout.sessions.create answers, or throws.
CreateSession(c) ==
  /\ pc[c] = "stripe"
  /\ \/ pc' = [pc EXCEPT ![c] = "book"] /\ session' = [session EXCEPT ![c] = "open"]
     \/ pc' = [pc EXCEPT ![c] = "failed"] /\ UNCHANGED session
  /\ UNCHANGED <<room, lock, soldSeen, want, status, cancelledFrom, aged, reserved, told, causes>>

\* Written without the lock and without looking at what is left.
CreatePendingBooking(c) ==
  /\ pc[c] = "book"
  /\ pc' = [pc EXCEPT ![c] = "release"]
  /\ status' = [status EXCEPT ![c] = "pending"]
  /\ causes' = causes \cup (IF c \in reserved THEN {} ELSE {"lapsed"})
  /\ UNCHANGED <<room, lock, soldSeen, want, cancelledFrom, aged, reserved, stripe>>

\* Dropped once the booking holds the seats, or by the route's finally; then the answer.
\* History: somebody with the lock may have read what is sold before this booking was there.
ReleaseReservation(c) ==
  /\ pc[c] \in {"release", "failed"}
  /\ reserved' = reserved \ {c}
  /\ pc' = [pc EXCEPT ![c] = IF @ = "release" THEN "replied" ELSE "done"]
  /\ causes' = causes \cup (IF lock # NoOne /\ c \in Sold \ soldSeen THEN {"handover"} ELSE {})
  /\ UNCHANGED <<room, lock, soldSeen, want, status, cancelledFrom, aged, stripe>>

\* The server dies: a transaction rolls back, everything else stays as it was.
Crash(r) ==
  /\ pc[r] \notin {"idle", "done", "replied"}
  /\ pc' = [pc EXCEPT ![r] = "done"]
  /\ lock' = IF lock = r THEN NoOne ELSE lock
  /\ soldSeen' = IF lock = r THEN {} ELSE soldSeen
  /\ UNCHANGED <<room, want, status, cancelledFrom, aged, reserved, stripe, causes>>
----------------------------------------------------------------------------
(* Stripe, its webhook, and the clock                                       *)

Pay(c) ==
  /\ session[c] = "open" /\ pc[c] = "replied"
  /\ session' = [session EXCEPT ![c] = "paid"]
  /\ UNCHANGED <<room, lock, soldSeen, want, pc, status, cancelledFrom, aged, reserved, told, causes>>

\* Its 30 minutes are over, or the page's fallback asked for another one and
\* retireReplacedCheckout expired it, which Stripe refuses once it is paid.
SessionCloses(c) ==
  /\ session[c] = "open"
  /\ session' = [session EXCEPT ![c] = "expired"]
  /\ UNCHANGED <<room, lock, soldSeen, want, pc, status, cancelledFrom, aged, reserved, told, causes>>

\* The second half of retireReplacedCheckout, only after Stripe has expired the session.
RetirableAny(c) == session[c] # "none"   \* mutant: cancelled though Stripe refused to expire the checkout
Retirable(c) == session[c] = "expired"
CancelReplacedCheckout(c) ==
  /\ Retirable(c) /\ status[c] = "pending"
  /\ status' = [status EXCEPT ![c] = "cancelled"]
  /\ UNCHANGED <<room, lock, soldSeen, want, pc, cancelledFrom, aged, reserved, stripe, causes>>

\* A payment is recorded whatever is left; one that comes after its booking stopped holding seats
\* is put in the audit log, with whether the room is now overbooked.  A booking that is no longer
\* pending is left as it is ("ball.already_paid").  That the row is missing cannot happen: a buyer
\* gets the checkout only after it is written.
PayableFrom(c) == status[c] = "pending"
MarkBookingPaid(c) ==
  /\ session[c] = "paid" /\ c \notin told
  /\ told' = told \cup {c}
  /\ status' = [status EXCEPT ![c] = IF PayableFrom(c) THEN "paid" ELSE @]
  /\ causes' = causes \cup (IF PayableFrom(c) /\ c \in aged THEN {"late"} ELSE {})
  /\ UNCHANGED <<room, lock, soldSeen, want, pc, cancelledFrom, aged, reserved, session>>

MarkBookingExpired(c) ==
  /\ session[c] = "expired" /\ c \notin told
  /\ told' = told \cup {c}
  /\ status' = [status EXCEPT ![c] = IF @ = "pending" THEN "cancelled" ELSE @]
  /\ UNCHANGED <<room, lock, soldSeen, want, pc, cancelledFrom, aged, reserved, session, causes>>

\* An hour after it was written, its checkout long closed.
HoldRunsOut(c) ==
  /\ status[c] = "pending" /\ session[c] # "open" /\ c \notin aged
  /\ aged' = aged \cup {c}
  /\ UNCHANGED <<room, lock, soldSeen, want, pc, status, cancelledFrom, reserved, stripe, causes>>

\* Two minutes after the claim.
ReservationRunsOut(c) ==
  /\ c \in reserved
  /\ SlowStripe \/ pc[c] \notin {"stripe", "book"}
  /\ reserved' = reserved \ {c}
  /\ causes' = causes \cup (IF lock # NoOne /\ c \in Sold \ soldSeen THEN {"handover"} ELSE {})
  /\ UNCHANGED <<room, lock, soldSeen, want, pc, status, cancelledFrom, aged, stripe>>
----------------------------------------------------------------------------
(* Staff                                                                    *)

\* Seats come back by themselves; Stripe is not told, and nothing is refunded.
CancellableAgain(b) == status[b] # "none"   \* mutant: a cancelled booking is cancelled again
Cancellable(b) == status[b] \in {"pending", "paid"}
CancelBooking(b) ==
  /\ Cancellable(b)
  /\ cancelledFrom' = [cancelledFrom EXCEPT ![b] = status[b]]
  /\ status' = [status EXCEPT ![b] = "cancelled"]
  /\ UNCHANGED <<room, lock, soldSeen, want, pc, aged, reserved, stripe, causes>>

\* A transfer that is pending, under the settings row's lock.
MarkTransferPaid(t) ==
  /\ status[t] = "pending" /\ lock = NoOne
  /\ status' = [status EXCEPT ![t] = "paid"]
  /\ UNCHANGED <<room, lock, soldSeen, want, pc, cancelledFrom, aged, reserved, stripe, causes>>

\* One that staff cancelled unpaid comes back, if there is room: LockSettings and Claim follow.
Reinstate(t) ==
  /\ status[t] = "cancelled" /\ cancelledFrom[t] = "pending" /\ pc[t] = "done"
  /\ pc' = [pc EXCEPT ![t] = "asked"]
  /\ UNCHANGED <<room, lock, soldSeen, want, status, cancelledFrom, aged, reserved, stripe, causes>>

\* Handed back, or past its deadline.
ReleaseHold(h) ==
  /\ status[h] = "live"
  /\ status' = [status EXCEPT ![h] = "released"]
  /\ UNCHANGED <<room, lock, soldSeen, want, pc, cancelledFrom, aged, reserved, stripe, causes>>

\* Any numbers are taken, what is sold or not; the UPDATE waits for the row.
UpdateSettings(s) ==
  /\ staffLeft > 0 /\ lock = NoOne /\ s # settings
  /\ settings' = s
  /\ staffLeft' = staffLeft - 1
  /\ causes' = causes \cup (IF s.tables < settings.tables \/ s.held > settings.held
                            THEN {"settings"} ELSE {})
  /\ UNCHANGED <<lock, soldSeen, want, pc, status, cancelledFrom, aged, reserved, stripe>>
----------------------------------------------------------------------------
ServerStep(r) ==
  \/ LockSettings(r) \/ Claim(r) \/ NoRoom(r)
  \/ r \in Cards /\ (CreateSession(r) \/ CreatePendingBooking(r) \/ ReleaseReservation(r))

ClockStep(c) == SessionCloses(c) \/ HoldRunsOut(c) \/ ReservationRunsOut(c)

Next ==
  \/ \E r \in Requests : (\E w \in Wants : Begin(r, w)) \/ ServerStep(r) \/ Crash(r)
  \/ \E c \in Cards : \/ Pay(c) \/ ClockStep(c)
                      \/ CancelReplacedCheckout(c) \/ MarkBookingPaid(c) \/ MarkBookingExpired(c)
  \/ \E b \in Bookings : CancelBooking(b)
  \/ \E t \in Transfers : MarkTransferPaid(t) \/ Reinstate(t)
  \/ \E h \in Holds : ReleaseHold(h)
  \/ \E s \in [tables : Tables, held : HeldSeats, closed : BOOLEAN] : UpdateSettings(s)

Spec == Init /\ [][Next]_vars

\* Time passes.  Nothing else is promised: not the webhook, not the server, not staff.
Fairness ==
  \A c \in Cards : WF_vars(HoldRunsOut(c)) /\ WF_vars(SessionCloses(c)) /\ WF_vars(ReservationRunsOut(c))
FairSpec == Spec /\ Fairness
----------------------------------------------------------------------------
(* What the room promises                                                   *)

\* The room holds everybody who was promised a place, each counted once: whole tables and the
\* tables the others break are no more than there are.
Overfull ==
  TablesSold(Sold) + Broken(PooledSeats(Sold, reserved \ Sold)) > settings.tables

\* The room is never overfilled unless staff cut it, a payment came an hour after its booking, a
\* reservation ran out under a slow Stripe, or a booking was handed over between the two reads of
\* somebody with the lock (claimReservation, createTransferBooking, createHold, markTransferPaid).
RoomKept == Overfull => causes # {}

\* "Never true by our own hand, because every booking is checked under a lock first. It can become
\* true when a card payment's confirmation arrives after its pending booking stopped holding
\* seats" (capacity.ts, overbooked); staff's own cut of the room is left out too.
NeverByOurOwnHand == Overfull => causes \cap {"settings", "late"} # {}

\* A payment Stripe took and told of is recorded, late or not, unless staff cancelled the booking:
\* retiring, expiring and the hour never cost a buyer their booking (markBookingPaid).
PaymentKept ==
  \A c \in told : session[c] = "paid" => status[c] = "paid" \/ cancelledFrom[c] # "none"

\* An abandoned card checkout gives its seats back, whatever died and whichever event was lost.
SeatsComeBack ==
  \A c \in Cards : c \in Sold \cup reserved ~> (c \notin Sold \cup reserved \/ status[c] = "paid")
=============================================================================
