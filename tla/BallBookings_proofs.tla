-------------------------- MODULE BallBookings_proofs --------------------------
(* The room of the ball is never sold twice and no payment for it is lost, for    *)
(* any number of buyers, of any orders, in a room of any size.                    *)
(*                                                                                *)
(* PaymentKept looks only at payments the webhook has handled, so what has to be  *)
(* kept is what it will find: from the moment a buyer can pay until the event is  *)
(* handled, the booking is there to be paid unless staff cancelled it.            *)
(*                                                                                *)
(* RoomKept counts tables and breaks them into seats; what is kept is that the    *)
(* seats of everybody with a place fit the room (the two are the same,            *)
(* SeatsOrTables), and that whoever has the lock, whose first look may be out of  *)
(* date by now, will find each booking written since among the reservations.      *)
EXTENDS BallBookings, SumTheorems, TLAPS

Typed ==
  /\ pc \in [Requests -> {"idle", "asked", "stripe", "book", "failed", "release", "replied", "done"}]
  /\ status \in [Requests -> {"none", "pending", "paid", "cancelled", "live", "released"}]
  /\ cancelledFrom \in [Bookings -> {"none", "pending", "paid"}]
  /\ session \in [Cards -> {"none", "open", "paid", "expired"}] /\ told \subseteq Cards

Kept(c) == status[c] \in {"pending", "paid"} \/ cancelledFrom[c] # "none"

\* Only a checkout whose buyer has been answered is paid, and a closed one is never paid.
CardFine(c) ==
  /\ pc[c] \in {"idle", "asked", "stripe"} => session[c] = "none"
  /\ session[c] = "paid" => pc[c] = "replied"
  /\ c \in told => session[c] \in {"paid", "expired"}
  /\ pc[c] \in {"release", "replied"} /\ session[c] # "expired" => Kept(c)
  /\ c \in told /\ session[c] = "paid" => status[c] = "paid" \/ cancelledFrom[c] # "none"

IInv == Typed /\ \A c \in Cards : CardFine(c)
-------------------------------------------------------------------------------
LEMMA InitIInv == Init => IInv
<1> SUFFICES ASSUME Init PROVE IInv
  OBVIOUS
<1>1. Typed
  BY DEF Init, Typed
<1>2. ASSUME NEW c \in Cards PROVE CardFine(c)
  BY DEF Init, CardFine, Requests, Bookings
<1> QED BY <1>1, <1>2 DEF IInv

\* What leaves a card's own row, checkout and request alone, or only moves the request where nothing
\* is said of it, keeps it fine.
LEMMA Elsewhere ==
  ASSUME NEW c \in Cards, CardFine(c),
         status'[c] = status[c], cancelledFrom'[c] = cancelledFrom[c], session'[c] = session[c],
         c \in told' <=> c \in told,
         \/ pc'[c] = pc[c]
         \/ pc[c] \in {"idle", "asked"} /\ pc'[c] \in {"asked", "stripe", "done"}
         \/ pc[c] # "replied" /\ pc'[c] = "done"
  PROVE  CardFine(c)'
  BY DEF CardFine, Kept

\* A request's own steps on the server.
LEMMA ServerSteps ==
  ASSUME IInv, NEW r \in Requests, (\E w \in Wants : Begin(r, w)) \/ ServerStep(r) \/ Crash(r)
  PROVE  IInv'
<1> USE DEF Requests, Bookings
<1>1. CASE (\E w \in Wants : Begin(r, w)) \/ LockSettings(r) \/ NoRoom(r) \/ Crash(r)
  <2>1. /\ UNCHANGED <<status, cancelledFrom, session, told>>
        /\ \/ UNCHANGED pc
           \/ pc[r] = "idle" /\ pc' = [pc EXCEPT ![r] = "asked"]
           \/ pc[r] # "replied" /\ pc' = [pc EXCEPT ![r] = "done"]
    BY <1>1 DEF Begin, LockSettings, NoRoom, Crash, stripe
  <2>2. Typed'
    BY <2>1 DEF IInv, Typed
  <2>3. ASSUME NEW c \in Cards PROVE CardFine(c)'
    BY <2>1, Elsewhere DEF IInv, Typed
  <2> QED BY <2>2, <2>3 DEF IInv
<1>2. CASE Claim(r)
  <2>1. /\ UNCHANGED <<cancelledFrom, session, told>> /\ pc[r] = "asked"
        /\ \E p \in {"stripe", "done"} : pc' = [pc EXCEPT ![r] = p]
        /\ \E s \in {"live", "paid", "pending", status[r]} : status' = [status EXCEPT ![r] = s]
        /\ r \in Cards => status' = [status EXCEPT ![r] = status[r]]
    BY <1>2 DEF Claim, stripe, IInv, Typed
  <2>2. Typed'
    BY <2>1 DEF IInv, Typed
  <2>3. ASSUME NEW c \in Cards PROVE CardFine(c)'
    BY <2>1, Elsewhere DEF IInv, Typed
  <2> QED BY <2>2, <2>3 DEF IInv
<1>3. CASE r \in Cards /\ CreateSession(r)
  <2>1. /\ UNCHANGED <<status, cancelledFrom, told>> /\ pc[r] = "stripe"
        /\ \/ pc' = [pc EXCEPT ![r] = "book"] /\ session' = [session EXCEPT ![r] = "open"]
           \/ pc' = [pc EXCEPT ![r] = "failed"] /\ UNCHANGED session
    BY <1>3 DEF CreateSession
  <2>2. Typed'
    BY <1>3, <2>1 DEF IInv, Typed
  <2>3. ASSUME NEW c \in Cards PROVE CardFine(c)'
    BY <1>3, <2>1 DEF IInv, Typed, CardFine, Kept
  <2> QED BY <2>2, <2>3 DEF IInv
<1>4. CASE r \in Cards /\ CreatePendingBooking(r)
  <2>1. /\ UNCHANGED <<cancelledFrom, session, told>> /\ pc[r] = "book"
        /\ pc' = [pc EXCEPT ![r] = "release"] /\ status' = [status EXCEPT ![r] = "pending"]
    BY <1>4 DEF CreatePendingBooking, stripe
  <2>2. Typed'
    BY <2>1 DEF IInv, Typed
  <2>3. ASSUME NEW c \in Cards PROVE CardFine(c)'
    BY <1>4, <2>1 DEF IInv, Typed, CardFine, Kept
  <2> QED BY <2>2, <2>3 DEF IInv
<1>5. CASE r \in Cards /\ ReleaseReservation(r)
  <2>1. /\ UNCHANGED <<status, cancelledFrom, session, told>>
        /\ \/ pc[r] = "release" /\ pc' = [pc EXCEPT ![r] = "replied"]
           \/ pc[r] = "failed" /\ pc' = [pc EXCEPT ![r] = "done"]
    BY <1>5 DEF ReleaseReservation, stripe, IInv, Typed
  <2>2. Typed'
    BY <2>1 DEF IInv, Typed
  <2>3. ASSUME NEW c \in Cards PROVE CardFine(c)'
    BY <1>5, <2>1 DEF IInv, Typed, CardFine, Kept
  <2> QED BY <2>2, <2>3 DEF IInv
<1> QED BY <1>1, <1>2, <1>3, <1>4, <1>5 DEF ServerStep

\* Stripe, the webhook, and the clock.
LEMMA StripeSteps ==
  ASSUME IInv, NEW r \in Cards,
         \/ Pay(r) \/ ClockStep(r)
         \/ CancelReplacedCheckout(r) \/ MarkBookingPaid(r) \/ MarkBookingExpired(r)
  PROVE  IInv'
<1> USE DEF Requests, Bookings
<1>1. UNCHANGED <<pc, cancelledFrom>>
  BY DEF Pay, ClockStep, SessionCloses, HoldRunsOut, ReservationRunsOut, CancelReplacedCheckout,
         MarkBookingPaid, MarkBookingExpired
<1>2. Typed'
  BY <1>1 DEF IInv, Typed, Pay, ClockStep, SessionCloses, HoldRunsOut, ReservationRunsOut, stripe,
         CancelReplacedCheckout, MarkBookingPaid, MarkBookingExpired
<1>3. ASSUME NEW c \in Cards PROVE CardFine(c)'
  <2>1. Typed /\ CardFine(c) /\ CardFine(r)
    BY DEF IInv
  <2>2. CASE Pay(r)
    BY <1>1, <2>1, <2>2 DEF Pay, Typed, CardFine, Kept
  <2>3. CASE SessionCloses(r)
    BY <1>1, <2>1, <2>3 DEF SessionCloses, Typed, CardFine, Kept
  <2>4. CASE HoldRunsOut(r) \/ ReservationRunsOut(r)
    BY <1>1, <2>1, <2>4, Elsewhere DEF HoldRunsOut, ReservationRunsOut, stripe
  <2>5. CASE CancelReplacedCheckout(r)
    BY <1>1, <2>1, <2>5 DEF CancelReplacedCheckout, Retirable, stripe, Typed, CardFine, Kept
  <2>6. CASE MarkBookingPaid(r)
    BY <1>1, <2>1, <2>6 DEF MarkBookingPaid, PayableFrom, Typed, CardFine, Kept
  <2>7. CASE MarkBookingExpired(r)
    BY <1>1, <2>1, <2>7 DEF MarkBookingExpired, Typed, CardFine, Kept
  <2> QED BY <2>2, <2>3, <2>4, <2>5, <2>6, <2>7 DEF ClockStep
<1> QED BY <1>2, <1>3 DEF IInv

\* Staff: a cancelled booking is marked so, and what they do to transfers and holds is about no card.
LEMMA StaffSteps ==
  ASSUME IInv,
         \/ \E b \in Bookings : CancelBooking(b)
         \/ \E t \in Transfers : MarkTransferPaid(t) \/ Reinstate(t)
         \/ \E h \in Holds : ReleaseHold(h)
         \/ \E s \in [tables : Tables, held : HeldSeats, closed : BOOLEAN] : UpdateSettings(s)
  PROVE  IInv'
<1> USE DEF Requests, Bookings
<1>1. ASSUME NEW b \in Bookings, CancelBooking(b) PROVE IInv'
  <2>1. /\ UNCHANGED <<pc, session, told>> /\ status[b] \in {"pending", "paid"}
        /\ cancelledFrom' = [cancelledFrom EXCEPT ![b] = status[b]]
        /\ status' = [status EXCEPT ![b] = "cancelled"]
    BY <1>1 DEF CancelBooking, Cancellable, stripe
  <2>2. Typed'
    BY <2>1 DEF IInv, Typed
  <2>3. ASSUME NEW c \in Cards PROVE CardFine(c)'
    BY <2>1 DEF IInv, Typed, CardFine, Kept
  <2> QED BY <2>2, <2>3 DEF IInv
<1>2. ASSUME NEW t \in Transfers \cup Holds, UNCHANGED <<cancelledFrom, session, told>>,
             \/ UNCHANGED status
             \/ \E s \in {"paid", "released"} : status' = [status EXCEPT ![t] = s],
             \/ UNCHANGED pc
             \/ pc' = [pc EXCEPT ![t] = "asked"]
      PROVE  IInv'
  <2>1. Typed'
    BY <1>2 DEF IInv, Typed
  <2>2. ASSUME NEW c \in Cards PROVE CardFine(c)'
    <3>1. c # t
      BY RequestsAssumption
    <3> QED BY <1>2, <3>1, Elsewhere DEF IInv, Typed
  <2> QED BY <2>1, <2>2 DEF IInv
<1>3. ASSUME NEW t \in Transfers, MarkTransferPaid(t) PROVE IInv'
  BY <1>2, <1>3 DEF MarkTransferPaid, stripe
<1>4. ASSUME NEW t \in Transfers, Reinstate(t) PROVE IInv'
  BY <1>2, <1>4 DEF Reinstate, stripe
<1>5. ASSUME NEW h \in Holds, ReleaseHold(h) PROVE IInv'
  BY <1>2, <1>5 DEF ReleaseHold, stripe
<1>6. ASSUME NEW s \in [tables : Tables, held : HeldSeats, closed : BOOLEAN], UpdateSettings(s) PROVE IInv'
  BY <1>6 DEF UpdateSettings, stripe, IInv, Typed, CardFine, Kept
<1> QED BY <1>1, <1>3, <1>4, <1>5, <1>6

\* A payment Stripe took and told of is recorded, late or not, unless staff cancelled the booking: neither
\* retireReplacedCheckout, nor an expired checkout, nor the hour costs a buyer their booking (markBookingPaid).
THEOREM PaymentsKept == Spec => []PaymentKept
<1>1. Init => IInv
  BY InitIInv
<1>2. IInv /\ [Next]_vars => IInv'
  <2> SUFFICES ASSUME IInv, [Next]_vars PROVE IInv'
    OBVIOUS
  <2>1. CASE UNCHANGED vars
    BY <2>1 DEF vars, IInv, Typed, CardFine, Kept
  <2>2. CASE Next
    BY <2>2, ServerSteps, StripeSteps, StaffSteps DEF Next
  <2> QED BY <2>1, <2>2
<1>3. IInv => PaymentKept
  <2> SUFFICES ASSUME IInv, NEW c \in told, session[c] = "paid"
               PROVE  status[c] = "paid" \/ cancelledFrom[c] # "none"
    BY DEF PaymentKept
  <2> QED BY DEF IInv, Typed, CardFine
<1> QED BY <1>1, <1>2, <1>3, PTL DEF Spec
-------------------------------------------------------------------------------
(* The room                                                                    *)

LEMMA InitTypes == Init => TypeOK
<1> SUFFICES ASSUME Init PROVE TypeOK
  OBVIOUS
<1>1. settings \in [tables : Tables, held : HeldSeats, closed : BOOLEAN] /\ staffLeft \in 0..MaxStaff
  <2>1. settings \in [tables : Tables, held : {0}, closed : {FALSE}] /\ 0 \in HeldSeats /\ FALSE \in BOOLEAN
    BY RoomAssumption DEF Init
  <2>2. staffLeft = MaxStaff /\ MaxStaff \in Nat
    BY RoomAssumption DEF Init
  <2>3. settings \in [tables : Tables, held : HeldSeats, closed : BOOLEAN]
    BY <2>1
  <2> QED BY <2>2, <2>3
<1>2. /\ pc \in [Requests -> {"idle", "asked", "stripe", "book", "failed", "release", "replied", "done"}]
      /\ want \in [Requests -> Wants \cup {Nothing}]
  BY DEF Init
<1>3. /\ status \in [Requests -> {"none", "pending", "paid", "cancelled", "live", "released"}]
      /\ cancelledFrom \in [Bookings -> {"none", "pending", "paid"}]
      /\ session \in [Cards -> {"none", "open", "paid", "expired"}]
  BY DEF Init
<1> QED BY <1>1, <1>2, <1>3 DEF Init, TypeOK

LEMMA TypesKept == TypeOK /\ [Next]_vars => TypeOK'
<1> SUFFICES ASSUME TypeOK, [Next]_vars PROVE TypeOK'
  OBVIOUS
<1> DEFINE PcType == pc \in [Requests -> {"idle", "asked", "stripe", "book", "failed", "release", "replied", "done"}]
           StatusType == status \in [Requests -> {"none", "pending", "paid", "cancelled", "live", "released"}]
           FromType == cancelledFrom \in [Bookings -> {"none", "pending", "paid"}]
           SessionType == session \in [Cards -> {"none", "open", "paid", "expired"}]
           SettingsType == settings \in [tables : Tables, held : HeldSeats, closed : BOOLEAN] /\ staffLeft \in 0..MaxStaff
           WantType == want \in [Requests -> Wants \cup {Nothing}]
           SetsType == /\ lock \in Requests \cup {NoOne} /\ soldSeen \subseteq Bookings
                       /\ aged \subseteq Cards /\ reserved \subseteq Cards /\ told \subseteq Cards
                       /\ causes \subseteq {"settings", "late", "lapsed", "handover"}
<1> USE DEF room, stripe
<1>0. /\ PcType /\ StatusType /\ FromType /\ SessionType /\ SettingsType /\ WantType /\ SetsType
      /\ TypeOK' <=> PcType' /\ StatusType' /\ FromType' /\ SessionType' /\ SettingsType' /\ WantType' /\ SetsType'
  BY DEF TypeOK
<1>1. CASE UNCHANGED vars
  BY <1>0, <1>1 DEF vars
<1>2. ASSUME NEW r \in Requests, (\E w \in Wants : Begin(r, w)) \/ LockSettings(r) \/ NoRoom(r) \/ Crash(r)
      PROVE  TypeOK'
  <2>1. PcType'
    BY <1>0, <1>2 DEF Begin, LockSettings, NoRoom, Crash
  <2>2. WantType'
    BY <1>0, <1>2 DEF Begin, LockSettings, NoRoom, Crash
  <2>3. StatusType' /\ FromType' /\ SessionType' /\ SettingsType'
    BY <1>0, <1>2 DEF Begin, LockSettings, NoRoom, Crash
  <2>4. SetsType'
    BY <1>0, <1>2 DEF Begin, LockSettings, NoRoom, Crash, Sold
  <2> QED BY <1>0, <2>1, <2>2, <2>3, <2>4
<1>3. ASSUME NEW r \in Requests, Claim(r) PROVE TypeOK'
  <2>1. PcType'
    BY <1>0, <1>3 DEF Claim
  <2>2. StatusType'
    BY <1>0, <1>3 DEF Claim
  <2>3. WantType' /\ FromType' /\ SessionType' /\ SettingsType' /\ SetsType'
    BY <1>0, <1>3 DEF Claim
  <2> QED BY <1>0, <2>1, <2>2, <2>3
<1>4. ASSUME NEW c \in Cards, CreateSession(c) \/ CreatePendingBooking(c) \/ ReleaseReservation(c) PROVE TypeOK'
  <2>1. PcType'
    BY <1>0, <1>4 DEF CreateSession, CreatePendingBooking, ReleaseReservation
  <2>2. SessionType'
    BY <1>0, <1>4 DEF CreateSession, CreatePendingBooking, ReleaseReservation
  <2>3. StatusType'
    BY <1>0, <1>4 DEF CreateSession, CreatePendingBooking, ReleaseReservation
  <2>4. WantType' /\ FromType' /\ SettingsType' /\ SetsType'
    BY <1>0, <1>4 DEF CreateSession, CreatePendingBooking, ReleaseReservation
  <2> QED BY <1>0, <2>1, <2>2, <2>3, <2>4
<1>5. ASSUME NEW c \in Cards, Pay(c) \/ ClockStep(c) PROVE TypeOK'
  <2>1. SessionType'
    BY <1>0, <1>5 DEF Pay, ClockStep, SessionCloses, HoldRunsOut, ReservationRunsOut
  <2>2. UNCHANGED <<settings, staffLeft, lock, soldSeen, want, pc, status, cancelledFrom, told>>
    BY <1>5 DEF Pay, ClockStep, SessionCloses, HoldRunsOut, ReservationRunsOut
  <2>3. /\ aged' \in {aged, aged \cup {c}} /\ reserved' \in {reserved, reserved \ {c}}
        /\ causes' \in {causes, causes \cup {"handover"}, causes \cup {}}
    BY <1>5 DEF Pay, ClockStep, SessionCloses, HoldRunsOut, ReservationRunsOut
  <2> QED BY <1>0, <2>1, <2>2, <2>3
<1>6. ASSUME NEW c \in Cards, CancelReplacedCheckout(c) \/ MarkBookingPaid(c) \/ MarkBookingExpired(c)
      PROVE  TypeOK'
  <2>1. \E s \in {"paid", "cancelled", status[c]} : status' = [status EXCEPT ![c] = s]
    BY <1>6 DEF CancelReplacedCheckout, MarkBookingPaid, MarkBookingExpired
  <2>2. StatusType'
    BY <1>0, <2>1
  <2>3. SetsType'
    <3>1. /\ UNCHANGED <<lock, soldSeen, aged, reserved>> /\ told' \in {told, told \cup {c}}
          /\ causes' \in {causes, causes \cup {"late"}, causes \cup {}}
      BY <1>6 DEF CancelReplacedCheckout, MarkBookingPaid, MarkBookingExpired
    <3> QED BY <1>0, <3>1
  <2>4. PcType' /\ SessionType' /\ WantType' /\ FromType' /\ SettingsType'
    BY <1>0, <1>6 DEF CancelReplacedCheckout, MarkBookingPaid, MarkBookingExpired
  <2> QED BY <1>0, <2>2, <2>3, <2>4
<1>7. ASSUME NEW b \in Bookings, CancelBooking(b) PROVE TypeOK'
  <2>1. StatusType'
    BY <1>0, <1>7 DEF CancelBooking
  <2>2. FromType'
    BY <1>0, <1>7 DEF CancelBooking, Cancellable
  <2>3. PcType' /\ SessionType' /\ WantType' /\ SettingsType' /\ SetsType'
    BY <1>0, <1>7 DEF CancelBooking
  <2> QED BY <1>0, <2>1, <2>2, <2>3
<1>8. ASSUME NEW t \in Transfers, MarkTransferPaid(t) \/ Reinstate(t) PROVE TypeOK'
  <2>1. PcType'
    BY <1>0, <1>8 DEF MarkTransferPaid, Reinstate
  <2>2. StatusType' /\ WantType' /\ FromType' /\ SessionType' /\ SettingsType' /\ SetsType'
    BY <1>0, <1>8 DEF MarkTransferPaid, Reinstate
  <2> QED BY <1>0, <2>1, <2>2
<1>9. ASSUME NEW h \in Holds, ReleaseHold(h) PROVE TypeOK'
  BY <1>0, <1>9 DEF ReleaseHold
<1>10. ASSUME NEW s \in [tables : Tables, held : HeldSeats, closed : BOOLEAN], UpdateSettings(s) PROVE TypeOK'
  <2>1. SettingsType' /\ SetsType'
    BY <1>0, <1>10, RoomAssumption DEF UpdateSettings
  <2>2. PcType' /\ StatusType' /\ FromType' /\ SessionType' /\ WantType'
    BY <1>0, <1>10 DEF UpdateSettings
  <2> QED BY <1>0, <2>1, <2>2
<1> QED BY <1>1, <1>2, <1>3, <1>4, <1>5, <1>6, <1>7, <1>8, <1>9, <1>10 DEF Next, ServerStep

\* Everybody with a place: those sold, those reserved and the holds.
Taken == Sold \cup reserved \cup Held
SeatsTaken == SumFunctionOnSet(SeatsWanted, Taken) + settings.held

\* While nothing has let it be overfilled, the places taken fit the room; and whoever has the lock counts
\* each booking sold since they looked as a reservation.
Fitting == causes = {} => SeatsTaken <= settings.tables * Seats
Counted == causes = {} /\ lock # NoOne => Sold \subseteq soldSeen \cup reserved
\* A request asks once, and has no place before it did.
AsksOnce == \A r \in Requests : IF pc[r] = "idle" THEN status[r] = "none" /\ r \notin reserved
                                ELSE want[r] \in Wants

RoomIInv == TypeOK /\ Fitting /\ Counted /\ AsksOnce
-------------------------------------------------------------------------------
(* Arithmetic of seats and tables                                              *)

LEMMA SeatsNat == ASSUME NEW a \in Nat, NEW s \in Nat PROVE a * s \in Nat
OBVIOUS

LEMMA MoreTables == ASSUME NEW s \in Nat, NEW a \in Nat, NEW b \in Nat, a <= b PROVE a * s <= b * s
<1>1. PICK d \in Nat : b = a + d
  <2>1. b - a \in Nat /\ b = a + (b - a)
    OBVIOUS
  <2> QED BY <2>1
<1>2. b * s = a * s + d * s /\ a * s \in Nat /\ d * s \in Nat
  BY <1>1
<1> QED BY <1>2

\* How many tables a number of seats breaks.
LEMMA BrokenIs ==
  ASSUME NEW seats \in Nat
  PROVE  /\ Broken(seats) \in Nat
         /\ seats <= Broken(seats) * Seats /\ Broken(seats) * Seats <= seats + Seats - 1
<1>1. Seats \in Nat /\ Seats > 0
  BY RoomAssumption
<1>2. PICK s \in Nat : s > 0 /\ s = Seats
  BY <1>1
<1>3. \A a \in Nat : /\ a \div s \in Nat
                     /\ a - (s - 1) <= (a \div s) * s /\ (a \div s) * s <= a
  BY <1>2
<1>4. seats + s - 1 \in Nat
  BY <1>2
<1> QED BY <1>2, <1>3, <1>4 DEF Broken

\* Tables sold and tables broken fit the room just when the seats of both do.
LEMMA SeatsOrTables ==
  ASSUME NEW sold \in Nat, NEW seats \in Nat, NEW tables \in Nat
  PROVE  sold + Broken(seats) <= tables <=> sold * Seats + seats <= tables * Seats
<1>1. PICK s \in Nat : s > 0 /\ s = Seats
  BY RoomAssumption
<1>2. PICK b \in Nat : b = Broken(seats) /\ seats <= b * s /\ b * s <= seats + s - 1
  BY <1>1, BrokenIs
<1>3. /\ sold * s \in Nat /\ b * s \in Nat /\ tables * s \in Nat
      /\ (sold + b) * s = sold * s + b * s /\ (tables + 1) * s = tables * s + s
  BY <1>1
<1>4. CASE sold + b <= tables
  <2>1. (sold + b) * s <= tables * s
    BY <1>1, <1>4, MoreTables
  <2> QED BY <1>1, <1>2, <1>3, <1>4, <2>1
<1>5. CASE ~(sold + b <= tables)
  <2>1. (tables + 1) * s <= (sold + b) * s
    BY <1>1, <1>5, MoreTables
  <2>2. sold * s + seats > tables * s
    BY <1>1, <1>2, <1>3, <2>1
  <2> QED BY <1>1, <1>2, <1>3, <1>5, <2>2
<1> QED BY <1>4, <1>5
-------------------------------------------------------------------------------
\* What everybody asks for is counted in seats, and there are finitely many of them.
LEMMA WantedSeats ==
  ASSUME TypeOK
  PROVE  /\ IsFiniteSet(Requests)
         /\ \A r \in Requests : /\ SeatsWanted[r] \in Nat /\ Quantities[r] \in Nat
                                /\ want[r].kind \in {"seat", "table"}
                                /\ want[r].kind = "table" => SeatsWanted[r] = Seats * Quantities[r]
                                /\ want[r].kind = "seat" => SeatsWanted[r] = Quantities[r]
<1>1. ASSUME NEW r \in Requests PROVE want[r].kind \in {"seat", "table"} /\ want[r].quantity \in Nat
  BY RoomAssumption DEF TypeOK, Nothing
<1>2. Seats \in Nat
  BY RoomAssumption
<1>3. ASSUME NEW r \in Requests
      PROVE  Quantities[r] = want[r].quantity /\ SeatsWanted[r] = SeatsFor(want[r])
  BY DEF Quantities, SeatsWanted
<1>4. ASSUME NEW q \in Nat PROVE q * Seats \in Nat /\ q * Seats = Seats * q
  BY <1>2
<1>5. ASSUME NEW r \in Requests
      PROVE  /\ SeatsFor(want[r]) \in Nat
             /\ want[r].kind = "table" => SeatsFor(want[r]) = Seats * want[r].quantity
             /\ want[r].kind = "seat" => SeatsFor(want[r]) = want[r].quantity
  BY <1>1, <1>4 DEF SeatsFor
<1> QED BY <1>1, <1>3, <1>5, RequestsAssumption

LEMMA SomeRequests ==
  ASSUME TypeOK, NEW S \in SUBSET Requests
  PROVE  /\ IsFiniteSet(S) /\ \A r \in S : SeatsWanted[r] \in Nat /\ Quantities[r] \in Nat
         /\ SumFunctionOnSet(SeatsWanted, S) \in Nat /\ SumFunctionOnSet(Quantities, S) \in Nat
<1>1. IsFiniteSet(S)
  BY WantedSeats, FS_Subset
<1>2. (\A r \in S : SeatsWanted[r] \in Nat) /\ (\A r \in S : Quantities[r] \in Nat)
  BY WantedSeats
<1> QED BY <1>1, <1>2, SumNat

\* The seats of some bookings: those of the whole tables and the loose ones.
LEMMA SeatsOfBookings ==
  ASSUME TypeOK, NEW B \in SUBSET Bookings
  PROVE  /\ TablesSold(B) \in Nat /\ LooseSeats(B) \in Nat
         /\ SumFunctionOnSet(SeatsWanted, B) = TablesSold(B) * Seats + LooseSeats(B)
<1> DEFINE T == {b \in B : want[b].kind = "table"}
           L == {b \in B : want[b].kind = "seat"}
<1>1. T \in SUBSET Requests /\ L \in SUBSET Requests /\ T \cap L = {} /\ T \cup L = B
  BY WantedSeats DEF Requests
<1>2. TablesSold(B) = SumFunctionOnSet(Quantities, T) /\ LooseSeats(B) = SumFunctionOnSet(Quantities, L)
  BY DEF TablesSold, LooseSeats
<1>3. /\ \A b \in T : SeatsWanted[b] = Seats * Quantities[b]
      /\ \A b \in L : SeatsWanted[b] = Quantities[b]
  BY <1>1, WantedSeats
<1> HIDE DEF T, L
<1>4. /\ IsFiniteSet(T) /\ IsFiniteSet(L) /\ \A b \in T \cup L : SeatsWanted[b] \in Nat
      /\ SumFunctionOnSet(Quantities, T) \in Nat /\ SumFunctionOnSet(Quantities, L) \in Nat
      /\ \A b \in T : Quantities[b] \in Nat
  BY <1>1, SomeRequests
<1>5. SumFunctionOnSet(SeatsWanted, T \cup L) = SumFunctionOnSet(SeatsWanted, T) + SumFunctionOnSet(SeatsWanted, L)
  BY <1>1, <1>4, SumDisjoint
<1>6. SumFunctionOnSet(SeatsWanted, T) = Seats * SumFunctionOnSet(Quantities, T)
  <2> DEFINE f == Quantities
             h == SeatsWanted
  <2>1. PICK k \in Nat : k = Seats
    BY RoomAssumption
  <2>2. \A b \in T : f[b] \in Nat /\ h[b] = k * f[b]
    BY <1>3, <1>4, <2>1
  <2> HIDE DEF f, h
  <2>3. SumFunctionOnSet(h, T) = k * SumFunctionOnSet(f, T)
    BY <1>4, <2>2, SumTimes
  <2> QED BY <2>1, <2>3 DEF f, h
<1>7. SumFunctionOnSet(SeatsWanted, L) = SumFunctionOnSet(Quantities, L)
  BY <1>3, <1>4, SumAgree
<1>8. SumFunctionOnSet(SeatsWanted, B) = SumFunctionOnSet(SeatsWanted, T \cup L)
  BY <1>1, Zenon
<1>9. \A n \in Nat : Seats * n = n * Seats
  BY RoomAssumption
<1> QED BY <1>2, <1>4, <1>5, <1>6, <1>7, <1>8, <1>9

\* All that is sold, reserved or held, in seats.
Counting(B, R) ==
  SumFunctionOnSet(SeatsWanted, B) + settings.held + SumFunctionOnSet(SeatsWanted, R \cup Held)

LEMMA PooledIs ==
  ASSUME TypeOK, NEW B \in SUBSET Bookings, NEW R \in SUBSET Cards
  PROVE  /\ TablesSold(B) \in Nat /\ PooledSeats(B, R) \in Nat
         /\ Counting(B, R) = TablesSold(B) * Seats + PooledSeats(B, R)
<1>1. R \cup Held \in SUBSET Requests /\ settings.held \in Nat
  BY RoomAssumption DEF Requests, Bookings, Held, TypeOK
<1>2. SumFunctionOnSet(SeatsWanted, R \cup Held) \in Nat
  BY <1>1, SomeRequests
<1>3. /\ TablesSold(B) \in Nat /\ LooseSeats(B) \in Nat
      /\ SumFunctionOnSet(SeatsWanted, B) = TablesSold(B) * Seats + LooseSeats(B)
  BY SeatsOfBookings
<1>4. TablesSold(B) * Seats \in Nat
  BY <1>3, RoomAssumption, SeatsNat
<1> QED BY <1>1, <1>2, <1>3, <1>4 DEF PooledSeats, Counting

\* The room is overfull just when more seats are taken than it has.
LEMMA OverfullIs ==
  ASSUME TypeOK
  PROVE  SeatsTaken \in Nat /\ (Overfull <=> ~(SeatsTaken <= settings.tables * Seats))
<1> DEFINE rest == reserved \ Sold
<1>1. /\ Sold \in SUBSET Bookings /\ rest \in SUBSET Cards /\ settings.tables \in Nat /\ settings.held \in Nat
      /\ Sold \cap (rest \cup Held) = {} /\ Sold \cup (rest \cup Held) = Taken
      /\ rest \cup Held \in SUBSET Requests /\ Sold \in SUBSET Requests
  BY RequestsAssumption, RoomAssumption DEF Sold, Held, Taken, Requests, Bookings, TypeOK
<1>2. Overfull <=> ~(TablesSold(Sold) + Broken(PooledSeats(Sold, rest)) <= settings.tables)
  <2>1. TablesSold(Sold) \in Nat /\ PooledSeats(Sold, rest) \in Nat
    BY <1>1, PooledIs
  <2>2. Broken(PooledSeats(Sold, rest)) \in Nat
    BY <2>1, BrokenIs
  <2> QED BY <1>1, <2>1, <2>2 DEF Overfull
<1> HIDE DEF rest
<1>3. /\ TablesSold(Sold) \in Nat /\ PooledSeats(Sold, rest) \in Nat
      /\ Counting(Sold, rest) = TablesSold(Sold) * Seats + PooledSeats(Sold, rest)
  BY <1>1, PooledIs
<1>4. Overfull <=> ~(Counting(Sold, rest) <= settings.tables * Seats)
  BY <1>1, <1>2, <1>3, SeatsOrTables
<1>5. SumFunctionOnSet(SeatsWanted, Taken)
        = SumFunctionOnSet(SeatsWanted, Sold) + SumFunctionOnSet(SeatsWanted, rest \cup Held)
  <2>1. IsFiniteSet(Sold) /\ IsFiniteSet(rest \cup Held)
        /\ \A r \in Sold \cup (rest \cup Held) : SeatsWanted[r] \in Nat
    BY <1>1, SomeRequests
  <2>2. SumFunctionOnSet(SeatsWanted, Sold \cup (rest \cup Held))
          = SumFunctionOnSet(SeatsWanted, Sold) + SumFunctionOnSet(SeatsWanted, rest \cup Held)
    BY <1>1, <2>1, SumDisjoint
  <2> QED BY <1>1, <2>2
<1>6. SumFunctionOnSet(SeatsWanted, Sold) \in Nat /\ SumFunctionOnSet(SeatsWanted, rest \cup Held) \in Nat
  BY <1>1, SomeRequests
<1>7. SeatsTaken = Counting(Sold, rest) /\ SeatsTaken \in Nat
  BY <1>1, <1>5, <1>6 DEF SeatsTaken, Counting
<1> QED BY <1>4, <1>7
-------------------------------------------------------------------------------
(* A claim                                                                     *)

LEMMA TablesLeft ==
  ASSUME NEW s \in Nat, NEW tables \in Nat, NEW sold \in Nat
  PROVE  (tables - sold) * s = tables * s - sold * s
OBVIOUS

\* What is found to fit, fits: with the claim the seats of what was seen are no more than the room's.
LEMMA ClaimFits ==
  ASSUME TypeOK, NEW r \in Requests, want[r] \in Wants, Fits(r)
  PROVE  Counting(soldSeen, reserved) + SeatsWanted[r] <= settings.tables * Seats
<1>1. /\ soldSeen \in SUBSET Bookings /\ reserved \in SUBSET Cards
      /\ settings.tables \in Nat /\ want[r].quantity \in Nat \ {0} /\ want[r].kind \in {"seat", "table"}
  BY RoomAssumption DEF TypeOK
<1>2. PICK sold \in Nat, pooled \in Nat :
        /\ sold = TablesSold(soldSeen) /\ pooled = PooledSeats(soldSeen, reserved)
        /\ Counting(soldSeen, reserved) = sold * Seats + pooled
  BY <1>1, PooledIs
<1>3. PICK s \in Nat : s > 0 /\ s = Seats
  BY RoomAssumption
<1>4. PICK t \in Nat : t = settings.tables
  BY <1>1
<1>5. PICK q \in Nat : q > 0 /\ q = want[r].quantity
  BY <1>1
<1>6. PICK n \in Nat : n = SeatsWanted[r]
  BY WantedSeats
<1>7. n = SeatsFor(want[r])
  BY <1>6 DEF SeatsWanted
<1>8. /\ sold * s \in Nat /\ t * s \in Nat /\ q * s \in Nat
  BY SeatsNat
<1>9. n > 0
  <2>1. q * s > 0
    BY <1>3, <1>5
  <2> QED BY <1>1, <1>3, <1>5, <1>7, <2>1 DEF SeatsFor
<1>10. CASE SeatsRemaining(soldSeen, reserved) >= n
  <2>1. (t - sold) * s = t * s - sold * s
    BY TablesLeft
  <2>2. SeatsRemaining(soldSeen, reserved)
          = IF (t - sold) * s - pooled > 0 THEN (t - sold) * s - pooled ELSE 0
    BY <1>2, <1>3, <1>4 DEF SeatsRemaining
  <2>3. t * s - sold * s - pooled >= n
    BY <1>8, <1>9, <1>10, <2>1, <2>2
  <2> QED BY <1>2, <1>3, <1>4, <1>6, <1>8, <2>3
<1>11. CASE want[r].kind = "table" /\ TablesRemaining(soldSeen, reserved) >= q
  <2>1. PICK b \in Nat : b = Broken(pooled)
    BY BrokenIs
  <2>2. t - sold - b >= q
    BY <1>2, <1>4, <1>11, <2>1 DEF TablesRemaining
  <2>3. (sold + q) + Broken(pooled) <= t
    BY <2>1, <2>2
  <2>4. sold + q \in Nat
    OBVIOUS
  <2>5. (sold + q) * Seats + pooled <= t * Seats
    BY <2>3, <2>4, SeatsOrTables
  <2>6. (sold + q) * s = sold * s + q * s
    OBVIOUS
  <2>7. n = q * s
    BY <1>3, <1>5, <1>7, <1>11 DEF SeatsFor
  <2>8. sold * s + q * s + pooled <= t * s
    BY <1>3, <2>5, <2>6
  <2> QED BY <1>2, <1>3, <1>4, <1>6, <1>8, <2>7, <2>8
<1>12. \/ SeatsRemaining(soldSeen, reserved) >= n
       \/ want[r].kind = "table" /\ TablesRemaining(soldSeen, reserved) >= q
  <2>1. r \notin Holds /\ want[r].kind # "table" => n = q
    BY <1>5, <1>7 DEF SeatsFor
  <2> QED BY <1>5, <1>7, <2>1 DEF Fits, CanFulfil
<1> QED BY <1>10, <1>11, <1>12

\* So after it the places taken fit the room, for whoever has the lock saw all that is sold or reserved.
LEMMA ClaimKeepsFitting ==
  ASSUME RoomIInv, TypeOK', NEW r \in Requests, Claim(r)
  PROVE  Fitting'
<1> SUFFICES ASSUME causes' = {} PROVE SeatsTaken' <= settings'.tables * Seats
  BY DEF Fitting
<1> DEFINE Seen == soldSeen
           Promised == reserved \cup Held
           All == Seen \cup Promised
<1>1. /\ UNCHANGED <<settings, want, aged>> /\ causes = {} /\ lock = r /\ lock # NoOne /\ pc[r] = "asked"
      /\ Fits(r)
  BY RequestsAssumption DEF Claim, room
<1>2. TypeOK /\ want[r] \in Wants /\ Sold \subseteq Seen \cup reserved
  BY <1>1 DEF RoomIInv, AsksOnce, Counted
<1>3. Counting(soldSeen, reserved) + SeatsWanted[r] <= settings.tables * Seats
  BY <1>1, <1>2, ClaimFits
<1>4. Taken' \in SUBSET (All \cup {r})
  <2>1. reserved' \subseteq reserved \cup {r} /\ \A x \in Requests : x # r => status'[x] = status[x]
    BY <1>2 DEF Claim, TypeOK
  <2>2. Held' \subseteq Held \cup {r} /\ Sold' \subseteq Sold \cup {r}
    BY <1>1, <2>1 DEF Held, Sold, Requests, Bookings
  <2> QED BY <1>2, <2>1, <2>2 DEF Taken
<1>5. Seen \in SUBSET Requests /\ Promised \in SUBSET Requests /\ All \in SUBSET Requests
      /\ {r} \in SUBSET Requests /\ All \cup {r} \in SUBSET Requests /\ Taken' \in SUBSET Requests
  BY <1>2, <1>4 DEF TypeOK, Requests, Bookings, Held
<1>6. SeatsWanted' = SeatsWanted
  BY <1>1 DEF SeatsWanted
<1>7. settings.held \in Nat /\ settings.tables * Seats \in Nat
  BY <1>2, RoomAssumption, SeatsNat DEF TypeOK
<1>8. Counting(soldSeen, reserved)
        = SumFunctionOnSet(SeatsWanted, Seen) + settings.held + SumFunctionOnSet(SeatsWanted, Promised)
  BY DEF Counting
<1>9. SeatsTaken' = SumFunctionOnSet(SeatsWanted, Taken') + settings.held
  BY <1>1, <1>6 DEF SeatsTaken
<1> DEFINE Sum(S) == SumFunctionOnSet(SeatsWanted, S)
<1> HIDE DEF Seen, Promised
<1>10. Sum(Taken') <= Sum(All \cup {r})
  BY <1>2, <1>4, <1>5, SomeRequests, SumSubset
<1>11. Sum(All \cup {r}) <= Sum(All) + Sum({r})
  <2>1. IsFiniteSet(All) /\ IsFiniteSet({r}) /\ \A x \in All \cup {r} : SeatsWanted[x] \in Nat
    BY <1>2, <1>5, SomeRequests
  <2> HIDE DEF All
  <2> QED BY <2>1, SumUnion
<1>12. Sum(All) <= Sum(Seen) + Sum(Promised)
  <2>1. IsFiniteSet(Seen) /\ IsFiniteSet(Promised) /\ \A x \in Seen \cup Promised : SeatsWanted[x] \in Nat
    BY <1>2, <1>5, SomeRequests
  <2> QED BY <2>1, SumUnion
<1>13. Sum({r}) = SeatsWanted[r]
  <2>1. SeatsWanted[r] \in Nat /\ IsFiniteSet({r}) /\ r \in {r} /\ {r} \ {r} = {}
    BY <1>2, <1>5, SomeRequests
  <2>2. SumFunctionOnSet(SeatsWanted, {r}) = SeatsWanted[r] + SumFunctionOnSet(SeatsWanted, {r} \ {r})
    BY <2>1, SumRemove
  <2>3. SumFunctionOnSet(SeatsWanted, {r} \ {r}) = 0
    BY <2>1, SumEmpty
  <2> QED BY <2>1, <2>2, <2>3
<1>14. /\ Sum(Taken') \in Nat /\ Sum(All \cup {r}) \in Nat /\ Sum(All) \in Nat /\ Sum({r}) \in Nat
       /\ Sum(Seen) \in Nat /\ Sum(Promised) \in Nat
  BY <1>2, <1>5, SomeRequests
<1>15. PICK a \in Nat, b \in Nat, c \in Nat, d \in Nat, e \in Nat, f \in Nat :
         /\ a = Sum(Taken') /\ b = Sum(All \cup {r}) /\ c = Sum(All) /\ d = Sum({r})
         /\ e = Sum(Seen) /\ f = Sum(Promised)
  BY <1>14
<1>16. e + settings.held + f + d <= settings.tables * Seats
  BY <1>3, <1>8, <1>13, <1>15
<1>17. a <= b /\ b <= c + d /\ c <= e + f
  BY <1>10, <1>11, <1>12, <1>15
<1>18. a + settings.held <= settings.tables * Seats
  BY <1>7, <1>16, <1>17
<1> QED BY <1>1, <1>9, <1>15, <1>18
-------------------------------------------------------------------------------
(* Every other step                                                            *)

\* Where nobody new gets a place, nobody who has one asks for more, and the room is not cut, it still fits.
LEMMA FewerFit ==
  ASSUME TypeOK, TypeOK', Fitting, causes' = {} => causes = {},
         Taken' \subseteq Taken, \A r \in Taken' : want'[r] = want[r],
         settings'.tables >= settings.tables, settings'.held <= settings.held
  PROVE  Fitting'
<1> SUFFICES ASSUME causes' = {} PROVE SeatsTaken' <= settings'.tables * Seats
  BY DEF Fitting
<1>1. Taken \in SUBSET Requests /\ Taken' \in SUBSET Taken /\ Taken' \in SUBSET Requests
  BY DEF Taken, Sold, Held, TypeOK, Requests, Bookings
<1>2. \A r \in Taken' : SeatsWanted'[r] = SeatsWanted[r]
  BY <1>1 DEF SeatsWanted
<1> DEFINE before == Taken
           after  == Taken'
           then   == SeatsWanted
           now    == SeatsWanted'
<1>3. /\ IsFiniteSet(before) /\ IsFiniteSet(after) /\ after \in SUBSET before
      /\ \A r \in before : then[r] \in Nat
      /\ SumFunctionOnSet(then, before) \in Nat /\ SumFunctionOnSet(then, after) \in Nat
      /\ \A r \in after : now[r] = then[r]
  BY <1>1, <1>2, SomeRequests
<1>4. /\ SeatsTaken = SumFunctionOnSet(then, before) + settings.held
      /\ SeatsTaken' = SumFunctionOnSet(now, after) + settings'.held
  BY DEF SeatsTaken
<1>5. SeatsTaken <= settings.tables * Seats
  BY DEF Fitting
<1> HIDE DEF before, after, then, now
<1>6. SumFunctionOnSet(then, after) <= SumFunctionOnSet(then, before)
  BY <1>3, SumSubset
<1>7. SumFunctionOnSet(now, after) = SumFunctionOnSet(then, after)
  BY <1>3, SumAgree
<1>8. PICK t \in Nat, u \in Nat, h \in Nat, k \in Nat, s \in Nat :
        t = settings.tables /\ u = settings'.tables /\ h = settings.held /\ k = settings'.held /\ s = Seats
  BY RoomAssumption DEF TypeOK
<1>9. t * s <= u * s /\ t * s \in Nat /\ u * s \in Nat
  BY <1>8, MoreTables, SeatsNat
<1>10. PICK a \in Nat, b \in Nat : a = SumFunctionOnSet(then, after) /\ b = SumFunctionOnSet(then, before)
  BY <1>3
<1> QED BY <1>4, <1>5, <1>6, <1>7, <1>8, <1>9, <1>10

\* So a step that changes neither what is asked for nor the settings, and one request's status at most.
LEMMA QuietStep ==
  ASSUME RoomIInv, TypeOK', NEW r \in Requests, pc[r] # "idle",
         UNCHANGED <<settings, want>>, causes' = {} => causes = {}, aged \subseteq aged',
         \A x \in Requests \ {r} : status'[x] = status[x],
         \A x \in Requests : pc'[x] = "idle" <=> pc[x] = "idle",
         reserved' \subseteq reserved,
         causes' = {} => \/ status'[r] = status[r]
                         \/ status'[r] \in {"none", "cancelled", "released"}
                         \/ r \in Sold \cup reserved' /\ status'[r] \in {"pending", "paid"} /\ r \notin Holds,
         causes' = {} /\ lock' # NoOne =>
           \/ lock' = lock /\ soldSeen' = soldSeen /\ Sold \cap reserved \subseteq soldSeen \cup reserved'
           \/ Sold' \subseteq soldSeen'
  PROVE  Fitting' /\ Counted' /\ AsksOnce'
<1> USE DEF Requests, Bookings
<1>1. causes' = {} => Sold' \subseteq Sold \cup (reserved' \cap {r})
  BY RequestsAssumption DEF Sold
<1>2. causes' = {} => Held' \subseteq Held
  BY DEF Held
<1>3. Fitting'
  <2>1. causes' = {} => Taken' \subseteq Taken
    BY <1>1, <1>2 DEF Taken
  <2>2. /\ settings' = settings /\ \A x \in Taken' : want'[x] = want[x]
        /\ settings.tables \in Nat /\ settings.held \in Nat
    BY RoomAssumption DEF RoomIInv, TypeOK
  <2>3. settings'.tables >= settings.tables /\ settings'.held <= settings.held
    BY <2>2
  <2>4. TypeOK /\ Fitting
    BY DEF RoomIInv
  <2>5. CASE causes' = {}
    BY <2>1, <2>2, <2>3, <2>4, <2>5, FewerFit
  <2>6. CASE causes' # {}
    BY <2>6 DEF Fitting
  <2> QED BY <2>5, <2>6
<1>4. Counted'
  <2> SUFFICES ASSUME causes' = {}, lock' # NoOne PROVE Sold' \subseteq soldSeen' \cup reserved'
    BY DEF Counted
  <2>1. CASE Sold' \subseteq soldSeen'
    BY <2>1
  <2>2. CASE lock' = lock /\ soldSeen' = soldSeen /\ Sold \cap reserved \subseteq soldSeen \cup reserved'
    <3>1. Sold \subseteq soldSeen \cup reserved
      BY <2>2 DEF RoomIInv, Counted
    <3> QED BY <1>1, <2>2, <3>1
  <2> QED BY <2>1, <2>2
<1>5. AsksOnce'
  <2> SUFFICES ASSUME NEW x \in Requests
               PROVE  IF pc'[x] = "idle" THEN status'[x] = "none" /\ x \notin reserved'
                                         ELSE want'[x] \in Wants
    BY DEF AsksOnce
  <2>1. IF pc[x] = "idle" THEN status[x] = "none" /\ x \notin reserved ELSE want[x] \in Wants
    BY DEF RoomIInv, AsksOnce
  <2> QED BY <2>1
<1> QED BY <1>3, <1>4, <1>5

\* A request, as far as staff's settings and the lock go: Begin and Claim are the steps that are not quiet.
LEMMA RoomServerSteps ==
  ASSUME RoomIInv, TypeOK', NEW r \in Requests, (\E w \in Wants : Begin(r, w)) \/ ServerStep(r) \/ Crash(r)
  PROVE  Fitting' /\ Counted' /\ AsksOnce'
<1> USE DEF Requests, Bookings, room, stripe
<1>0. TypeOK /\ Fitting /\ Counted /\ AsksOnce
  BY DEF RoomIInv
<1>1. ASSUME NEW w \in Wants, Begin(r, w) PROVE Fitting' /\ Counted' /\ AsksOnce'
  <2>1. /\ UNCHANGED <<settings, lock, soldSeen, status, aged, reserved, causes>>
        /\ pc[r] = "idle" /\ \A x \in Requests : want'[x] = IF x = r THEN w ELSE want[x]
        /\ pc'[r] = "asked" /\ \A x \in Requests \ {r} : pc'[x] = pc[x]
    BY <1>0, <1>1 DEF Begin, TypeOK
  <2>2. Sold' = Sold /\ Held' = Held /\ Taken' = Taken
    BY <2>1 DEF Sold, Held, Taken
  <2>3. r \notin Taken
    BY <1>0, <2>1 DEF AsksOnce, Taken, Sold, Held
  <2>4. Taken \subseteq Requests
    BY <1>0 DEF Taken, Sold, Held, TypeOK
  <2>5. settings'.tables >= settings.tables /\ settings'.held <= settings.held
    <3>1. settings.tables \in Nat /\ settings.held \in Nat
      BY <1>0, RoomAssumption DEF TypeOK
    <3> QED BY <2>1, <3>1
  <2>6. \A x \in Taken' : want'[x] = want[x]
    BY <2>1, <2>2, <2>3, <2>4
  <2>7. Fitting'
    BY <1>0, <2>1, <2>2, <2>5, <2>6, FewerFit
  <2>8. Counted'
    BY <1>0, <2>1, <2>2 DEF Counted
  <2>9. AsksOnce'
    BY <1>0, <2>1 DEF AsksOnce
  <2> QED BY <2>7, <2>8, <2>9
<1>2. CASE Claim(r)
  <2>1. /\ UNCHANGED want /\ lock' = NoOne /\ pc[r] = "asked"
        /\ pc'[r] \in {"stripe", "done"} /\ \A x \in Requests \ {r} : pc'[x] = pc[x] /\ status'[x] = status[x]
        /\ reserved' \subseteq reserved \cup {r}
    BY <1>0, <1>2 DEF Claim, TypeOK
  <2>2. Fitting'
    BY <1>2, ClaimKeepsFitting
  <2>3. Counted'
    BY <2>1 DEF Counted
  <2>4. AsksOnce'
    BY <1>0, <2>1 DEF AsksOnce
  <2> QED BY <2>2, <2>3, <2>4
<1>3. CASE LockSettings(r)
  <2>1. /\ UNCHANGED <<settings, want, causes, aged, status, pc, reserved>> /\ pc[r] # "idle"
        /\ soldSeen' = Sold
    BY <1>3 DEF LockSettings
  <2>2. Sold' = Sold
    BY <2>1 DEF Sold
  <2> QED BY <2>1, <2>2, QuietStep
<1>4. CASE NoRoom(r) \/ Crash(r) \/ (r \in Cards /\ CreateSession(r))
  <2>1. /\ UNCHANGED <<settings, want, causes, aged, status, reserved>> /\ pc[r] # "idle"
        /\ pc'[r] \in {"done", "book", "failed"} /\ \A x \in Requests \ {r} : pc'[x] = pc[x]
        /\ lock' = NoOne \/ (lock' = lock /\ soldSeen' = soldSeen)
    BY <1>0, <1>4 DEF NoRoom, Crash, CreateSession, TypeOK
  <2> QED BY <2>1, QuietStep
<1>5. CASE r \in Cards /\ CreatePendingBooking(r)
  <2>1. /\ UNCHANGED <<settings, want, aged, reserved, lock, soldSeen>> /\ pc[r] # "idle"
        /\ pc'[r] = "release" /\ status'[r] = "pending"
        /\ \A x \in Requests \ {r} : pc'[x] = pc[x] /\ status'[x] = status[x]
    BY <1>0, <1>5 DEF CreatePendingBooking, TypeOK
  <2>2. causes' = {} => causes = {} /\ r \in reserved
    BY <1>5 DEF CreatePendingBooking
  <2>3. r \notin Holds
    BY <1>5, RequestsAssumption
  <2> QED BY <2>1, <2>2, <2>3, QuietStep
<1>6. CASE r \in Cards /\ ReleaseReservation(r)
  <2>1. /\ UNCHANGED <<settings, want, aged, status, lock, soldSeen>> /\ pc[r] # "idle"
        /\ pc'[r] \in {"replied", "done"} /\ \A x \in Requests \ {r} : pc'[x] = pc[x]
        /\ reserved' = reserved \ {r}
    BY <1>0, <1>6 DEF ReleaseReservation, TypeOK
  <2>2. causes' = {} => causes = {} /\ (lock # NoOne => r \notin Sold \ soldSeen)
    BY <1>6 DEF ReleaseReservation
  <2>3. causes' = {} /\ lock' # NoOne => Sold \cap reserved \subseteq soldSeen \cup reserved'
    BY <2>1, <2>2
  <2> QED BY <2>1, <2>2, <2>3, QuietStep
<1> QED BY <1>1, <1>2, <1>3, <1>4, <1>5, <1>6 DEF ServerStep

\* A step that is about nobody's place.
LEMMA NobodysPlace ==
  ASSUME RoomIInv, UNCHANGED <<settings, lock, soldSeen, want, pc, status, aged, reserved>>,
         causes' = {} => causes = {}
  PROVE  Fitting' /\ Counted' /\ AsksOnce'
<1>1. Sold' = Sold /\ Held' = Held /\ Taken' = Taken /\ SeatsWanted' = SeatsWanted
  BY DEF Sold, Held, Taken, SeatsWanted
<1>2. SeatsTaken' = SeatsTaken
  BY <1>1 DEF SeatsTaken
<1> QED BY <1>1, <1>2 DEF RoomIInv, Fitting, Counted, AsksOnce

\* Stripe, the webhook and the clock: a payment that came in time is of a booking that still counts.
LEMMA RoomStripeSteps ==
  ASSUME RoomIInv, TypeOK', NEW c \in Cards,
         \/ Pay(c) \/ ClockStep(c)
         \/ CancelReplacedCheckout(c) \/ MarkBookingPaid(c) \/ MarkBookingExpired(c)
  PROVE  Fitting' /\ Counted' /\ AsksOnce'
<1> USE DEF Requests, Bookings, room, stripe
<1>0. TypeOK /\ AsksOnce
  BY DEF RoomIInv
<1>1. CASE Pay(c) \/ SessionCloses(c)
  BY <1>1, NobodysPlace DEF Pay, SessionCloses
<1>2. CASE HoldRunsOut(c)
  <2>1. /\ UNCHANGED <<settings, want, causes, pc, status, reserved, lock, soldSeen>> /\ aged \subseteq aged'
        /\ pc[c] # "idle"
    BY <1>0, <1>2 DEF HoldRunsOut, AsksOnce
  <2> QED BY <2>1, QuietStep
<1>3. CASE ReservationRunsOut(c)
  <2>1. /\ UNCHANGED <<settings, want, aged, status, lock, soldSeen, pc>> /\ pc[c] # "idle"
        /\ reserved' = reserved \ {c}
    BY <1>0, <1>3 DEF ReservationRunsOut, AsksOnce
  <2>2. causes' = {} => causes = {} /\ (lock # NoOne => c \notin Sold \ soldSeen)
    BY <1>3 DEF ReservationRunsOut
  <2>3. causes' = {} /\ lock' # NoOne => Sold \cap reserved \subseteq soldSeen \cup reserved'
    BY <2>1, <2>2
  <2> QED BY <2>1, <2>2, <2>3, QuietStep
<1>4. CASE CancelReplacedCheckout(c) \/ MarkBookingPaid(c) \/ MarkBookingExpired(c)
  <2>1. /\ UNCHANGED <<settings, want, aged, reserved, lock, soldSeen, pc>> /\ (causes' = {} => causes = {})
        /\ \A x \in Requests \ {c} : status'[x] = status[x]
    BY <1>0, <1>4 DEF CancelReplacedCheckout, MarkBookingPaid, MarkBookingExpired, TypeOK
  <2>2. CASE status[c] = "pending"
    <3>1. pc[c] # "idle"
      BY <1>0, <2>2 DEF AsksOnce
    <3>2. causes' = {} => status'[c] = "cancelled" \/ (status'[c] = "paid" /\ c \in Sold)
      BY <1>0, <1>4, <2>2
      DEF CancelReplacedCheckout, MarkBookingPaid, MarkBookingExpired, PayableFrom, TypeOK, Sold
    <3>3. c \notin Holds
      BY RequestsAssumption
    <3> QED BY <2>1, <3>1, <3>2, <3>3, QuietStep
  <2>3. CASE status[c] # "pending"
    <3>1. UNCHANGED status
      BY <1>0, <1>4, <2>3 DEF CancelReplacedCheckout, MarkBookingPaid, MarkBookingExpired, PayableFrom, TypeOK
    <3> QED BY <2>1, <3>1, NobodysPlace
  <2> QED BY <2>2, <2>3
<1> QED BY <1>1, <1>2, <1>3, <1>4 DEF ClockStep

\* Staff: what they cancel or hand back frees seats, and a transfer they take as paid still counted.
LEMMA RoomStaffSteps ==
  ASSUME RoomIInv, TypeOK',
         \/ \E b \in Bookings : CancelBooking(b)
         \/ \E t \in Transfers : MarkTransferPaid(t) \/ Reinstate(t)
         \/ \E h \in Holds : ReleaseHold(h)
         \/ \E s \in [tables : Tables, held : HeldSeats, closed : BOOLEAN] : UpdateSettings(s)
  PROVE  Fitting' /\ Counted' /\ AsksOnce'
<1> USE DEF Requests, Bookings, room, stripe
<1>0. TypeOK /\ Fitting /\ Counted /\ AsksOnce
  BY DEF RoomIInv
<1>1. ASSUME NEW x \in Requests, \/ x \in Bookings /\ CancelBooking(x)
                                 \/ x \in Holds /\ ReleaseHold(x)
      PROVE  Fitting' /\ Counted' /\ AsksOnce'
  <2>1. /\ UNCHANGED <<settings, want, causes, aged, pc, reserved, lock, soldSeen>>
        /\ status[x] # "none" /\ status'[x] \in {"cancelled", "released"}
        /\ \A y \in Requests \ {x} : status'[y] = status[y]
    BY <1>0, <1>1 DEF CancelBooking, Cancellable, ReleaseHold, TypeOK
  <2>2. pc[x] # "idle"
    BY <1>0, <2>1 DEF AsksOnce
  <2> QED BY <2>1, <2>2, QuietStep
<1>2. ASSUME NEW t \in Transfers, MarkTransferPaid(t) PROVE Fitting' /\ Counted' /\ AsksOnce'
  <2>1. /\ UNCHANGED <<settings, want, causes, aged, pc, reserved, lock, soldSeen>>
        /\ status[t] = "pending" /\ status'[t] = "paid"
        /\ \A y \in Requests \ {t} : status'[y] = status[y]
    BY <1>0, <1>2 DEF MarkTransferPaid, TypeOK
  <2>2. pc[t] # "idle"
    BY <1>0, <2>1 DEF AsksOnce
  <2>3. t \in Sold /\ t \notin Holds
    BY <1>0, <2>1, RequestsAssumption DEF TypeOK, Sold
  <2> QED BY <2>1, <2>2, <2>3, QuietStep
<1>3. ASSUME NEW t \in Transfers, Reinstate(t) PROVE Fitting' /\ Counted' /\ AsksOnce'
  <2>1. /\ UNCHANGED <<settings, want, causes, aged, status, reserved, lock, soldSeen>> /\ pc[t] # "idle"
        /\ pc'[t] = "asked" /\ \A y \in Requests \ {t} : pc'[y] = pc[y]
    BY <1>0, <1>3 DEF Reinstate, TypeOK
  <2> QED BY <2>1, QuietStep
<1>4. ASSUME NEW s \in [tables : Tables, held : HeldSeats, closed : BOOLEAN], UpdateSettings(s)
      PROVE  Fitting' /\ Counted' /\ AsksOnce'
  <2>1. UNCHANGED <<lock, soldSeen, want, pc, status, aged, reserved>> /\ lock = NoOne /\ settings' = s
    BY <1>4 DEF UpdateSettings
  <2>2. causes' = {} => causes = {} /\ ~(s.tables < settings.tables \/ s.held > settings.held)
    BY <1>4 DEF UpdateSettings
  <2>3. Sold' = Sold /\ Held' = Held /\ Taken' = Taken
    BY <2>1 DEF Sold, Held, Taken
  <2>4. /\ settings.tables \in Nat /\ settings.held \in Nat /\ s.tables \in Nat /\ s.held \in Nat
    BY <1>0, RoomAssumption DEF TypeOK
  <2>5. Fitting'
    <3>1. CASE causes' = {}
      <4>1. settings'.tables >= settings.tables /\ settings'.held <= settings.held
        BY <2>1, <2>2, <2>4, <3>1
      <4>2. \A x \in Taken' : want'[x] = want[x]
        BY <2>1
      <4> QED BY <1>0, <2>2, <2>3, <4>1, <4>2, FewerFit
    <3>2. CASE causes' # {}
      BY <3>2 DEF Fitting
    <3> QED BY <3>1, <3>2
  <2>6. Counted' /\ AsksOnce'
    BY <1>0, <2>1 DEF Counted, AsksOnce
  <2> QED BY <2>5, <2>6
<1> QED BY <1>1, <1>2, <1>3, <1>4

\* At the start the room is empty and staff keep no seats back.
LEMMA InitRoom == Init => RoomIInv
<1> SUFFICES ASSUME Init PROVE RoomIInv
  OBVIOUS
<1>1. TypeOK
  BY InitTypes
<1>2. Sold = {} /\ Held = {} /\ Taken = {}
  BY DEF Init, Sold, Held, Taken, Requests, Bookings
<1>3. settings.held = 0 /\ settings.tables \in Nat
  BY RoomAssumption DEF Init
<1>4. SeatsTaken = 0 /\ 0 <= settings.tables * Seats
  <2>1. SumFunctionOnSet(SeatsWanted, Taken) = 0
    BY <1>2, SumEmpty
  <2>2. settings.tables * Seats \in Nat
    BY <1>3, RoomAssumption, SeatsNat
  <2> QED BY <1>3, <2>1, <2>2 DEF SeatsTaken
<1>5. Fitting /\ Counted
  BY <1>2, <1>4 DEF Fitting, Counted
<1>6. AsksOnce
  BY DEF Init, AsksOnce
<1> QED BY <1>1, <1>5, <1>6 DEF RoomIInv

LEMMA RoomStep == RoomIInv /\ [Next]_vars => RoomIInv'
<1> SUFFICES ASSUME RoomIInv, [Next]_vars PROVE RoomIInv'
  OBVIOUS
<1>1. TypeOK'
  BY TypesKept DEF RoomIInv
<1>2. CASE UNCHANGED vars
  BY <1>1, <1>2, NobodysPlace DEF vars, RoomIInv
<1>3. CASE Next
  BY <1>1, <1>3, RoomServerSteps, RoomStripeSteps, RoomStaffSteps DEF Next, RoomIInv
<1> QED BY <1>2, <1>3

\* Every variable of the ball keeps its type.
THEOREM TypeCorrect == Spec => []TypeOK
BY InitTypes, TypesKept, PTL DEF Spec

\* The room holds everybody who was promised a place, each counted once, unless staff cut it, a payment came an
\* hour after its booking, a reservation ran out under a slow Stripe, or a booking was handed over between the two
\* reads of somebody with the lock (claimReservation, createTransferBooking, createHold).
THEOREM RoomIsKept == Spec => []RoomKept
<1>1. RoomIInv => RoomKept
  <2> SUFFICES ASSUME RoomIInv, Overfull, causes = {} PROVE FALSE
    BY DEF RoomKept
  <2>1. TypeOK /\ Fitting
    BY DEF RoomIInv
  <2>2. ~(SeatsTaken <= settings.tables * Seats)
    BY <2>1, OverfullIs
  <2> QED BY <2>1, <2>2 DEF Fitting
<1> QED BY <1>1, InitRoom, RoomStep, PTL DEF Spec
===============================================================================
