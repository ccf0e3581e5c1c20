---------------------------- MODULE MCTwoAdmins ----------------------------
(* Two admins refund the same booking, for TLC.  Two races need different   *)
(* instances, so the first state chooses: two refunds of one line of two    *)
(* tickets, or one refund asked again while calls take time and Stripe's    *)
(* keys run out.                                                            *)
EXTENDS TicketRefunds, TLC

CONSTANTS ann, bob, adult

VARIABLE race

Slow == INSTANCE TicketRefunds WITH
  Quantity <- [l \in Lines |-> 1], KeyHours <- 2, MaxCall <- 1, MaxRows <- 1, MaxClock <- 3

OnePound    == [l \in Lines |-> 1]
Two         == [l \in Lines |-> 2]
AdminsAlike == Permutations(Admins)

RaceInit ==
  \/ race = "tickets" /\ Init
  \/ race = "keys" /\ Slow!Init
RaceTickets == race = "tickets" /\ Next /\ UNCHANGED race
RaceKeys    == race = "keys" /\ Slow!Next /\ UNCHANGED race

RaceNext == RaceTickets \/ RaceKeys
RaceSpec == RaceInit /\ [][RaceNext]_<<race, vars>>
=============================================================================
