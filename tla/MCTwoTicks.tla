----------------------------- MODULE MCTwoTicks -----------------------------
(* Two ticks at once, for TLC.  Two races need different instances, so the  *)
(* first state chooses: both spend what is left of the day's cap, of one,   *)
(* with three recipients to send to; or, uncapped, they share batches of    *)
(* two while servers die, the provider is full and an admin interferes.     *)
(* CapHolds speaks of the first: the second, of two recipients, cannot pass *)
(* its bound.                                                               *)
EXTENDS NewsletterSend, TLC

CONSTANTS w1, w2

VARIABLE race

Uncapped == INSTANCE NewsletterSend WITH
  Recipients <- {1, 2}, OldFailures <- {1}, PerTick <- 2, CapOn <- <<0>>,
  MaxCrashes <- 1, MaxDefers <- 1, MaxAdmin <- 1

OneADay == <<1>>
WorkersAlike == Permutations(Workers)

RaceInit ==
  \/ race = "cap" /\ Init
  \/ race = "queue" /\ Uncapped!Init
RaceCap   == race = "cap" /\ Next /\ UNCHANGED race
RaceQueue == race = "queue" /\ Uncapped!Next /\ UNCHANGED race

RaceNext == RaceCap \/ RaceQueue
RaceSpec == RaceInit /\ [][RaceNext]_<<race, vars>>
=============================================================================
