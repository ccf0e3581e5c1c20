----------------------------- MODULE MCPayments -----------------------------
(* The ball's room, a monthly gift and gifts on their way to a claim, for   *)
(* TLC.                                                                     *)
EXTENDS Payments

CONSTANTS c1, t1, h1, g1, g2

SeatOrTable == {[kind |-> "seat", quantity |-> 1], [kind |-> "table", quantity |-> 1]}

\* One BACS gift, one tap, or a monthly gift and its first renewal.
Only(k) == [g \in Gifts |-> IF g = g1 THEN k ELSE "absent"]
Renewed == [g \in Gifts |-> IF g = g1 THEN "card" ELSE "renewal"]
Each    == {Only("bacs"), Only("tap"), Renewed}
=============================================================================
