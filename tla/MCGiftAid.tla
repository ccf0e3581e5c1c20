------------------------------ MODULE MCGiftAid ------------------------------
(* A monthly gift and its first renewal, for TLC.                           *)
EXTENDS GiftAid

CONSTANTS g1, g2

Renewed == {[g \in Gifts |-> IF g = g1 THEN "card" ELSE "renewal"]}
=============================================================================
