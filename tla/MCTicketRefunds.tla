-------------------------- MODULE MCTicketRefunds --------------------------
(* Small instances of TicketRefunds for TLC.                               *)
EXTENDS TicketRefunds, TLC

CONSTANTS ann, adult

OnePound == [l \in Lines |-> 1]
One      == [l \in Lines |-> 1]
Two      == [l \in Lines |-> 2]
=============================================================================
