--------------------------- MODULE MCTicketSales ---------------------------
(* Small instances of TicketSales for TLC.                                 *)
EXTENDS TicketSales, TLC

CONSTANTS o1, o2, adult, child

\* Two requests, of one buyer or of two.
SameEmail == [o \in Orders |-> "ann"]
TwoEmails == [o \in Orders |-> IF o = o1 THEN "ann" ELSE "bob"]
SameIp    == [o \in Orders |-> "home"]
NoIps     == [o \in Orders |-> NoIp]

OneAdult == {[t \in Types |-> IF t = adult THEN 1 ELSE 0]}
OneEach  == {[t \in Types |-> IF t = u THEN 1 ELSE 0] : u \in Types}

Unlimited == {NoLimit}
One       == {1}
OneOrNone == {1, NoLimit}
=============================================================================
