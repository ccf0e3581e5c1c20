-------------------------- MODULE MCNewsletterSend --------------------------
(* Small instances of NewsletterSend for TLC.                               *)
EXTENDS NewsletterSend

CONSTANT w1

NoCap == <<0>>
Doubling == <<1, 2>>
=============================================================================
