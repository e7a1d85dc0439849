------------------------------ MODULE MC_Outbox -----------------------------
(* Two messages: one mails two people of a seller's, one the operator whose  *)
(* address is vouched for; two drain loops.  The operations inbox, for want  *)
(* of an operator, is the same single address.                               *)
EXTENDS Outbox, TLC
CONSTANTS m1, m2, p, q, o
TopicDef == (m1 :> "seller") @@ (m2 :> "operators")
SellersDef == <<p, q>>
OperatorsDef == <<o>>
InboxDef == <<o>>
=============================================================================
