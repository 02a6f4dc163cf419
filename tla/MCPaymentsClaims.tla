-------------------------- MODULE MCPaymentsClaims ---------------------------
(* Instances of Payments on which the texts are refuted. *)
EXTENDS PaymentsClaims, MCPayments

==============================================================================
