-------------------------- MODULE MCPaymentRefund --------------------------
(* Instances of PaymentRefund for TLC. *)
EXTENDS PaymentRefund, TLC

Symmetric == Permutations(Refund) \cup Permutations(Settler) \cup Permutations(Sweeper)
=============================================================================
