--------------------------- MODULE MCPspCheckout ---------------------------
(* Instances of PspCheckout for TLC. *)
EXTENDS PspCheckout, TLC

Symmetric == Permutations(Purchase) \cup Permutations(Bill) \cup Permutations(Staff)
=============================================================================
