---------------------------- MODULE MCDeferredLot ----------------------------
(* Instances of DeferredLot for TLC. *)
EXTENDS DeferredLot, TLC

Symmetric == Permutations(Purchase)
=============================================================================
