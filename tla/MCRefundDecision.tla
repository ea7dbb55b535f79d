-------------------------- MODULE MCRefundDecision --------------------------
EXTENDS RefundDecision, TLC

Symmetric == Permutations(Approver) \cup Permutations(Call)
=============================================================================
