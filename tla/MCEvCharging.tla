---------------------------- MODULE MCEvCharging ----------------------------
EXTENDS EvCharging, TLC

Symmetric == Permutations(Hold) \cup Permutations(Session) \cup Permutations(Call)
=============================================================================
