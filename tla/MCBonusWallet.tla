---------------------------- MODULE MCBonusWallet ----------------------------
EXTENDS BonusWallet, TLC

Symmetric == Permutations(Reservation) \cup Permutations(Sweeper)
=============================================================================
