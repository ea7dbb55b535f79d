-------------------------- MODULE MCPartnerPayable --------------------------
EXTENDS PartnerPayable, TLC

Symmetric == Permutations(Settlement) \cup Permutations(Person)
             \cup Permutations(Ref) \cup Permutations(Call)
=============================================================================
