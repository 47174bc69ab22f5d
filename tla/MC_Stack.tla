-------------------------------- MODULE MC_Stack --------------------------------
EXTENDS Stack, TLC

\* Addresses are only compared with each other.
Symmetry == Permutations(Srcs) \cup Permutations(Dsts)
================================================================================
