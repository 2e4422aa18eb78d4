------------------------------- MODULE MCLowIo -------------------------------
EXTENDS LowIoProps, TLC

Symmetry == Permutations(Objects) \cup Permutations(Pointers) \cup Permutations(Addresses)
=============================================================================
