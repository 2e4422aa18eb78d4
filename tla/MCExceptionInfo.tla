--------------------------- MODULE MCExceptionInfo ---------------------------
EXTENDS ExceptionInfoProps, TLC

Symmetry == Permutations(Objects) \cup Permutations(Blocks)
=============================================================================
