---------------------------- MODULE MCSimpleVector ----------------------------
EXTENDS SimpleVectorProps

Interchangeable == Permutations(Vectors) \cup Permutations(Values)
=============================================================================
