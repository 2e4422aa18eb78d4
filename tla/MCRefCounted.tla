---------------------------- MODULE MCRefCounted ----------------------------
(* RefCountedProps with the model values of the configurations: two threads, *)
(* a contained and an uncontained object, three smart pointer variables.     *)
EXTENDS RefCountedProps
=============================================================================
