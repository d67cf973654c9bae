---------------------------- MODULE MCKReferences ----------------------------
(* A few objects, some of them held by q, and calls three deep. *)
EXTENDS KReferencesProps, TLC
ObjectSymmetry == Permutations(Objects)
=============================================================================
