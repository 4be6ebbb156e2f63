------------------------------ MODULE MCFaceHal ------------------------------
(***************************************************************************)
(* Instances of FaceHal for TLC.                                           *)
(***************************************************************************)
EXTENDS FaceHalRefinement, TLC

Symmetry == Permutations(Users) \cup Permutations(Sessions)

=============================================================================
