---------------------------- MODULE MCContentTree ----------------------------
(***************************************************************************)
(* Instances of ContentTree for TLC.                                       *)
(***************************************************************************)
EXTENDS ContentTree, TLC

Symmetry == Permutations(Questions) \union Permutations(Answers) \union Permutations(Workers)
=============================================================================
