----------------------------- MODULE MCReactions -----------------------------
(***************************************************************************)
(* Instances of Reactions for TLC.                                         *)
(***************************************************************************)
EXTENDS Reactions, TLC

Symmetry == Permutations(Users) \union Permutations(Workers)
=============================================================================
