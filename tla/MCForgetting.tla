---------------------------- MODULE MCForgetting ----------------------------
(* Instances of Forgetting for TLC. *)
EXTENDS Forgetting, TLC

Symmetry == Permutations(Receipts) \union Permutations(Records)
=============================================================================
