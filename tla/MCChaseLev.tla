---------------------------- MODULE MCChaseLev ----------------------------
EXTENDS ChaseLev, TLC

(* Items are interchangeable, and so are thieves. *)
Symmetry == Permutations(Item) \cup Permutations(Thief)
=============================================================================
