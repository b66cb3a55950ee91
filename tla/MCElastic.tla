----------------------------- MODULE MCElastic -----------------------------
EXTENDS Elastic, TLC

(* All workers but the first are interchangeable. *)
Symmetry == Permutations(Worker \ {First})
=============================================================================
