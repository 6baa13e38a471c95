------------------------------ MODULE MCRenewal ------------------------------
EXTENDS Renewal, TLC

(* Nothing tells orders apart before they are placed. *)
Symmetry == Permutations(Order)
=============================================================================
