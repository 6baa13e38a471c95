----------------------------- MODULE MCCheckout -----------------------------
EXTENDS Checkout, TLC

(* Goroutines, ids and the contents of requests are interchangeable. *)
Symmetry == Permutations(Proc) \cup Permutations(Body) \cup Permutations(Coid)
=============================================================================
