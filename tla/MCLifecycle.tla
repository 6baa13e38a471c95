---------------------------- MODULE MCLifecycle ----------------------------
(* Instances of OrderLifecycle for TLC.  The goroutines of the server are  *)
(* interchangeable, and so are the intents of the provider.                *)
EXTENDS OrderLifecycle, TLC

Symmetry == Permutations(Api) \cup Permutations(Intent)
=============================================================================
