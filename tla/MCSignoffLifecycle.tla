------------------------- MODULE MCSignoffLifecycle -------------------------
(* SignoffLifecycle for TLC *)
EXTENDS SignoffLifecycle, TLC

Symmetry == Permutations(Client) \cup Permutations(Request)
=============================================================================
