----------------------------- MODULE MCSession ------------------------------
(* Instances of SessionManager for TLC. *)
EXTENDS SessionManager, TLC

Symmetry == Permutations(Callers) \cup Permutations(Stops)
=============================================================================
