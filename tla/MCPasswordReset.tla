---------------------------- MODULE MCPasswordReset ----------------------------
(* PasswordReset on small instances. *)
EXTENDS PasswordReset, TLC

Symmetry == Permutations(Tokens) \cup Permutations(Resets)
=============================================================================
