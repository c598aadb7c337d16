------------------------------- MODULE MCSignUp -------------------------------
(* Small instances of SignUp for TLC. *)
EXTENDS SignUp, TLC

Symmetry == Permutations(Attempts) \cup Permutations(Requests)

=============================================================================
