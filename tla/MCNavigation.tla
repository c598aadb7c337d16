----------------------------- MODULE MCNavigation -----------------------------
(* Small instances of Navigation for TLC. *)
EXTENDS Navigation, TLC

Symmetry == Permutations(Users) \cup Permutations(Calls)

=============================================================================
