----------------------------- MODULE MCEditProfile -----------------------------
(* Small instances of EditProfile for TLC. *)
EXTENDS EditProfile, TLC

Symmetry == Permutations(Pages) \cup Permutations(Saves) \cup Permutations(Pictures)

=============================================================================
