---------------------------- MODULE MCPaymentForm ----------------------------
(* Small instances of PaymentForm for TLC. *)
EXTENDS PaymentForm, TLC

Symmetry == Permutations(Forms) \cup Permutations(Payments) \cup Permutations(Calls)

=============================================================================
