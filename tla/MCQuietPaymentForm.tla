-------------------------- MODULE MCQuietPaymentForm --------------------------
(* Small instances of QuietPaymentForm for TLC. *)
EXTENDS QuietPaymentForm

=============================================================================
