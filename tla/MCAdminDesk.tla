----------------------------- MODULE MCAdminDesk -----------------------------
(* A small instance of AdminDesk for TLC. *)
EXTENDS AdminDesk

=============================================================================
