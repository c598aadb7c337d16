---------------------------- MODULE MCAccountViews ----------------------------
(* A small instance of AccountViews for TLC. *)
EXTENDS AccountViews

=============================================================================
