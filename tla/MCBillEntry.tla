----------------------------- MODULE MCBillEntry -----------------------------
(* Small instances of BillEntry for TLC. *)
EXTENDS BillEntry

=============================================================================
