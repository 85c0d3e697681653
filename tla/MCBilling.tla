------------------------------ MODULE MCBilling ------------------------------
(* Small instances of Billing. *)
EXTENDS Billing
=============================================================================
