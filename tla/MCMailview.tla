----------------------------- MODULE MCMailview -----------------------------
(* One browser and one other device. *)
EXTENDS Mailview
CONSTANTS m1, m2
=============================================================================
