----------------------------- MODULE MCOutbound -----------------------------
(* One mail: mails do not interact. *)
EXTENDS Outbound

CONSTANT m1
=============================================================================
