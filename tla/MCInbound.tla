----------------------------- MODULE MCInbound -----------------------------
(* One mail with one attachment and two mailboxes: mails do not interact. *)
EXTENDS Inbound

CONSTANTS m1, b1, b2, p1

MCPartsOf == [m \in {m1} |-> Parts]
=============================================================================
