----------------------------- MODULE MCBackups -----------------------------
(* Schedules: off, or every day. *)
EXTENDS Backups

MCSchedules == {{}, Days}
=============================================================================
