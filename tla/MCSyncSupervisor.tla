-------------------------- MODULE MCSyncSupervisor --------------------------
(* SyncSupervisor for TLC: two clients at once, so that a second one could be. *)
EXTENDS SyncSupervisor
=============================================================================
