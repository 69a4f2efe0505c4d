----------------------------- MODULE MCSwitchJobs -----------------------------
(* Instances of SwitchJobs for TLC. *)
EXTENDS SwitchJobs
=============================================================================
