---------------------------- MODULE MCGenerateJobs ----------------------------
(***************************************************************************)
(* Instances of GenerateJobs for TLC.  Switches do not influence each      *)
(* other: a run's limit may name others only and its output may fail at    *)
(* another one's file, so one switch shows what any number would.          *)
(***************************************************************************)
EXTENDS GenerateJobs
=============================================================================
