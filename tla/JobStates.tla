------------------------------ MODULE JobStates ------------------------------
(***************************************************************************)
(* The vocabulary of the durable workflow: the states and checkpoints of a *)
(* workflow job and the two tables every other module reads, the legal     *)
(* status changes and the order of the checkpoints.                        *)
(*                                                                         *)
(* Source: jobs/lifecycle.py; migration 008 repeats both tables in SQL.    *)
(***************************************************************************)
EXTENDS Naturals

(* A worker holds a lease on the job exactly in these states.              *)
ActiveStates ==
  {"analyzing", "generating_patch", "validating_patch", "creating_pr"}

TerminalStates == {"completed", "failed", "rejected", "cancelled"}

WaitingStates ==
  {"queued", "retry_scheduled", "awaiting_approval", "approved"}

JobState == ActiveStates \cup TerminalStates \cup WaitingStates

AllowedTransitions ==
  [s \in JobState |->
     CASE s = "queued"            -> ActiveStates \cup {"cancelled"}
       [] s = "analyzing"         -> {"queued", "generating_patch",
                                      "completed", "retry_scheduled",
                                      "failed", "cancelled"}
       [] s = "generating_patch"  -> {"queued", "validating_patch",
                                      "retry_scheduled", "failed", "cancelled"}
       [] s = "validating_patch"  -> {"awaiting_approval", "retry_scheduled",
                                      "failed", "cancelled"}
       [] s = "awaiting_approval" -> {"approved", "rejected", "cancelled"}
       [] s = "approved"          -> {"creating_pr", "cancelled"}
       [] s = "creating_pr"       -> {"completed", "retry_scheduled", "failed"}
       [] s = "retry_scheduled"   -> {"queued", "failed", "cancelled"}
       [] s \in TerminalStates    -> {}]

(* Checkpoints name durable finished work; they are compared by position.  *)
CheckpointOrder ==
  [submitted |-> 0, analysis_completed |-> 1, patch_generated |-> 2,
   patch_validated |-> 3, approval_recorded |-> 4, pr_created |-> 5]

JobCheckpoint == DOMAIN CheckpointOrder

(* The checkpoint a stage starts from: the begin_... and complete_...      *)
(* methods of the repository refuse a row that has any other.              *)
StageEntry ==
  [analyzing        |-> "submitted",
   generating_patch |-> "analysis_completed",
   validating_patch |-> "patch_generated",
   creating_pr      |-> "approval_recorded"]

(* The checkpoint a stage commits when it succeeds.                        *)
StageResult ==
  [analyzing        |-> "analysis_completed",
   generating_patch |-> "patch_generated",
   validating_patch |-> "patch_validated",
   creating_pr      |-> "pr_created"]

(* lifecycle.FailureDisposition, or none when no failure is on the row.    *)
Disposition == {"none", "retryable", "permanent"}
=============================================================================
