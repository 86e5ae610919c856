---------------------------- MODULE JobLifecycle ----------------------------
(***************************************************************************)
(* What the database promises of a workflow job, whoever writes it: the    *)
(* trigger enforce_workflow_job_lifecycle accepts an INSERT or an UPDATE   *)
(* of workflow_jobs only as described here.  It is the abstract            *)
(* specification of the queue: WorkflowQueue is checked to implement it,   *)
(* so no repository method ever issues an update the trigger rejects.      *)
(***************************************************************************)
EXTENDS JobStates

CONSTANTS Jobs

VARIABLE row   \* the lifecycle columns of each job, or Absent before INSERT

Absent == [status |-> "absent", checkpoint |-> "submitted",
           resume |-> "analyzing"]

Row == [status : JobState, checkpoint : JobCheckpoint, resume : ActiveStates]

Inserted == [status |-> "queued", checkpoint |-> "submitted",
             resume |-> "analyzing"]

(* The resume state the trigger itself assigns, or the one the statement   *)
(* asked for: a retry remembers the interrupted stage and an active row    *)
(* always points at its own stage.                                         *)
TriggerResume(old, new) ==
  CASE old.status = new.status                              -> new.resume
    [] old.status \in ActiveStates
         /\ new.status = "retry_scheduled"                  -> old.status
    [] old.status # new.status /\ new.status \in ActiveStates -> new.status
    [] OTHER                                                -> new.resume

(* A hand-off back to the queue must carry the finished checkpoint and     *)
(* name the next stage.                                                    *)
HandOff(old, new) ==
  \/ /\ old.status = "analyzing"
     /\ new.checkpoint = "analysis_completed"
     /\ new.resume = "generating_patch"
  \/ /\ old.status = "generating_patch"
     /\ new.checkpoint = "patch_generated"
     /\ new.resume = "validating_patch"
  \/ old.status \notin {"analyzing", "generating_patch"}

(* One UPDATE statement the trigger accepts, with its effect.              *)
Accepted(old, new) ==
  /\ CheckpointOrder[new.checkpoint] >= CheckpointOrder[old.checkpoint]
  /\ new.resume = TriggerResume(old, new)
  /\ new.status # old.status =>
       /\ new.status \in AllowedTransitions[old.status]
       /\ (old.status = "queued" /\ new.status \in ActiveStates)
            => new.status = old.resume
       /\ new.status = "queued" => HandOff(old, new)

(* A transaction updates a row once.  Only a claim updates one twice: it    *)
(* promotes the due retries and may then take a row it has just promoted.  *)
Promoted(old) == [old EXCEPT !.status = "queued"]

Transaction(old, new) ==
  \/ new = old
  \/ old = Absent /\ new = Inserted
  \/ old # Absent /\ Accepted(old, new)
  \/ /\ old.status = "retry_scheduled"
     /\ Accepted(old, Promoted(old))
     /\ Accepted(Promoted(old), new)

Init == row = [j \in Jobs |-> Absent]

Next == /\ row' \in [Jobs -> Row \cup {Absent}]
        /\ \A j \in Jobs : Transaction(row[j], row'[j])

Spec == Init /\ [][Next]_row
=============================================================================
