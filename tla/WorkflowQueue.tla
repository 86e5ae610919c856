---------------------------- MODULE WorkflowQueue ----------------------------
(***************************************************************************)
(* The durable job queue and the four stage workers that drain it.         *)
(*                                                                         *)
(* Every method of WorkflowJobRepository is one database transaction and   *)
(* one action here.  A worker is a sequence of such transactions with the  *)
(* slow work (model calls, validation, GitHub) between them, so a worker   *)
(* may be overtaken: its lease can run out, another worker can claim the   *)
(* job, and the first worker still tries to commit afterwards.             *)
(*                                                                         *)
(* Abstractions.  Promotion, claims and recovery are FOR UPDATE SKIP       *)
(* LOCKED: each passes over the rows other transactions hold, here any set *)
(* of rows, which also stands for their LIMIT; with it priorities bind no  *)
(* claim and are left out.  A lease lasts LeaseTerm ticks; available_at is *)
(* the flag "due"; the uuid4 lease token of a claim is named by the        *)
(* attempt it starts.                                                      *)
(***************************************************************************)
EXTENDS JobStates

CONSTANTS
  Jobs,         \* idempotency keys under which a job may be submitted
  Workers,      \* worker threads; each can run any of the four stages
  NoJob,        \* the job of an idle worker
  MaxAttempts,  \* max_attempts of each job
  LeaseTerm,    \* ticks from a claim or a heartbeat to the expiry
  ClockSkew     \* TRUE when a worker's clock may disagree with the database

ASSUME QueueAssumption ==
  /\ NoJob \notin Jobs
  /\ MaxAttempts \in [Jobs -> Nat \ {0}]
  /\ LeaseTerm \in Nat \ {0}
  /\ ClockSkew \in BOOLEAN

VARIABLES
  job,          \* workflow_jobs: one row per key
  run,          \* analysis_runs.status
  action,       \* remediation_actions.status, inserted with its proposal
  validation,   \* patch_validation_runs.status
  decision,     \* remediation_approval_decisions
  operation,    \* github_pr_operations.status
  pullRequest,  \* does the pull request exist on GitHub?
  worker        \* the local state of each worker thread

evidence == <<run, action, validation, decision, operation, pullRequest>>
vars == <<job, run, action, validation, decision, operation, pullRequest, worker>>

RunStatus == {"none", "queued", "analyzing", "review_required",
              "completed_clean", "inconclusive", "failed"}
ActionStatus == {"none", "proposed", "approved", "rejected", "failed", "pr_created"}
ValidationStatus == {"none", "valid", "invalid"}
OperationStatus == {"none", "pending", "completed"}
AuthMethod == {"github_token", "api_key", "development_cli"}
Undecided == [verdict |-> "none", method |-> "none"]
Decision == [verdict : {"approved", "rejected"}, method : AuthMethod]

AbsentJob ==
  [status |-> "absent", checkpoint |-> "submitted", resume |-> "analyzing",
   attempts |-> 0, due |-> FALSE, lease |-> 0, ttl |-> 0, failure |-> "none"]

Idle == [pc |-> "idle", job |-> NoJob, stage |-> "none", token |-> 0]

Init ==
  /\ job = [j \in Jobs |-> AbsentJob]
  /\ run = [j \in Jobs |-> "none"]
  /\ action = [j \in Jobs |-> "none"]
  /\ validation = [j \in Jobs |-> "none"]
  /\ decision = [j \in Jobs |-> Undecided]
  /\ operation = [j \in Jobs |-> "none"]
  /\ pullRequest = [j \in Jobs |-> FALSE]
  /\ worker = [w \in Workers |-> Idle]

-----------------------------------------------------------------------------
(* Rows and leases.                                                        *)

Active(row) == row.status \in ActiveStates
Terminal(row) == row.status \in TerminalStates
(* Slip: the budget compared with <=.                                      *)
BudgetLeftInclusive(j, row) == row.attempts <= MaxAttempts[j]

BudgetLeft(j, row) == row.attempts < MaxAttempts[j]

Released(row) == [row EXCEPT !.lease = 0, !.ttl = 0]

(* Slip: one token for every claim of a job.                               *)
ReusedToken(row) == 1

(* uuid.uuid4(): a token no earlier claim of this job was given.           *)
FreshToken(row) == row.attempts + 1

Leased(row, s) ==
  [row EXCEPT !.status = s, !.resume = s, !.attempts = @ + 1,
              !.lease = FreshToken(row), !.ttl = LeaseTerm]

Holding(j, s, t) == [pc |-> "claimed", job |-> j, stage |-> s, token |-> t]

(* Slip: the stage is checked and the token is not.                        *)
HasStage(w) ==
  LET row == job[worker[w].job] IN
  Active(row) /\ row.status = worker[w].stage

(* _require_owned_active_job: an active row, the exact token and a lease   *)
(* that has not expired by the clock of the worker.  schedule_failure asks *)
(* for any active state, the other callers for the stage they run.         *)
HasToken(w) ==
  LET row == job[worker[w].job] IN
  /\ Active(row)
  /\ row.lease = worker[w].token
  /\ worker[w].pc # "failing" => row.status = worker[w].stage

(* Slip: a busy worker is believed without looking at the row.             *)
AssumedOwned(w) == worker[w].pc # "idle"

Owned(w) ==
  /\ worker[w].pc # "idle"
  /\ HasToken(w)
  /\ job[worker[w].job].ttl > 0 \/ ClockSkew

NotOwned(w) ==
  /\ worker[w].pc # "idle"
  /\ HasToken(w) => job[worker[w].job].ttl = 0 \/ ClockSkew

(* The transaction has committed; its response reaches the worker, or is   *)
(* lost and surfaces in run_once as an exception.                          *)
Responds(w, rec) ==
  \/ worker' = [worker EXCEPT ![w] = rec]
  \/ worker' = [worker EXCEPT ![w].pc = "failing"]

-----------------------------------------------------------------------------
(* Submission, retries and claims.                                         *)

(* submit: one analysis run and one queued job per key.  Submitting a key  *)
(* again deletes the candidate run and changes nothing.                    *)
Submit(j) ==
  /\ job[j].status = "absent"
  /\ \E due \in BOOLEAN :
       job' = [job EXCEPT ![j] = [AbsentJob EXCEPT !.status = "queued",
                                                   !.due = due]]
  /\ run' = [run EXCEPT ![j] = "queued"]
  /\ UNCHANGED <<action, validation, decision, operation, pullRequest, worker>>

(* Slips: a promotion that keeps the failure on the row, and one that will *)
(* not spend the last attempt.                                             *)
PromoteKeepingFailure(j, row) ==
  IF row.status = "retry_scheduled" /\ row.due /\ BudgetLeft(j, row)
  THEN [row EXCEPT !.status = "queued"]
  ELSE row

PromoteSparingLast(j, row) ==
  IF row.status = "retry_scheduled" /\ row.due /\ row.attempts + 1 < MaxAttempts[j]
  THEN [row EXCEPT !.status = "queued", !.failure = "none"]
  ELSE row

(* _promote_due_retries, the first statement of every claim.               *)
Promote(j, row) ==
  IF row.status = "retry_scheduled" /\ row.due /\ BudgetLeft(j, row)
  THEN [row EXCEPT !.status = "queued", !.failure = "none"]
  ELSE row

PromotedBut(locked) ==
  [j \in Jobs |-> IF j \in locked THEN job[j] ELSE Promote(j, job[j])]

Claimable(j, row, s) ==
  /\ row.status = "queued"
  /\ row.due
  /\ BudgetLeft(j, row)
  /\ row.resume = s

(* Slip: the authentication method is not looked at.                       *)
AnyApproval(j) == decision[j].verdict = "approved"

MutationApproved(j) ==
  /\ decision[j].verdict = "approved"
  /\ decision[j].method \in {"github_token", "api_key"}

PrClaimable(j, row) ==
  /\ BudgetLeft(j, row)
  /\ row.due
  /\ MutationApproved(j)
  /\ \/ row.status = "approved"
     \/ row.status = "queued" /\ row.resume = "creating_pr"

(* Take one of the candidates, or commit the promotions alone.             *)
ClaimFrom(w, s, rows, candidates) ==
  /\ worker[w].pc = "idle"
  /\ \/ \E j \in candidates :
          /\ job' = [rows EXCEPT ![j] = Leased(rows[j], s)]
          /\ worker' = [worker EXCEPT
                          ![w] = Holding(j, s, FreshToken(rows[j]))]
     \/ /\ candidates = {}
        /\ job' = rows
        /\ UNCHANGED worker
  /\ UNCHANGED evidence

ClaimNext(w, s) ==
  \E locked \in SUBSET Jobs :
    LET rows == PromotedBut(locked) IN
    ClaimFrom(w, s, rows, {j \in Jobs \ locked : Claimable(j, rows[j], s)})

ClaimPrNext(w) ==
  \E locked \in SUBSET Jobs :
    LET rows == PromotedBut(locked) IN
    ClaimFrom(w, "creating_pr", rows,
              {j \in Jobs \ locked : PrClaimable(j, rows[j])})

-----------------------------------------------------------------------------
(* The begin_... transactions, which load the input of the claimed stage.  *)
(* All but begin_analysis insist on the checkpoint the stage starts from.  *)

Begin(w, s) ==
  /\ worker[w].pc = "claimed"
  /\ worker[w].stage = s
  /\ Owned(w)
  /\ Responds(w, [worker[w] EXCEPT !.pc = "working"])
  /\ UNCHANGED <<job, action, validation, decision, pullRequest>>

AtEntry(w) == job[worker[w].job].checkpoint = StageEntry[worker[w].stage]

BeginAnalysis(w) ==
  LET j == worker[w].job IN
  /\ Begin(w, "analyzing")
  /\ run[j] \in {"queued", "analyzing"}
  /\ run' = [run EXCEPT ![j] = "analyzing"]
  /\ UNCHANGED operation

BeginPatchGeneration(w) ==
  /\ Begin(w, "generating_patch")
  /\ AtEntry(w)
  /\ run[worker[w].job] = "review_required"
  /\ UNCHANGED <<run, operation>>

BeginPatchValidation(w) ==
  /\ Begin(w, "validating_patch")
  /\ AtEntry(w)
  /\ action[worker[w].job] # "none"
  /\ UNCHANGED <<run, operation>>

BeginPrCreation(w) ==
  LET j == worker[w].job IN
  /\ Begin(w, "creating_pr")
  /\ AtEntry(w)
  /\ MutationApproved(j)
  /\ validation[j] = "valid"
  /\ operation' = [operation EXCEPT ![j] = IF @ = "none" THEN "pending" ELSE @]
  /\ UNCHANGED run

-----------------------------------------------------------------------------
(* While a worker is busy.                                                 *)

(* Slip: the renewal forgets lease_expires_at > CURRENT_TIMESTAMP.         *)
HeartbeatReviving(w) ==
  LET j == worker[w].job IN
  /\ worker[w].pc = "working"
  /\ Active(job[j])
  /\ job[j].lease = worker[w].token
  /\ job' = [job EXCEPT ![j].ttl = LeaseTerm]
  /\ UNCHANGED <<evidence, worker>>

(* The background thread renews the lease: the exact token, an active row, *)
(* and a lease the database still considers live.                          *)
Heartbeat(w) ==
  LET j == worker[w].job IN
  /\ worker[w].pc = "working"
  /\ Active(job[j])
  /\ job[j].lease = worker[w].token
  /\ job[j].ttl > 0
  /\ job' = [job EXCEPT ![j].ttl = LeaseTerm]
  /\ UNCHANGED <<evidence, worker>>

(* Slip: the branch is taken for the pull request.                         *)
EnsureBranchOnly(w) ==
  /\ worker[w].pc = "working"
  /\ worker[w].stage = "creating_pr"
  /\ Responds(w, [worker[w] EXCEPT !.pc = "reconciled"])
  /\ UNCHANGED <<job, evidence>>

(* GitHubClient.ensure_pull_request returns: the pull request exists.  No  *)
(* lease guards this call, so a worker that lost its lease still makes it. *)
EnsurePullRequest(w) ==
  /\ worker[w].pc = "working"
  /\ worker[w].stage = "creating_pr"
  /\ pullRequest' = [pullRequest EXCEPT ![worker[w].job] = TRUE]
  /\ Responds(w, [worker[w] EXCEPT !.pc = "reconciled"])
  /\ UNCHANGED <<job, run, action, validation, decision, operation>>

(* Any exception but LeaseLostError: refused input, model, source, network *)
StageFails(w) ==
  /\ worker[w].pc \in {"claimed", "working", "reconciled"}
  /\ worker' = [worker EXCEPT ![w].pc = "failing"]
  /\ UNCHANGED <<job, evidence>>

(* LeaseLostError leaves run_once; what becomes of the process and of the  *)
(* other workers in it is in WorkerRuntime.                                *)
LeaseLost(w) ==
  /\ NotOwned(w)
  /\ worker' = [worker EXCEPT ![w] = Idle]
  /\ UNCHANGED <<job, evidence>>

(* A process stops between two transactions of any of its workers.  If it  *)
(* is started again, they start idle.                                      *)
Crash(stopped) ==
  /\ worker' = [w \in Workers |-> IF w \in stopped THEN Idle ELSE worker[w]]
  /\ UNCHANGED <<job, evidence>>

-----------------------------------------------------------------------------
(* The complete_... transactions, which commit a stage.                    *)

MayCommit(w, s) ==
  /\ worker[w].pc = IF s = "creating_pr" THEN "reconciled" ELSE "working"
  /\ worker[w].stage = s
  /\ Owned(w)

Commit(w, row) ==
  /\ job' = [job EXCEPT ![worker[w].job] =
       [Released(row) EXCEPT !.checkpoint = StageResult[worker[w].stage]]]
  /\ Responds(w, Idle)

CompleteAnalysis(w) ==
  LET j == worker[w].job IN
  /\ MayCommit(w, "analyzing")
  /\ job[j].checkpoint = "submitted"
  /\ run[j] = "analyzing"
  /\ \E result \in {"review_required", "completed_clean", "inconclusive"} :
       /\ run' = [run EXCEPT ![j] = result]
       /\ Commit(w,
            IF result = "review_required"
            THEN [job[j] EXCEPT !.status = "queued", !.resume = "generating_patch"]
            ELSE [job[j] EXCEPT !.status = "completed"])
  /\ UNCHANGED <<action, validation, decision, operation, pullRequest>>

CompletePatchGeneration(w) ==
  LET j == worker[w].job IN
  /\ MayCommit(w, "generating_patch")
  /\ job[j].checkpoint = "analysis_completed"
  /\ action[j] = "none"                     \* unique key patch:<job>
  /\ action' = [action EXCEPT ![j] = "proposed"]
  /\ Commit(w,
       [job[j] EXCEPT !.status = "queued", !.resume = "validating_patch"])
  /\ UNCHANGED <<run, validation, decision, operation, pullRequest>>

CompletePatchValidation(w) ==
  LET j == worker[w].job IN
  /\ MayCommit(w, "validating_patch")
  /\ job[j].checkpoint = "patch_generated"
  /\ validation[j] = "none"                 \* one run per proposal
  /\ \/ /\ validation' = [validation EXCEPT ![j] = "valid"]
        /\ Commit(w,
             [job[j] EXCEPT !.status = "awaiting_approval"])
        /\ UNCHANGED action
     \/ /\ validation' = [validation EXCEPT ![j] = "invalid"]
        /\ Commit(w,
             [job[j] EXCEPT !.status = "failed", !.failure = "permanent"])
        /\ action' = [action EXCEPT ![j] = "failed"]
  /\ UNCHANGED <<run, decision, operation, pullRequest>>

CompletePrCreation(w) ==
  LET j == worker[w].job IN
  /\ MayCommit(w, "creating_pr")
  /\ operation[j] # "none"
  /\ operation' = [operation EXCEPT ![j] = "completed"]
  /\ action[j] = "approved"
  /\ action' = [action EXCEPT ![j] = "pr_created"]
  /\ Commit(w,
       [job[j] EXCEPT !.status = "completed", !.failure = "none"])
  /\ UNCHANGED <<run, validation, decision, pullRequest>>

(* A completion that finds its checkpoint already committed returns the    *)
(* row before it looks at the lease; complete_pr_creation has no such path.*)
ReplayCompletion(w) ==
  LET j == worker[w].job
      s == worker[w].stage IN
  /\ worker[w].pc = "working"
  /\ \/ s = "analyzing" /\ job[j].checkpoint # "submitted"
     \/ /\ s \in {"generating_patch", "validating_patch"}
        /\ job[j].checkpoint = StageResult[s]
  /\ worker' = [worker EXCEPT ![w] = Idle]
  /\ UNCHANGED <<job, evidence>>

-----------------------------------------------------------------------------
(* Failure, recovery, approval and time.                                   *)

(* schedule_failure: retry within the budget, else fail the job and close  *)
(* the record of the stage that was running.                               *)
ScheduleFailure(w) ==
  LET j == worker[w].job IN
  /\ worker[w].pc = "failing"
  /\ Owned(w)
  /\ \/ /\ BudgetLeft(j, job[j])
        /\ job' = [job EXCEPT ![j] =
             [Released(@) EXCEPT !.status = "retry_scheduled",
                                 !.resume = job[j].status,
                                 !.due = FALSE, !.failure = "retryable"]]
        /\ UNCHANGED <<run, action>>
     \/ \E disposition \in {"retryable", "permanent"} :
          /\ disposition = "retryable" => ~BudgetLeft(j, job[j])
          /\ job' = [job EXCEPT ![j] =
               [Released(@) EXCEPT !.status = "failed",
                                   !.failure = disposition]]
          /\ run' = [run EXCEPT ![j] =
               IF job[j].status = "analyzing" /\ @ \in {"queued", "analyzing"}
               THEN "failed" ELSE @]
          /\ action' = [action EXCEPT ![j] =
               IF job[j].status = "creating_pr" /\ @ = "approved"
               THEN "failed" ELSE @]
  /\ worker' = [worker EXCEPT ![w] = Idle]
  /\ UNCHANGED <<validation, decision, operation, pullRequest>>

Expired(row) == Active(row) /\ row.ttl = 0

(* Slips: recovery that starts the workflow over, and recovery that skips  *)
(* the wait and queues the job itself.                                     *)
RecoveredFromStart(j, row) ==
  IF BudgetLeft(j, row)
  THEN [Released(row) EXCEPT !.status = "retry_scheduled",
          !.resume = "analyzing", !.due = TRUE, !.failure = "retryable"]
  ELSE [Released(row) EXCEPT !.status = "failed",
          !.due = TRUE, !.failure = "retryable"]

RecoveredToQueue(j, row) ==
  IF BudgetLeft(j, row)
  THEN [Released(row) EXCEPT !.status = "queued", !.due = TRUE]
  ELSE [Released(row) EXCEPT !.status = "failed",
          !.due = TRUE, !.failure = "retryable"]

Recovered(j, row) ==
  IF BudgetLeft(j, row)
  THEN [Released(row) EXCEPT !.status = "retry_scheduled",
          !.resume = row.status, !.due = TRUE, !.failure = "retryable"]
  ELSE [Released(row) EXCEPT !.status = "failed",
          !.due = TRUE, !.failure = "retryable"]

(* recover_expired_leases: it closes the analysis run of a job it fails,   *)
(* but not the remediation action.                                         *)
RecoverExpiredLeases ==
  \E expired \in SUBSET {j \in Jobs : Expired(job[j])} :
    /\ expired # {}
    /\ job' = [j \in Jobs |->
                 IF j \in expired THEN Recovered(j, job[j]) ELSE job[j]]
    /\ run' = [j \in Jobs |->
                 IF /\ j \in expired
                    /\ ~BudgetLeft(j, job[j])
                    /\ job[j].resume = "analyzing"
                    /\ run[j] \in {"queued", "analyzing"}
                 THEN "failed" ELSE run[j]]
    /\ UNCHANGED <<action, validation, decision, operation, pullRequest, worker>>

(* record_human_decision.  A repeated decision is answered from the table  *)
(* and a different one refused; neither changes anything.                  *)
RecordHumanDecision(j) ==
  /\ job[j].status = "awaiting_approval"
  /\ job[j].checkpoint = "patch_validated"
  /\ validation[j] = "valid"
  /\ action[j] = "proposed"
  /\ \E d \in Decision :
       /\ decision' = [decision EXCEPT ![j] = d]
       /\ action' = [action EXCEPT ![j] = d.verdict]
       /\ job' = [job EXCEPT ![j] =
              [@ EXCEPT !.status = d.verdict,
                        !.checkpoint = "approval_recorded"]]
  /\ UNCHANGED <<run, validation, operation, pullRequest, worker>>

LeaseTick(j) ==
  /\ Active(job[j])
  /\ job[j].ttl > 0
  /\ job' = [job EXCEPT ![j].ttl = @ - 1]
  /\ UNCHANGED <<evidence, worker>>

DelayElapses(j) ==
  /\ job[j].status # "absent"
  /\ ~job[j].due
  /\ job' = [job EXCEPT ![j].due = TRUE]
  /\ UNCHANGED <<evidence, worker>>

-----------------------------------------------------------------------------

(* What run_once does with a job it has claimed.                           *)
Works(w) ==
  \/ BeginAnalysis(w)
  \/ BeginPatchGeneration(w)
  \/ BeginPatchValidation(w)
  \/ BeginPrCreation(w)
  \/ EnsurePullRequest(w)
  \/ CompleteAnalysis(w)
  \/ CompletePatchGeneration(w)
  \/ CompletePatchValidation(w)
  \/ CompletePrCreation(w)
  \/ ReplayCompletion(w)
  \/ StageFails(w)
  \/ ScheduleFailure(w)

RunOnce(w) ==
  \/ \E s \in ActiveStates \ {"creating_pr"} : ClaimNext(w, s)
  \/ ClaimPrNext(w)
  \/ Works(w)
  \/ LeaseLost(w)

(* Every method of the repository, called by anyone at any time; which of  *)
(* them the shipped processes call, and when, is in WorkerRuntime.         *)
Next ==
  \/ \E j \in Jobs : Submit(j) \/ RecordHumanDecision(j)
  \/ \E j \in Jobs : LeaseTick(j) \/ DelayElapses(j)
  \/ \E w \in Workers : RunOnce(w) \/ Heartbeat(w)
  \/ \E stopped \in SUBSET Workers : Crash(stopped)
  \/ RecoverExpiredLeases

Spec == Init /\ [][Next]_vars

(* More than any process promises: workers always poll again, also after a *)
(* crash, and expired leases are always recovered.                         *)
FairSpec ==
  /\ Spec
  /\ \A w \in Workers : WF_vars(RunOnce(w))
  /\ \A j \in Jobs : WF_vars(LeaseTick(j)) /\ WF_vars(DelayElapses(j))
  /\ WF_vars(RecoverExpiredLeases)
-----------------------------------------------------------------------------
(* Properties.                                                             *)

JobRow ==
  [status : JobState \cup {"absent"}, checkpoint : JobCheckpoint,
   resume : ActiveStates, attempts : Nat, due : BOOLEAN,
   lease : Nat, ttl : 0..LeaseTerm, failure : Disposition]

WorkerState ==
  [pc : {"idle", "claimed", "working", "reconciled", "failing"},
   job : Jobs \cup {NoJob}, stage : ActiveStates \cup {"none"},
   token : Nat]

TypeOK ==
  /\ job \in [Jobs -> JobRow]
  /\ \A j \in Jobs : job[j].attempts <= MaxAttempts[j]
  /\ run \in [Jobs -> RunStatus]
  /\ action \in [Jobs -> ActionStatus]
  /\ validation \in [Jobs -> ValidationStatus]
  /\ decision \in [Jobs -> Decision \cup {Undecided}]
  /\ operation \in [Jobs -> OperationStatus]
  /\ pullRequest \in [Jobs -> BOOLEAN]
  /\ worker \in [Workers -> WorkerState]

(* The CHECK constraints of migration 005 never refuse what the repository *)
(* writes: a lease exactly on active rows, a classified failure exactly on *)
(* retry_scheduled and failed rows, and a retry only within the budget.    *)
RowConstraints ==
  \A j \in Jobs :
    /\ Active(job[j]) <=> job[j].lease # 0
    /\ job[j].status = "retry_scheduled" =>
         job[j].failure = "retryable" /\ BudgetLeft(j, job[j])
    /\ job[j].status \in {"retry_scheduled", "failed"}
         <=> job[j].failure # "none"

(* Whatever was crashed, recovered and claimed again, at most one worker   *)
(* carries the token a job currently accepts (docs/jobs.md: "The lease     *)
(* token is the ownership credential").                                    *)
Holds(w, j) ==
  /\ worker[w].job = j
  /\ job[j].lease # 0
  /\ worker[w].token = job[j].lease

OneLeaseHolder ==
  \A j \in Jobs : \A v, w \in Workers : Holds(v, j) /\ Holds(w, j) => v = w

(* Finished stages are not run again: a job that is running, queued or     *)
(* waiting to retry has exactly the checkpoint from which its stage starts *)
StageMatchesCheckpoint ==
  \A j \in Jobs :
    /\ job[j].status \in ActiveStates \cup {"queued", "retry_scheduled"}
         => job[j].checkpoint = StageEntry[job[j].resume]
    /\ Active(job[j]) => job[j].resume = job[j].status

(* The checkpoint and the evidence tables tell the same story: each        *)
(* checkpoint is reached together with the rows that justify it, never     *)
(* before them and never without them.                                     *)
Reached(j, c) == CheckpointOrder[job[j].checkpoint] >= CheckpointOrder[c]

CheckpointHasEvidence ==
  \A j \in Jobs :
    /\ Reached(j, "analysis_completed") <=>
         run[j] \in {"review_required", "completed_clean", "inconclusive"}
    /\ Reached(j, "patch_generated") <=> action[j] # "none"
    /\ Reached(j, "patch_validated") <=> validation[j] # "none"
    /\ Reached(j, "approval_recorded") <=> decision[j] # Undecided
    /\ Reached(j, "pr_created") <=> operation[j] = "completed"

(* What is finished is not run again and what is not finished is not       *)
(* skipped: through failures, retries, recoveries and lost responses the   *)
(* checkpoint fits the stage to be resumed and the evidence on record.     *)
CheckpointIsTrue == StageMatchesCheckpoint /\ CheckpointHasEvidence

(* No pull request and no attempt to create one without an approval of a   *)
(* patch that validated, given under an identity the API authenticated and *)
(* never one that was asserted at the command line (docs/remediation.md),  *)
(* even for a worker that lost its lease and is still talking to GitHub.   *)
MutatesGitHub(j) ==
  \/ job[j].status = "creating_pr"
  \/ pullRequest[j]
  \/ \E w \in Workers : worker[w].job = j /\ worker[w].stage = "creating_pr"

MutationAuthenticated ==
  \A j \in Jobs :
    MutatesGitHub(j) =>
      /\ decision[j].verdict = "approved"
      /\ decision[j].method # "development_cli"
      /\ validation[j] = "valid"
      /\ run[j] = "review_required"

(* The remediation record agrees with the job it belongs to: one is never  *)
(* finished, refused or abandoned without the other.  The converse of the  *)
(* fourth line is false of the code, since recovery fails a job and leaves *)
(* its action approved.                                                    *)
ActionAgreesWithJob ==
  \A j \in Jobs :
    /\ action[j] = "pr_created" <=>
         job[j].status = "completed" /\ run[j] = "review_required"
    /\ action[j] = "pr_created" => pullRequest[j]
    /\ action[j] = "rejected" <=> job[j].status = "rejected"
    /\ action[j] = "failed" => job[j].status = "failed"
    /\ job[j].status \in {"approved", "creating_pr"} => action[j] = "approved"
    /\ job[j].status = "awaiting_approval" =>
         action[j] = "proposed" /\ validation[j] = "valid"

(* A stage is committed only by the worker that holds the current token of *)
(* the job for that stage; a stale worker commits nothing.                 *)
OnlyHolderCommits ==
  [][\A j \in Jobs :
       (/\ job'[j].checkpoint # job[j].checkpoint
        /\ job'[j].checkpoint # "approval_recorded")
       => \E w \in Workers :
            /\ Holds(w, j)
            /\ worker[w].stage = job[j].status
            /\ job'[j].checkpoint = StageResult[worker[w].stage]
            /\ worker'[w].pc \in {"idle", "failing"}]_vars

(* Decisions, finished jobs and evidence are final: no late worker, second *)
(* reviewer or recovery pass rewrites them.                                *)
FinalStaysFinal ==
  [][\A j \in Jobs :
       /\ Terminal(job[j]) =>
            job'[j] = [job[j] EXCEPT !.due = job'[j].due]
       /\ decision[j] # Undecided => decision'[j] = decision[j]
       /\ validation[j] # "none" => validation'[j] = validation[j]
       /\ action[j] \in {"pr_created", "rejected", "failed"} =>
            action'[j] = action[j]
       /\ pullRequest[j] => pullRequest'[j]]_vars

(* An expired lease is never revived: the row keeps it until the stage is  *)
(* committed, given up or recovered, and only a claim starts a new one.    *)
ExpiredStaysExpired ==
  [][\A j \in Jobs :
       Expired(job[j]) /\ job'[j].lease = job[j].lease => Expired(job'[j])]_vars

(* The repository implements the lifecycle the database enforces.          *)
Lifecycle ==
  INSTANCE JobLifecycle WITH
    row <- [j \in Jobs |-> [status |-> job[j].status,
                            checkpoint |-> job[j].checkpoint,
                            resume |-> job[j].resume]]

ImplementsLifecycle == Lifecycle!Spec

-----------------------------------------------------------------------------
(* docs/remediation.md:130 lets the PR worker accept only an approval that *)
(* was authenticated with a GitHub token.  Both of its queries accept one  *)
(* with the API key as well.                                               *)
MutationByGitHubToken ==
  \A j \in Jobs : MutatesGitHub(j) => decision[j].method = "github_token"

(* docs/jobs.md:254 leaves an approved job "for the GitHub worker", which  *)
(* takes it up.  It does not: the budget of claims may have been used up   *)
(* before.                                                                 *)
ApprovedReachesPrWorker ==
  \A j \in Jobs :
    job[j].status = "approved" /\ MutationApproved(j)
      ~> job[j].status # "approved"
=============================================================================
