------------------------ MODULE WorkflowQueue_proofs ------------------------
(***************************************************************************)
(* Theorems about WorkflowQueue that hold for every set of jobs, every     *)
(* number of workers, every budget and every lease term.                   *)
(*                                                                         *)
(* TypeOK and OneLeaseHolder are not inductive: a worker that was          *)
(* overtaken keeps its old token, and only because a claim issues a token  *)
(* above every earlier one can that token never be accepted again.  IInv   *)
(* states this.  The second half shows that the checkpoint of a job, the   *)
(* evidence tables and GitHub tell one story: StoryInv.                    *)
(***************************************************************************)
EXTENDS WorkerRuntime, TLAPS

(* What every row satisfies by itself.                                     *)
RowInv(j, row) ==
  /\ row \in JobRow
  /\ row.attempts <= MaxAttempts[j]
  /\ row.lease <= row.attempts
  /\ Active(row) <=> row.lease # 0
  /\ row.status = "retry_scheduled" =>
       row.failure = "retryable" /\ BudgetLeft(j, row)
  /\ row.status \in {"retry_scheduled", "failed"} <=> row.failure # "none"
  /\ row.status = "absent" => row = AbsentJob

RowsInv ==
  /\ job \in [Jobs -> JobRow]
  /\ \A j \in Jobs : RowInv(j, job[j])

EvidenceType ==
  /\ run \in [Jobs -> RunStatus]
  /\ action \in [Jobs -> ActionStatus]
  /\ validation \in [Jobs -> ValidationStatus]
  /\ decision \in [Jobs -> Decision \cup {Undecided}]
  /\ operation \in [Jobs -> OperationStatus]
  /\ pullRequest \in [Jobs -> BOOLEAN]

(* A busy worker carries a token its job has issued.                       *)
Carries(r) ==
  /\ r.job \in Jobs
  /\ r.stage \in ActiveStates
  /\ r.token \in 1..job[r.job].attempts

WorkersInv ==
  /\ worker \in [Workers -> WorkerState]
  /\ \A w \in Workers : worker[w] = Idle \/ Carries(worker[w])

(* No token was issued twice.                                              *)
TokensDiffer ==
  \A v, w \in Workers :
    v # w /\ worker[v].job \in Jobs /\ worker[v].job = worker[w].job
      => worker[v].token # worker[w].token

IInv == RowsInv /\ EvidenceType /\ WorkersInv /\ TokensDiffer

-----------------------------------------------------------------------------
(* The rows the repository writes.                                         *)

(* An assignment of one column of the right type gives a row again.        *)
LEMMA RowUpdate ==
  ASSUME NEW row \in JobRow
  PROVE  /\ \A s \in JobState : [row EXCEPT !.status = s] \in JobRow
         /\ \A c \in JobCheckpoint : [row EXCEPT !.checkpoint = c] \in JobRow
         /\ \A s \in ActiveStates : [row EXCEPT !.resume = s] \in JobRow
         /\ \A n \in Nat : [row EXCEPT !.attempts = n] \in JobRow
         /\ \A b \in BOOLEAN : [row EXCEPT !.due = b] \in JobRow
         /\ \A n \in Nat : [row EXCEPT !.lease = n] \in JobRow
         /\ \A n \in 0..LeaseTerm : [row EXCEPT !.ttl = n] \in JobRow
         /\ \A f \in Disposition : [row EXCEPT !.failure = f] \in JobRow
BY SMT DEF JobRow

LEMMA Values ==
  /\ ActiveStates \subseteq JobState
  /\ {"queued", "retry_scheduled", "awaiting_approval", "approved",
      "completed", "failed", "rejected"} \subseteq JobState \ ActiveStates
  /\ "absent" \notin JobState
  /\ {"none", "retryable", "permanent"} = Disposition
  /\ \A s \in ActiveStates : StageResult[s] \in JobCheckpoint
  /\ "approval_recorded" \in JobCheckpoint
  /\ {0, LeaseTerm} \subseteq 0..LeaseTerm
  /\ \A j \in Jobs : MaxAttempts[j] \in Nat \ {0}
<1>1. /\ ActiveStates \subseteq JobState
      /\ {"queued", "retry_scheduled", "awaiting_approval", "approved",
          "completed", "failed", "rejected"} \subseteq JobState \ ActiveStates
      /\ "absent" \notin JobState
  BY SMT DEF JobState, ActiveStates, WaitingStates, TerminalStates
<1>2. {"none", "retryable", "permanent"} = Disposition
  BY SMT DEF Disposition
<1>3. /\ \A s \in ActiveStates : StageResult[s] \in JobCheckpoint
      /\ "approval_recorded" \in JobCheckpoint
  BY SMT DEF ActiveStates, StageResult, JobCheckpoint, CheckpointOrder
<1>4. /\ {0, LeaseTerm} \subseteq 0..LeaseTerm
      /\ \A j \in Jobs : MaxAttempts[j] \in Nat \ {0}
  BY QueueAssumption, SMT DEF QueueAssumption
<1> QED BY <1>1, <1>2, <1>3, <1>4

LEMMA EvidenceValues ==
  /\ {"queued", "analyzing", "review_required", "completed_clean",
      "inconclusive", "failed"} \subseteq RunStatus
  /\ {"proposed", "approved", "rejected", "failed", "pr_created"}
       \subseteq ActionStatus
  /\ {"valid", "invalid"} \subseteq ValidationStatus
  /\ {"pending", "completed"} \subseteq OperationStatus
BY DEF RunStatus, ActionStatus, ValidationStatus, OperationStatus

LEMMA FunctionUpdate ==
  ASSUME NEW S, NEW T, NEW f \in [S -> T], NEW x, NEW v \in T
  PROVE  [f EXCEPT ![x] = v] \in [S -> T]
OBVIOUS

LEMMA ReleasedRow ==
  ASSUME NEW row \in JobRow
  PROVE  /\ Released(row) \in JobRow
         /\ Released(row).status = row.status
         /\ Released(row).resume = row.resume
         /\ Released(row).checkpoint = row.checkpoint
         /\ Released(row).attempts = row.attempts
         /\ Released(row).failure = row.failure
         /\ Released(row).lease = 0
<1>1. Released(row) \in JobRow
  BY Values, RowUpdate, Zenon DEF Released
<1>2. /\ Released(row).status = row.status
      /\ Released(row).resume = row.resume
      /\ Released(row).checkpoint = row.checkpoint
      /\ Released(row).attempts = row.attempts
      /\ Released(row).failure = row.failure
      /\ Released(row).lease = 0
  BY SMT DEF Released, JobRow
<1> QED BY <1>1, <1>2

LEMMA SubmittedRow ==
  ASSUME NEW j \in Jobs, NEW due \in BOOLEAN
  PROVE  RowInv(j, [AbsentJob EXCEPT !.status = "queued", !.due = due])
<1> DEFINE new == [AbsentJob EXCEPT !.status = "queued", !.due = due]
<1>1. AbsentJob \in JobRow
  BY Values, SMT DEF AbsentJob, JobRow, JobCheckpoint, CheckpointOrder,
                     ActiveStates
<1>2. "queued" \in JobState
  BY Values
<1>3. new \in JobRow
  BY <1>1, <1>2, RowUpdate, Zenon
<1>4. /\ new.status = "queued"
      /\ new.attempts = 0
      /\ new.lease = 0
      /\ new.failure = "none"
  BY SMT DEF AbsentJob
<1> HIDE DEF new
<1>5. RowInv(j, new)
  BY <1>3, <1>4, Values, SMT DEF RowInv, Active, BudgetLeft
<1> QED BY <1>5 DEF new

LEMMA LeasedRow ==
  ASSUME NEW j \in Jobs, NEW row, RowInv(j, row), BudgetLeft(j, row),
         row.failure = "none", NEW s \in ActiveStates
  PROVE  /\ RowInv(j, Leased(row, s))
         /\ Leased(row, s).attempts = row.attempts + 1
<1> DEFINE new == Leased(row, s)
<1>1. row \in JobRow /\ row.attempts + 1 \in Nat
  BY SMT DEF RowInv, JobRow
<1>2. new \in JobRow
  BY <1>1, Values, RowUpdate, Zenon DEF Leased, FreshToken
<1>3. /\ new.status = s
      /\ new.attempts = row.attempts + 1
      /\ new.lease = row.attempts + 1
      /\ new.failure = row.failure
  BY <1>1, SMT DEF Leased, FreshToken, JobRow
<1>4. row.attempts \in Nat
  BY <1>1, SMT DEF JobRow
<1> HIDE DEF new
<1>5. RowInv(j, new)
  BY <1>2, <1>3, <1>4, Values, SMT DEF RowInv, Active, BudgetLeft
<1> QED BY <1>3, <1>5 DEF new

LEMMA PromotedRow ==
  ASSUME NEW j \in Jobs, NEW row, RowInv(j, row)
  PROVE  /\ RowInv(j, Promote(j, row))
         /\ Promote(j, row).attempts = row.attempts
         /\ Promote(j, row).lease = row.lease
         /\ Promote(j, row).checkpoint = row.checkpoint
<1>0. CASE Promote(j, row) = row
  BY <1>0
<1>1. CASE row.status = "retry_scheduled"
           /\ Promote(j, row) = [row EXCEPT !.status = "queued", !.failure = "none"]
  <2> DEFINE new == Promote(j, row)
  <2>1. row \in JobRow /\ "queued" \in JobState /\ "none" \in Disposition
    BY Values DEF RowInv
  <2>2. [row EXCEPT !.status = "queued", !.failure = "none"] \in JobRow
    BY <2>1, RowUpdate, Zenon
  <2>3. /\ new.status = "queued"
        /\ new.failure = "none"
        /\ new.attempts = row.attempts
        /\ new.lease = row.lease
        /\ new.checkpoint = row.checkpoint
    BY <1>1, <2>1, SMT DEF JobRow
  <2>4. new \in JobRow
    BY <1>1, <2>2
  <2> HIDE DEF new
  <2>5. RowInv(j, new)
    BY <1>1, <2>3, <2>4, Values, SMT DEF RowInv, Active, BudgetLeft
  <2> QED BY <2>3, <2>5 DEF new
<1> QED BY <1>0, <1>1, Zenon DEF Promote

(* A lease given up in favour of a waiting or a final state.               *)
LEMMA ClosedRow ==
  ASSUME NEW j \in Jobs, NEW row, RowInv(j, row), NEW new \in JobRow,
         new.status \in JobState \ ActiveStates, new.lease = 0,
         new.attempts = row.attempts,
         new.status \in {"retry_scheduled", "failed"} <=> new.failure # "none",
         new.status = "retry_scheduled" =>
           new.failure = "retryable" /\ BudgetLeft(j, row)
  PROVE  RowInv(j, new)
BY Values, SMT DEF RowInv, Active, BudgetLeft, JobRow

LEMMA RecoveredRow ==
  ASSUME NEW j \in Jobs, NEW row, RowInv(j, row), Active(row)
  PROVE  /\ RowInv(j, Recovered(j, row))
         /\ Recovered(j, row).attempts = row.attempts
         /\ Recovered(j, row).checkpoint = row.checkpoint
<1> DEFINE rel == Released(row)
           retry == [rel EXCEPT !.status = "retry_scheduled", !.resume = row.status,
                                !.due = TRUE, !.failure = "retryable"]
           fail == [rel EXCEPT !.status = "failed", !.due = TRUE,
                               !.failure = "retryable"]
<1>1. row \in JobRow /\ row.status \in ActiveStates
  BY DEF RowInv, Active
<1>2. /\ rel \in JobRow
      /\ rel.attempts = row.attempts
      /\ rel.lease = 0
      /\ rel.checkpoint = row.checkpoint
  BY <1>1, ReleasedRow
<1> HIDE DEF rel
<1>3. /\ {"retry_scheduled", "failed"} \subseteq JobState \ ActiveStates
      /\ {"retry_scheduled", "failed"} \subseteq JobState
      /\ "retryable" \in Disposition
  BY Values
<1>4. CASE BudgetLeft(j, row)
  <2>1. retry \in JobRow
    BY <1>1, <1>2, <1>3, RowUpdate, Zenon
  <2>2. /\ retry.status = "retry_scheduled" /\ retry.failure = "retryable"
        /\ retry.attempts = row.attempts /\ retry.lease = 0
        /\ retry.checkpoint = row.checkpoint
    BY <1>2, SMT DEF JobRow
  <2>3. Recovered(j, row) = retry
    BY <1>4 DEF Recovered, rel
  <2> HIDE DEF retry
  <2>4. RowInv(j, retry)
    BY <1>3, <1>4, <2>1, <2>2, ClosedRow
  <2> QED BY <2>2, <2>3, <2>4
<1>5. CASE ~BudgetLeft(j, row)
  <2>1. fail \in JobRow
    BY <1>1, <1>2, <1>3, RowUpdate, Zenon
  <2>2. /\ fail.status = "failed" /\ fail.failure = "retryable"
        /\ fail.attempts = row.attempts /\ fail.lease = 0
        /\ fail.checkpoint = row.checkpoint
    BY <1>2, SMT DEF JobRow
  <2>3. Recovered(j, row) = fail
    BY <1>5 DEF Recovered, rel
  <2> HIDE DEF fail
  <2>4. RowInv(j, fail)
    BY <1>3, <2>1, <2>2, ClosedRow
  <2> QED BY <2>2, <2>3, <2>4
<1> QED BY <1>4, <1>5

(* schedule_failure, both outcomes.                                        *)
LEMMA ScheduledRow ==
  ASSUME NEW j \in Jobs, NEW row, RowInv(j, row), Active(row)
  PROVE  /\ BudgetLeft(j, row) =>
              RowInv(j, [Released(row) EXCEPT !.status = "retry_scheduled",
                           !.resume = row.status, !.due = FALSE,
                           !.failure = "retryable"])
         /\ \A d \in {"retryable", "permanent"} :
              RowInv(j, [Released(row) EXCEPT !.status = "failed", !.failure = d])
<1> DEFINE rel == Released(row)
           retry == [rel EXCEPT !.status = "retry_scheduled",
                                !.resume = row.status, !.due = FALSE,
                                !.failure = "retryable"]
           fail(d) == [rel EXCEPT !.status = "failed", !.failure = d]
<1>1. row \in JobRow /\ row.status \in ActiveStates
  BY DEF RowInv, Active
<1>2. rel \in JobRow /\ rel.attempts = row.attempts /\ rel.lease = 0
  BY <1>1, ReleasedRow
<1> HIDE DEF rel
<1>3. /\ {"retry_scheduled", "failed"} \subseteq JobState \ ActiveStates
      /\ {"retry_scheduled", "failed"} \subseteq JobState
      /\ {"retryable", "permanent"} \subseteq Disposition
  BY Values
<1>4. ASSUME BudgetLeft(j, row)
      PROVE  RowInv(j, retry)
  <2>1. retry \in JobRow
    BY <1>1, <1>2, <1>3, RowUpdate, Zenon
  <2>2. /\ retry.status = "retry_scheduled" /\ retry.failure = "retryable"
        /\ retry.attempts = row.attempts /\ retry.lease = 0
    BY <1>2, SMT DEF JobRow
  <2> HIDE DEF retry
  <2> QED BY <1>3, <1>4, <2>1, <2>2, ClosedRow
<1>5. ASSUME NEW d \in {"retryable", "permanent"}
      PROVE  RowInv(j, fail(d))
  <2> DEFINE new == fail(d)
  <2>1. new \in JobRow
    BY <1>2, <1>3, RowUpdate, Zenon
  <2>2. /\ new.status = "failed" /\ new.failure = d
        /\ new.attempts = row.attempts /\ new.lease = 0
    BY <1>2, SMT DEF JobRow
  <2>3. d # "none"
    OBVIOUS
  <2> HIDE DEF new
  <2>4. RowInv(j, new)
    BY <1>3, <2>1, <2>2, <2>3, ClosedRow
  <2> QED BY <2>4 DEF new
<1> QED BY <1>4, <1>5 DEF rel

(* A committed stage that ended in a waiting or a final state.             *)
LEMMA CommittedRow ==
  ASSUME NEW j \in Jobs, NEW row, RowInv(j, row), NEW r \in JobRow,
         r.status \in (JobState \ ActiveStates) \ {"retry_scheduled"},
         r.attempts = row.attempts,
         r.status = "failed" <=> r.failure # "none",
         NEW c \in JobCheckpoint
  PROVE  /\ RowInv(j, [Released(r) EXCEPT !.checkpoint = c])
         /\ [Released(r) EXCEPT !.checkpoint = c].attempts = row.attempts
<1> DEFINE rel == Released(r)
           new == [rel EXCEPT !.checkpoint = c]
<1>1. /\ rel \in JobRow /\ rel.status = r.status /\ rel.failure = r.failure
      /\ rel.attempts = r.attempts /\ rel.lease = 0
  BY ReleasedRow
<1> HIDE DEF rel
<1>2. new \in JobRow
  BY <1>1, RowUpdate, Zenon
<1>3. /\ new.status = r.status /\ new.failure = r.failure
      /\ new.attempts = row.attempts /\ new.lease = 0
  BY <1>1, SMT DEF JobRow
<1> HIDE DEF new
<1>4. RowInv(j, new)
  BY <1>2, <1>3, ClosedRow
<1> QED BY <1>3, <1>4 DEF rel, new

LEMMA TimedRow ==
  ASSUME NEW j \in Jobs, NEW row, RowInv(j, row), row.status # "absent"
  PROVE  /\ \A n \in 0..LeaseTerm : RowInv(j, [row EXCEPT !.ttl = n])
         /\ \A b \in BOOLEAN : RowInv(j, [row EXCEPT !.due = b])
<1>1. row \in JobRow
  BY DEF RowInv
<1>2. ASSUME NEW n \in 0..LeaseTerm
      PROVE  RowInv(j, [row EXCEPT !.ttl = n])
  <2> DEFINE new == [row EXCEPT !.ttl = n]
  <2>1. new \in JobRow
    BY <1>1, RowUpdate
  <2>2. /\ new.status = row.status /\ new.attempts = row.attempts
        /\ new.lease = row.lease /\ new.failure = row.failure
    BY <1>1, SMT DEF JobRow
  <2> HIDE DEF new
  <2>3. RowInv(j, new)
    BY <2>1, <2>2, SMT DEF RowInv, Active, BudgetLeft
  <2> QED BY <2>3 DEF new
<1>3. ASSUME NEW b \in BOOLEAN
      PROVE  RowInv(j, [row EXCEPT !.due = b])
  <2> DEFINE new == [row EXCEPT !.due = b]
  <2>1. new \in JobRow
    BY <1>1, RowUpdate
  <2>2. /\ new.status = row.status /\ new.attempts = row.attempts
        /\ new.lease = row.lease /\ new.failure = row.failure
    BY <1>1, SMT DEF JobRow
  <2> HIDE DEF new
  <2>3. RowInv(j, new)
    BY <2>1, <2>2, SMT DEF RowInv, Active, BudgetLeft
  <2> QED BY <2>3 DEF new
<1> QED BY <1>2, <1>3

LEMMA DecidedRow ==
  ASSUME NEW j \in Jobs, NEW row, RowInv(j, row),
         row.status = "awaiting_approval", NEW v \in {"approved", "rejected"}
  PROVE  RowInv(j, [row EXCEPT !.status = v, !.checkpoint = "approval_recorded"])
<1> DEFINE new == [row EXCEPT !.status = v, !.checkpoint = "approval_recorded"]
<1>1. /\ row \in JobRow /\ v \in JobState
      /\ "approval_recorded" \in JobCheckpoint
  BY Values DEF RowInv
<1>2. new \in JobRow
  BY <1>1, RowUpdate, Zenon
<1>3. /\ new.status = v /\ new.attempts = row.attempts
      /\ new.lease = row.lease /\ new.failure = row.failure
  BY <1>1, SMT DEF JobRow
<1> HIDE DEF new
<1>4. RowInv(j, new)
  BY <1>2, <1>3, Values, SMT DEF RowInv, Active, BudgetLeft
<1> QED BY <1>4 DEF new

-----------------------------------------------------------------------------
(* Steps seen from the rows and from the workers.                          *)

AttemptsGrow == \A j \in Jobs : job'[j].attempts >= job[j].attempts

(* A step that rewrites one row.                                           *)
LEMMA OneRow ==
  ASSUME RowsInv, NEW j \in Jobs, NEW new, RowInv(j, new),
         new.attempts = job[j].attempts, job' = [job EXCEPT ![j] = new]
  PROVE  RowsInv' /\ AttemptsGrow
<1>1. job' \in [Jobs -> JobRow]
  BY SMT DEF RowsInv, RowInv
<1>2. \A k \in Jobs : job'[k] = IF k = j THEN new ELSE job[k]
  BY SMT DEF RowsInv
<1>3. \A k \in Jobs : RowInv(k, job'[k])
  BY <1>2, SMT DEF RowsInv
<1>4. \A k \in Jobs : job[k].attempts \in Nat
  BY SMT DEF RowsInv, JobRow
<1> QED BY <1>1, <1>2, <1>3, <1>4, SMT DEF RowsInv, AttemptsGrow

LEMMA NoRow ==
  ASSUME RowsInv, UNCHANGED job
  PROVE  RowsInv' /\ AttemptsGrow
<1>1. \A k \in Jobs : job[k].attempts \in Nat
  BY SMT DEF RowsInv, JobRow
<1>2. AttemptsGrow
  BY <1>1, SMT DEF AttemptsGrow
<1>3. RowsInv'
  BY SMT DEF RowsInv
<1> QED BY <1>2, <1>3

(* A worker that claims nothing goes idle or changes its pc.               *)
Keeps(w) ==
  \/ UNCHANGED worker
  \/ worker' = [worker EXCEPT ![w] = Idle]
  \/ /\ worker[w].pc # "idle"
     /\ \E p \in {"working", "reconciled", "failing"} :
          worker' = [worker EXCEPT ![w].pc = p]

LEMMA KeepsTokens ==
  ASSUME IInv, RowsInv', AttemptsGrow, NEW w \in Workers, Keeps(w)
  PROVE  WorkersInv' /\ TokensDiffer'
<1>1. /\ worker \in [Workers -> WorkerState]
      /\ \A v \in Workers : worker[v] = Idle \/ Carries(worker[v])
  BY DEF IInv, WorkersInv
<1>2. NoJob \notin Jobs /\ Idle.job = NoJob /\ Idle.pc = "idle"
  BY QueueAssumption DEF QueueAssumption, Idle
<1>3. \A k \in Jobs : job[k].attempts \in Nat /\ job'[k].attempts \in Nat
  BY SMT DEF IInv, RowsInv, JobRow
<1>4. ASSUME NEW r, Carries(r)
      PROVE  Carries(r)'
  BY <1>3, <1>4, SMT DEF Carries, AttemptsGrow
<1>5. CASE UNCHANGED worker
  BY <1>1, <1>4, <1>5, SMT DEF IInv, WorkersInv, TokensDiffer
<1>6. CASE worker' = [worker EXCEPT ![w] = Idle]
  <2>1. \A v \in Workers : worker'[v] = IF v = w THEN Idle ELSE worker[v]
    BY <1>1, <1>6
  <2>2. Idle \in WorkerState
    BY SMT DEF Idle, WorkerState
  <2>3. worker' \in [Workers -> WorkerState]
    BY <1>1, <1>6, <2>2
  <2>4. WorkersInv'
    BY <1>1, <1>4, <2>1, <2>3 DEF WorkersInv
  <2>5. TokensDiffer'
    BY <1>2, <2>1, SMT DEF IInv, TokensDiffer
  <2> QED BY <2>4, <2>5
<1>7. ASSUME worker[w].pc # "idle",
             NEW p \in {"working", "reconciled", "failing"},
             worker' = [worker EXCEPT ![w].pc = p]
      PROVE  WorkersInv' /\ TokensDiffer'
  <2> DEFINE new == [worker[w] EXCEPT !.pc = p]
  <2>1. \A v \in Workers : worker'[v] = IF v = w THEN new ELSE worker[v]
    BY <1>1, <1>7
  <2>2. /\ new \in WorkerState /\ new.job = worker[w].job
        /\ new.stage = worker[w].stage /\ new.token = worker[w].token
    BY <1>1, SMT DEF WorkerState
  <2>3. Carries(worker[w])
    BY <1>1, <1>2, <1>7
  <2>4. Carries(new)
    BY <2>2, <2>3 DEF Carries
  <2>5. worker' \in [Workers -> WorkerState]
    BY <1>1, <1>7, <2>2
  <2> HIDE DEF new
  <2>6. WorkersInv'
    BY <1>1, <1>4, <2>1, <2>4, <2>5 DEF WorkersInv
  <2>7. TokensDiffer'
    BY <2>1, <2>2, SMT DEF IInv, TokensDiffer
  <2> QED BY <2>6, <2>7
<1> QED BY <1>5, <1>6, <1>7 DEF Keeps

(* A claim: promotions, and one worker that takes one row with a token     *)
(* above every token the job has issued.                                   *)
LEMMA ClaimKeepsIInv ==
  ASSUME IInv, NEW w \in Workers, NEW s \in ActiveStates,
         NEW locked \in SUBSET Jobs, NEW candidates \in SUBSET Jobs,
         \A j \in candidates : /\ BudgetLeft(j, PromotedBut(locked)[j])
                               /\ PromotedBut(locked)[j].failure = "none",
         ClaimFrom(w, s, PromotedBut(locked), candidates)
  PROVE  RowsInv' /\ WorkersInv' /\ TokensDiffer' /\ AttemptsGrow
<1> DEFINE rows == PromotedBut(locked)
<1>1. /\ rows \in [Jobs -> JobRow]
      /\ \A j \in Jobs : RowInv(j, rows[j])
      /\ \A j \in Jobs : rows[j].attempts = job[j].attempts
  <2>1. \A j \in Jobs : rows[j] = job[j] \/ rows[j] = Promote(j, job[j])
    BY DEF PromotedBut
  <2>2. \A j \in Jobs : /\ RowInv(j, rows[j])
                        /\ rows[j].attempts = job[j].attempts
    BY <2>1, PromotedRow DEF IInv, RowsInv
  <2>3. \A j \in Jobs : rows[j] \in JobRow
    BY <2>2 DEF RowInv
  <2>4. rows = [j \in Jobs |-> rows[j]]
    BY DEF PromotedBut
  <2> QED BY <2>2, <2>3, <2>4, Zenon
<1> HIDE DEF rows
<1>2. \A k \in Jobs : job[k].attempts \in Nat
  BY SMT DEF IInv, RowsInv, JobRow
<1>3. CASE job' = rows /\ UNCHANGED worker
  <2>1. RowsInv'
    BY <1>1, <1>3 DEF RowsInv
  <2>2. AttemptsGrow
    BY <1>1, <1>2, <1>3, SMT DEF AttemptsGrow
  <2>3. Keeps(w)
    BY <1>3 DEF Keeps
  <2> QED BY <2>1, <2>2, <2>3, KeepsTokens
<1>4. ASSUME NEW j \in candidates,
             job' = [rows EXCEPT ![j] = Leased(rows[j], s)],
             worker' = [worker EXCEPT ![w] = Holding(j, s, FreshToken(rows[j]))]
      PROVE  RowsInv' /\ WorkersInv' /\ TokensDiffer' /\ AttemptsGrow
  <2> DEFINE new == Leased(rows[j], s)
             holding == Holding(j, s, FreshToken(rows[j]))
  <2>1. RowInv(j, new) /\ new.attempts = job[j].attempts + 1
    BY <1>1, LeasedRow DEF rows
  <2> HIDE DEF new
  <2>2. \A k \in Jobs : job'[k] = IF k = j THEN new ELSE rows[k]
    BY <1>1, <1>4 DEF new
  <2>3. job' \in [Jobs -> JobRow]
    <3>1. new \in JobRow
      BY <2>1 DEF RowInv
    <3> QED BY <1>1, <1>4, <3>1, Zenon DEF new
  <2>4. RowsInv'
    BY <1>1, <2>1, <2>2, <2>3 DEF RowsInv
  <2>5. /\ AttemptsGrow
        /\ job'[j].attempts = job[j].attempts + 1
        /\ \A k \in Jobs : job'[k].attempts \in Nat
    BY <1>1, <1>2, <2>1, <2>2, SMT DEF AttemptsGrow
  <2>6. /\ holding \in WorkerState
        /\ holding.job = j /\ holding.stage = s
        /\ holding.token = job[j].attempts + 1
    BY <1>1, <1>2, SMT DEF Holding, WorkerState, FreshToken
  <2> HIDE DEF holding
  <2>7. \A v \in Workers : worker'[v] = IF v = w THEN holding ELSE worker[v]
    BY <1>4 DEF IInv, WorkersInv, holding
  <2>8. worker' \in [Workers -> WorkerState]
    BY <1>4, <2>6 DEF IInv, WorkersInv, holding
  <2>9. \A v \in Workers : worker'[v] = Idle
                             \/ /\ worker'[v].job \in Jobs
                                /\ worker'[v].stage \in ActiveStates
                                /\ worker'[v].token \in
                                     1..job'[worker'[v].job].attempts
    <3>1. /\ holding.job \in Jobs
          /\ holding.stage \in ActiveStates
          /\ holding.token \in 1..job'[holding.job].attempts
      BY <1>2, <2>5, <2>6, SMT
    <3>2. ASSUME NEW v \in Workers, v # w
          PROVE  \/ worker[v] = Idle
                 \/ /\ worker[v].job \in Jobs
                    /\ worker[v].stage \in ActiveStates
                    /\ worker[v].token \in 1..job'[worker[v].job].attempts
      BY <1>2, <2>5, SMT DEF IInv, WorkersInv, Carries, AttemptsGrow
    <3> QED BY <2>7, <3>1, <3>2
  <2>10. WorkersInv'
    BY <2>8, <2>9 DEF WorkersInv, Carries
  <2>11. TokensDiffer'
    <3>1. \A v \in Workers :
            v # w /\ worker[v].job = j => worker[v].token <= job[j].attempts
      <4>1. \A v \in Workers : worker[v].job \in Jobs => Carries(worker[v])
        BY QueueAssumption DEF IInv, WorkersInv, Idle, QueueAssumption
      <4> QED BY <1>2, <4>1, SMT DEF Carries
    <3> QED BY <1>2, <2>6, <2>7, <3>1, SMT DEF IInv, TokensDiffer
  <2> QED BY <2>4, <2>5, <2>10, <2>11
<1> QED BY <1>3, <1>4 DEF ClaimFrom, rows

LEMMA BusyCarries ==
  ASSUME IInv, NEW w \in Workers, worker[w].pc # "idle"
  PROVE  /\ Carries(worker[w])
         /\ worker[w] \in WorkerState
         /\ RowInv(worker[w].job, job[worker[w].job])
<1>1. Idle.pc = "idle"
  BY DEF Idle
<1>2. Carries(worker[w]) /\ worker[w] \in WorkerState
  BY <1>1 DEF IInv, WorkersInv
<1>3. RowInv(worker[w].job, job[worker[w].job])
  BY <1>2 DEF IInv, RowsInv, Carries
<1> QED BY <1>2, <1>3

LEMMA RespondsKeeps ==
  ASSUME NEW w \in Workers, worker[w].pc # "idle", NEW rec, Responds(w, rec),
         \/ rec = Idle
         \/ rec = [worker[w] EXCEPT !.pc = "working"]
         \/ rec = [worker[w] EXCEPT !.pc = "reconciled"]
  PROVE  Keeps(w)
BY Zenon DEF Responds, Keeps

LEMMA CommitKeeps ==
  ASSUME IInv, NEW w \in Workers, NEW s, MayCommit(w, s), NEW r \in JobRow,
         r.status \in (JobState \ ActiveStates) \ {"retry_scheduled"},
         r.attempts = job[worker[w].job].attempts,
         r.status = "failed" <=> r.failure # "none",
         Commit(w, r)
  PROVE  RowsInv' /\ AttemptsGrow /\ Keeps(w)
<1> DEFINE j == worker[w].job
           new == [Released(r) EXCEPT !.checkpoint = StageResult[worker[w].stage]]
<1>1. worker[w].pc # "idle"
  BY DEF MayCommit, Owned
<1>2. j \in Jobs /\ worker[w].stage \in ActiveStates /\ RowInv(j, job[j])
  BY <1>1, BusyCarries DEF Carries
<1>3. StageResult[worker[w].stage] \in JobCheckpoint
  BY <1>2, Values
<1>4. RowInv(j, new) /\ new.attempts = job[j].attempts
  BY <1>2, <1>3, CommittedRow
<1>5. job' = [job EXCEPT ![j] = new] /\ Responds(w, Idle)
  BY DEF Commit
<1> HIDE DEF new, j
<1>6. RowsInv' /\ AttemptsGrow
  BY <1>2, <1>4, <1>5, OneRow DEF IInv
<1>7. Keeps(w)
  BY <1>1, <1>5, RespondsKeeps
<1> QED BY <1>6, <1>7

-----------------------------------------------------------------------------
(* The actions, one lemma for those of a kind.                             *)

LEMMA QuietKept ==
  ASSUME IInv, NEW w \in Workers, RowsInv', AttemptsGrow, EvidenceType', Keeps(w)
  PROVE  IInv'
BY KeepsTokens DEF IInv

(* No worker moves.                                                        *)
LEMMA IdleKept ==
  ASSUME IInv, RowsInv', AttemptsGrow, EvidenceType', UNCHANGED worker
  PROVE  IInv'
<1>1. CASE Workers = {}
  BY <1>1 DEF IInv, WorkersInv, TokensDiffer
<1>2. ASSUME NEW w \in Workers
      PROVE  IInv'
  BY QuietKept DEF Keeps
<1> QED BY <1>1, <1>2

LEMMA SubmitKept ==
  ASSUME IInv, NEW j \in Jobs, Submit(j)
  PROVE  IInv'
<1> PICK due \in BOOLEAN :
      job' = [job EXCEPT ![j] = [AbsentJob EXCEPT !.status = "queued", !.due = due]]
  BY DEF Submit
<1> DEFINE new == [AbsentJob EXCEPT !.status = "queued", !.due = due]
<1>1. RowInv(j, new)
  BY SubmittedRow
<1>2. job[j] = AbsentJob
  BY DEF Submit, IInv, RowsInv, RowInv
<1>3. new.attempts = job[j].attempts
  BY <1>2, SMT DEF AbsentJob
<1> HIDE DEF new
<1>4. job' = [job EXCEPT ![j] = new]
  BY DEF new
<1>5. RowsInv' /\ AttemptsGrow
  BY <1>1, <1>3, <1>4, OneRow DEF IInv
<1>6. EvidenceType'
  <2>1. run' \in [Jobs -> RunStatus]
    BY FunctionUpdate, EvidenceValues, Zenon DEF IInv, EvidenceType, Submit
  <2> QED BY <2>1, Zenon DEF IInv, EvidenceType, Submit
<1>7. UNCHANGED worker
  BY DEF Submit
<1> QED BY <1>5, <1>6, <1>7, IdleKept

LEMMA ClaimKept ==
  ASSUME IInv, NEW w \in Workers,
         \/ \E s \in ActiveStates \ {"creating_pr"} : ClaimNext(w, s)
         \/ ClaimPrNext(w)
  PROVE  IInv'
<1>1. ASSUME NEW s \in ActiveStates, NEW locked \in SUBSET Jobs,
             NEW candidates \in SUBSET Jobs,
             \A j \in candidates :
               /\ BudgetLeft(j, PromotedBut(locked)[j])
               /\ PromotedBut(locked)[j].status \in {"queued", "approved"},
             ClaimFrom(w, s, PromotedBut(locked), candidates)
      PROVE  IInv'
  <2>1. ASSUME NEW j \in candidates
        PROVE  PromotedBut(locked)[j].failure = "none"
    <3>1. PromotedBut(locked)[j] \in {job[j], Promote(j, job[j])}
      BY DEF PromotedBut
    <3>2. RowInv(j, PromotedBut(locked)[j])
      BY <3>1, PromotedRow DEF IInv, RowsInv
    <3> QED BY <1>1, <3>2 DEF RowInv
  <2>2. RowsInv' /\ WorkersInv' /\ TokensDiffer' /\ AttemptsGrow
    BY <1>1, <2>1, ClaimKeepsIInv
  <2>3. EvidenceType'
    BY <1>1 DEF IInv, EvidenceType, ClaimFrom, evidence
  <2> QED BY <2>2, <2>3 DEF IInv
<1>2. ASSUME NEW s \in ActiveStates, ClaimNext(w, s)
      PROVE  IInv'
  BY <1>1, <1>2 DEF ClaimNext, Claimable
<1>3. CASE ClaimPrNext(w)
  <2>1. "creating_pr" \in ActiveStates
    BY DEF ActiveStates
  <2> QED BY <1>1, <1>3, <2>1 DEF ClaimPrNext, PrClaimable
<1> QED BY <1>2, <1>3

LEMMA BeginKept ==
  ASSUME IInv, NEW w \in Workers,
         \/ BeginAnalysis(w)
         \/ BeginPatchGeneration(w)
         \/ BeginPatchValidation(w)
         \/ BeginPrCreation(w)
  PROVE  IInv'
<1>1. ASSUME NEW s, Begin(w, s)
      PROVE  UNCHANGED job /\ Keeps(w)
  <2>1. worker[w].pc # "idle"
    BY <1>1 DEF Begin
  <2> QED BY <1>1, <2>1, RespondsKeeps DEF Begin
<1>2. UNCHANGED job /\ Keeps(w)
  BY <1>1 DEF BeginAnalysis, BeginPatchGeneration, BeginPatchValidation,
              BeginPrCreation
<1>3. RowsInv' /\ AttemptsGrow
  BY <1>2, NoRow DEF IInv
<1>4. EvidenceType'
  <2>1. CASE BeginAnalysis(w)
    <3>1. /\ run' = [run EXCEPT ![worker[w].job] = "analyzing"]
          /\ UNCHANGED <<action, validation, decision, operation, pullRequest>>
      BY <2>1, Zenon DEF BeginAnalysis, Begin
    <3>2. run' \in [Jobs -> RunStatus]
      BY <3>1, FunctionUpdate, EvidenceValues, Zenon DEF IInv, EvidenceType
    <3> QED BY <3>1, <3>2, Zenon DEF IInv, EvidenceType
  <2>2. CASE BeginPrCreation(w)
    <3>1. /\ operation' = [operation EXCEPT ![worker[w].job] =
                             IF @ = "none" THEN "pending" ELSE @]
          /\ UNCHANGED <<run, action, validation, decision, pullRequest>>
      BY <2>2, Zenon DEF BeginPrCreation, Begin
    <3>2. operation' \in [Jobs -> OperationStatus]
      BY <3>1, FunctionUpdate, EvidenceValues, Zenon DEF IInv, EvidenceType
    <3> QED BY <3>1, <3>2, Zenon DEF IInv, EvidenceType
  <2>3. CASE BeginPatchGeneration(w) \/ BeginPatchValidation(w)
    BY <2>3 DEF IInv, EvidenceType, BeginPatchGeneration,
                BeginPatchValidation, Begin
  <2> QED BY <2>1, <2>2, <2>3
<1> QED BY <1>2, <1>3, <1>4, QuietKept

(* The steps of a worker that leave the rows alone.                        *)
LEMMA LocalKept ==
  ASSUME IInv, NEW w \in Workers,
         \/ EnsurePullRequest(w)
         \/ StageFails(w)
         \/ LeaseLost(w)
         \/ ReplayCompletion(w)
  PROVE  IInv'
<1>1. UNCHANGED job
  BY DEF EnsurePullRequest, StageFails, LeaseLost, ReplayCompletion
<1>2. RowsInv' /\ AttemptsGrow
  BY <1>1, NoRow DEF IInv
<1>3. EvidenceType'
  <2>1. CASE EnsurePullRequest(w)
    <3>1. pullRequest' \in [Jobs -> BOOLEAN]
      BY <2>1, Zenon DEF IInv, EvidenceType, EnsurePullRequest
    <3> QED BY <2>1, <3>1, Zenon DEF IInv, EvidenceType, EnsurePullRequest
  <2>2. CASE UNCHANGED evidence
    BY <2>2 DEF IInv, EvidenceType, evidence
  <2> QED BY <2>1, <2>2 DEF StageFails, LeaseLost, ReplayCompletion
<1>4. Keeps(w)
  <2>1. CASE EnsurePullRequest(w)
    BY <2>1, RespondsKeeps DEF EnsurePullRequest
  <2>2. CASE StageFails(w)
    BY <2>2 DEF StageFails, Keeps
  <2>3. CASE LeaseLost(w) \/ ReplayCompletion(w)
    BY <2>3 DEF LeaseLost, ReplayCompletion, Keeps
  <2> QED BY <2>1, <2>2, <2>3
<1> QED BY <1>2, <1>3, <1>4, QuietKept

(* A process stops with some of the workers.                               *)
LEMMA CrashKept ==
  ASSUME IInv, NEW stopped \in SUBSET Workers, Crash(stopped)
  PROVE  IInv'
<1>1. UNCHANGED <<job, evidence>>
  BY DEF Crash
<1>2. RowsInv' /\ AttemptsGrow
  BY <1>1, NoRow DEF IInv
<1>3. EvidenceType'
  BY <1>1 DEF IInv, EvidenceType, evidence
<1>4. \A w \in Workers : worker'[w] = Idle \/ worker'[w] = worker[w]
  BY DEF Crash
<1>5. WorkersInv'
  <2>1. Idle \in WorkerState
    BY SMT DEF Idle, WorkerState
  <2>2. worker' \in [Workers -> WorkerState]
    BY <1>4, <2>1 DEF Crash, IInv, WorkersInv
  <2>3. \A w \in Workers : worker'[w] = Idle \/ Carries(worker[w])'
    BY <1>1, <1>4 DEF IInv, WorkersInv, Carries, evidence
  <2> QED BY <2>2, <2>3 DEF WorkersInv
<1>6. TokensDiffer'
  <2>1. Idle.job \notin Jobs
    BY QueueAssumption DEF QueueAssumption, Idle
  <2> QED BY <1>4, <2>1 DEF IInv, TokensDiffer
<1> QED BY <1>2, <1>3, <1>5, <1>6 DEF IInv

(* The rows the complete_... transactions start their commit from.         *)
CommitRow(r, row) ==
  /\ r \in JobRow
  /\ r.status \in (JobState \ ActiveStates) \ {"retry_scheduled"}
  /\ r.attempts = row.attempts
  /\ r.status = "failed" <=> r.failure # "none"

LEMMA CompletionRows ==
  ASSUME NEW row \in JobRow, row.failure = "none"
  PROVE  /\ \A s \in ActiveStates :
              CommitRow([row EXCEPT !.status = "queued", !.resume = s], row)
         /\ CommitRow([row EXCEPT !.status = "completed"], row)
         /\ CommitRow([row EXCEPT !.status = "completed", !.failure = "none"], row)
         /\ CommitRow([row EXCEPT !.status = "awaiting_approval"], row)
         /\ CommitRow([row EXCEPT !.status = "failed", !.failure = "permanent"], row)
<1>1. /\ {"queued", "completed", "awaiting_approval", "failed"}
           \subseteq (JobState \ ActiveStates) \ {"retry_scheduled"}
      /\ "none" \in Disposition /\ "permanent" \in Disposition
  BY Values
<1>2. ASSUME NEW s \in ActiveStates
      PROVE  CommitRow([row EXCEPT !.status = "queued", !.resume = s], row)
  <2>1. [row EXCEPT !.status = "queued", !.resume = s] \in JobRow
    BY <1>1, RowUpdate, Zenon
  <2> QED BY <1>1, <2>1, SMT DEF CommitRow, JobRow
<1>3. CommitRow([row EXCEPT !.status = "completed"], row)
  <2>1. [row EXCEPT !.status = "completed"] \in JobRow
    BY <1>1, RowUpdate, Zenon
  <2> QED BY <1>1, <2>1, SMT DEF CommitRow, JobRow
<1>4. CommitRow([row EXCEPT !.status = "completed", !.failure = "none"], row)
  <2>1. [row EXCEPT !.status = "completed", !.failure = "none"] \in JobRow
    BY <1>1, RowUpdate, Zenon
  <2> QED BY <1>1, <2>1, SMT DEF CommitRow, JobRow
<1>5. CommitRow([row EXCEPT !.status = "awaiting_approval"], row)
  <2>1. [row EXCEPT !.status = "awaiting_approval"] \in JobRow
    BY <1>1, RowUpdate, Zenon
  <2> QED BY <1>1, <2>1, SMT DEF CommitRow, JobRow
<1>6. CommitRow([row EXCEPT !.status = "failed", !.failure = "permanent"], row)
  <2>1. [row EXCEPT !.status = "failed", !.failure = "permanent"] \in JobRow
    BY <1>1, RowUpdate, Zenon
  <2> QED BY <1>1, <2>1, SMT DEF CommitRow, JobRow
<1> QED BY <1>2, <1>3, <1>4, <1>5, <1>6

(* A stage commits only from an active row, which has no failure on it.    *)
LEMMA MayCommitRow ==
  ASSUME IInv, NEW w \in Workers, NEW s, MayCommit(w, s)
  PROVE  /\ worker[w].job \in Jobs
         /\ job[worker[w].job] \in JobRow
         /\ job[worker[w].job].failure = "none"
<1>1. worker[w].pc # "idle" /\ Active(job[worker[w].job])
  BY DEF MayCommit, Owned, HasToken
<1>2. worker[w].job \in Jobs /\ RowInv(worker[w].job, job[worker[w].job])
  BY <1>1, BusyCarries DEF Carries
<1> QED BY <1>1, <1>2, Values, SMT DEF RowInv, Active

LEMMA CompleteAnalysisKept ==
  ASSUME IInv, NEW w \in Workers, CompleteAnalysis(w)
  PROVE  IInv'
<1> DEFINE j == worker[w].job
           done == [job[j] EXCEPT !.status = "queued", !.resume = "generating_patch"]
           end == [job[j] EXCEPT !.status = "completed"]
<1>1. MayCommit(w, "analyzing")
  BY DEF CompleteAnalysis
<1>2. /\ Commit(w, done) \/ Commit(w, end)
      /\ \E result \in RunStatus : run' = [run EXCEPT ![j] = result]
      /\ UNCHANGED <<action, validation, decision, operation, pullRequest>>
  BY EvidenceValues, Zenon DEF CompleteAnalysis
<1>3. CommitRow(done, job[j]) /\ CommitRow(end, job[j])
  <2>1. "generating_patch" \in ActiveStates
    BY DEF ActiveStates
  <2> QED BY <1>1, <2>1, MayCommitRow, CompletionRows
<1>4. run' \in [Jobs -> RunStatus]
  BY <1>2, FunctionUpdate, EvidenceValues, Zenon DEF IInv, EvidenceType
<1>5. EvidenceType'
  BY <1>2, <1>4, Zenon DEF IInv, EvidenceType
<1> HIDE DEF done, end
<1>6. RowsInv' /\ AttemptsGrow /\ Keeps(w)
  BY <1>1, <1>2, <1>3, CommitKeeps DEF CommitRow
<1> QED BY <1>5, <1>6, QuietKept

LEMMA CompletePatchGenerationKept ==
  ASSUME IInv, NEW w \in Workers, CompletePatchGeneration(w)
  PROVE  IInv'
<1> DEFINE j == worker[w].job
           done == [job[j] EXCEPT !.status = "queued", !.resume = "validating_patch"]
<1>1. MayCommit(w, "generating_patch")
  BY DEF CompletePatchGeneration
<1>2. /\ Commit(w, done)
      /\ action' = [action EXCEPT ![j] = "proposed"]
      /\ UNCHANGED <<run, validation, decision, operation, pullRequest>>
  BY Zenon DEF CompletePatchGeneration
<1>3. CommitRow(done, job[j])
  <2>1. "validating_patch" \in ActiveStates
    BY DEF ActiveStates
  <2> QED BY <1>1, <2>1, MayCommitRow, CompletionRows
<1>4. action' \in [Jobs -> ActionStatus]
  BY <1>2, FunctionUpdate, EvidenceValues, Zenon DEF IInv, EvidenceType
<1>5. EvidenceType'
  BY <1>2, <1>4, Zenon DEF IInv, EvidenceType
<1> HIDE DEF done
<1>6. RowsInv' /\ AttemptsGrow /\ Keeps(w)
  BY <1>1, <1>2, <1>3, CommitKeeps DEF CommitRow
<1> QED BY <1>5, <1>6, QuietKept

LEMMA CompletePatchValidationKept ==
  ASSUME IInv, NEW w \in Workers, CompletePatchValidation(w)
  PROVE  IInv'
<1> DEFINE j == worker[w].job
           done == [job[j] EXCEPT !.status = "awaiting_approval"]
           end == [job[j] EXCEPT !.status = "failed", !.failure = "permanent"]
<1>1. MayCommit(w, "validating_patch")
  BY DEF CompletePatchValidation
<1>2. /\ Commit(w, done) \/ Commit(w, end)
      /\ \E verdict \in ValidationStatus :
           validation' = [validation EXCEPT ![j] = verdict]
      /\ UNCHANGED action \/ action' = [action EXCEPT ![j] = "failed"]
      /\ UNCHANGED <<run, decision, operation, pullRequest>>
  BY EvidenceValues, Zenon DEF CompletePatchValidation
<1>3. CommitRow(done, job[j]) /\ CommitRow(end, job[j])
  BY <1>1, MayCommitRow, CompletionRows
<1>4. /\ action' \in [Jobs -> ActionStatus]
      /\ validation' \in [Jobs -> ValidationStatus]
  <2>1. action' \in [Jobs -> ActionStatus]
    BY <1>2, FunctionUpdate, EvidenceValues, Zenon DEF IInv, EvidenceType
  <2>2. validation' \in [Jobs -> ValidationStatus]
    BY <1>2, FunctionUpdate, Zenon DEF IInv, EvidenceType
  <2> QED BY <2>1, <2>2
<1>5. EvidenceType'
  BY <1>2, <1>4, Zenon DEF IInv, EvidenceType
<1> HIDE DEF done, end
<1>6. RowsInv' /\ AttemptsGrow /\ Keeps(w)
  BY <1>1, <1>2, <1>3, CommitKeeps DEF CommitRow
<1> QED BY <1>5, <1>6, QuietKept

LEMMA CompletePrCreationKept ==
  ASSUME IInv, NEW w \in Workers, CompletePrCreation(w)
  PROVE  IInv'
<1> DEFINE j == worker[w].job
           end == [job[j] EXCEPT !.status = "completed", !.failure = "none"]
<1>1. MayCommit(w, "creating_pr")
  BY DEF CompletePrCreation
<1>2. /\ Commit(w, end)
      /\ operation' = [operation EXCEPT ![j] = "completed"]
      /\ action' = [action EXCEPT ![j] = "pr_created"]
      /\ UNCHANGED <<run, validation, decision, pullRequest>>
  BY Zenon DEF CompletePrCreation
<1>3. CommitRow(end, job[j])
  BY <1>1, MayCommitRow, CompletionRows
<1>4. /\ action' \in [Jobs -> ActionStatus]
      /\ operation' \in [Jobs -> OperationStatus]
  BY <1>2, FunctionUpdate, EvidenceValues, Zenon DEF IInv, EvidenceType
<1>5. EvidenceType'
  BY <1>2, <1>4, Zenon DEF IInv, EvidenceType
<1> HIDE DEF end
<1>6. RowsInv' /\ AttemptsGrow /\ Keeps(w)
  BY <1>1, <1>2, <1>3, CommitKeeps DEF CommitRow
<1> QED BY <1>5, <1>6, QuietKept

LEMMA ScheduleFailureKept ==
  ASSUME IInv, NEW w \in Workers, ScheduleFailure(w)
  PROVE  IInv'
<1> DEFINE j == worker[w].job
           retry == [Released(job[j]) EXCEPT !.status = "retry_scheduled",
                       !.resume = job[j].status, !.due = FALSE,
                       !.failure = "retryable"]
           fail(d) == [Released(job[j]) EXCEPT !.status = "failed", !.failure = d]
<1>1. worker[w].pc # "idle" /\ Active(job[j])
  BY DEF ScheduleFailure, Owned, HasToken
<1>2. j \in Jobs /\ RowInv(j, job[j]) /\ job[j] \in JobRow
  BY <1>1, BusyCarries DEF Carries, RowInv
<1>3. /\ retry.attempts = job[j].attempts
      /\ \A d : fail(d).attempts = job[j].attempts
  BY <1>2, ReleasedRow, SMT DEF JobRow
<1>4. \/ BudgetLeft(j, job[j]) /\ job' = [job EXCEPT ![j] = retry]
      \/ \E d \in {"retryable", "permanent"} : job' = [job EXCEPT ![j] = fail(d)]
  BY Zenon DEF ScheduleFailure
<1>5. RowsInv' /\ AttemptsGrow
  <2>1. CASE BudgetLeft(j, job[j]) /\ job' = [job EXCEPT ![j] = retry]
    <3>1. RowInv(j, retry)
      BY <1>1, <1>2, <2>1, ScheduledRow
    <3> HIDE DEF retry
    <3> QED BY <1>2, <1>3, <2>1, <3>1, OneRow DEF IInv
  <2>2. ASSUME NEW d \in {"retryable", "permanent"},
               job' = [job EXCEPT ![j] = fail(d)]
        PROVE  RowsInv' /\ AttemptsGrow
    <3>1. RowInv(j, fail(d))
      BY <1>1, <1>2, ScheduledRow
    <3> HIDE DEF fail
    <3> QED BY <1>2, <1>3, <2>2, <3>1, OneRow DEF IInv
  <2> QED BY <1>4, <2>1, <2>2
<1>6. EvidenceType'
  <2>1. /\ \/ UNCHANGED <<run, action>>
           \/ /\ run' = [run EXCEPT ![j] =
                   IF job[j].status = "analyzing" /\ @ \in {"queued", "analyzing"}
                   THEN "failed" ELSE @]
              /\ action' = [action EXCEPT ![j] =
                   IF job[j].status = "creating_pr" /\ @ = "approved"
                   THEN "failed" ELSE @]
        /\ UNCHANGED <<validation, decision, operation, pullRequest>>
    BY Zenon DEF ScheduleFailure
  <2>2. run[j] \in RunStatus /\ action[j] \in ActionStatus
    BY <1>2 DEF IInv, EvidenceType
  <2>3. run' \in [Jobs -> RunStatus]
    BY <2>1, <2>2, FunctionUpdate, EvidenceValues, SMT DEF IInv, EvidenceType
  <2>4. action' \in [Jobs -> ActionStatus]
    BY <2>1, <2>2, FunctionUpdate, EvidenceValues, SMT DEF IInv, EvidenceType
  <2> QED BY <2>1, <2>3, <2>4, Zenon DEF IInv, EvidenceType
<1>7. Keeps(w)
  BY DEF ScheduleFailure, Keeps
<1> QED BY <1>5, <1>6, <1>7, QuietKept

LEMMA RecoverKept ==
  ASSUME IInv, RecoverExpiredLeases
  PROVE  IInv'
<1> PICK expired \in SUBSET {j \in Jobs : Expired(job[j])} :
      /\ job' = [j \in Jobs |->
                   IF j \in expired THEN Recovered(j, job[j]) ELSE job[j]]
      /\ run' = [j \in Jobs |->
                   IF /\ j \in expired
                      /\ ~BudgetLeft(j, job[j])
                      /\ job[j].resume = "analyzing"
                      /\ run[j] \in {"queued", "analyzing"}
                   THEN "failed" ELSE run[j]]
      /\ UNCHANGED <<action, validation, decision, operation, pullRequest, worker>>
  BY Zenon DEF RecoverExpiredLeases
<1>1. \A j \in Jobs : /\ RowInv(j, job'[j])
                      /\ job'[j].attempts = job[j].attempts
  <2>1. \A j \in expired : Active(job[j])
    BY DEF Expired
  <2> QED BY <2>1, RecoveredRow DEF IInv, RowsInv
<1>2. RowsInv'
  BY <1>1 DEF RowsInv, RowInv
<1>3. AttemptsGrow
  BY <1>1, <1>2, SMT DEF AttemptsGrow, RowsInv, JobRow
<1>4. run' \in [Jobs -> RunStatus]
  BY EvidenceValues, SMT DEF IInv, EvidenceType
<1>5. EvidenceType'
  BY <1>4, Zenon DEF IInv, EvidenceType
<1> QED BY <1>2, <1>3, <1>5, IdleKept

LEMMA DecisionKept ==
  ASSUME IInv, NEW j \in Jobs, RecordHumanDecision(j)
  PROVE  IInv'
<1> PICK d \in Decision :
      /\ decision' = [decision EXCEPT ![j] = d]
      /\ action' = [action EXCEPT ![j] = d.verdict]
      /\ job' = [job EXCEPT ![j] =
             [@ EXCEPT !.status = d.verdict,
                       !.checkpoint = "approval_recorded"]]
  BY Zenon DEF RecordHumanDecision
<1> DEFINE new == [job[j] EXCEPT !.status = d.verdict,
                                 !.checkpoint = "approval_recorded"]
<1>1. d.verdict \in {"approved", "rejected"}
  BY SMT DEF Decision
<1>2. RowInv(j, job[j]) /\ job[j] \in JobRow /\ job \in [Jobs -> JobRow]
  BY DEF IInv, RowsInv, RowInv
<1>3. RowInv(j, new)
  BY <1>1, <1>2, DecidedRow DEF RecordHumanDecision
<1>4. new.attempts = job[j].attempts
  BY <1>2, SMT DEF JobRow
<1>5. job' = [job EXCEPT ![j] = new]
  BY <1>2, Zenon
<1> HIDE DEF new
<1>6. RowsInv' /\ AttemptsGrow
  BY <1>3, <1>4, <1>5, OneRow DEF IInv
<1>7. action' \in [Jobs -> ActionStatus]
  <2>1. d.verdict \in ActionStatus
    BY <1>1, EvidenceValues
  <2> QED BY <2>1, FunctionUpdate, Zenon DEF IInv, EvidenceType
<1>8. decision' \in [Jobs -> Decision \cup {Undecided}]
  BY FunctionUpdate, Zenon DEF IInv, EvidenceType
<1>9. UNCHANGED <<run, validation, operation, pullRequest, worker>>
  BY Zenon DEF RecordHumanDecision
<1>10. EvidenceType'
  BY <1>7, <1>8, <1>9, Zenon DEF IInv, EvidenceType
<1> QED BY <1>6, <1>9, <1>10, IdleKept

(* Time and renewals touch the timing columns of a row that exists.        *)
LEMMA TimeKept ==
  ASSUME IInv, NEW j \in Jobs, job[j].status # "absent",
         \/ \E n \in 0..LeaseTerm : job' = [job EXCEPT ![j].ttl = n]
         \/ \E b \in BOOLEAN : job' = [job EXCEPT ![j].due = b],
         UNCHANGED <<evidence, worker>>
  PROVE  IInv'
<1>1. RowInv(j, job[j]) /\ job[j] \in JobRow
  BY DEF IInv, RowsInv, RowInv
<1>2. ASSUME NEW n \in 0..LeaseTerm, job' = [job EXCEPT ![j].ttl = n]
      PROVE  RowsInv' /\ AttemptsGrow
  <2> DEFINE new == [job[j] EXCEPT !.ttl = n]
  <2>1. RowInv(j, new)
    BY <1>1, TimedRow
  <2>2. new.attempts = job[j].attempts
    BY <1>1, SMT DEF JobRow
  <2> HIDE DEF new
  <2>3. job' = [job EXCEPT ![j] = new]
    BY <1>2 DEF new
  <2> QED BY <2>1, <2>2, <2>3, OneRow DEF IInv
<1>3. ASSUME NEW b \in BOOLEAN, job' = [job EXCEPT ![j].due = b]
      PROVE  RowsInv' /\ AttemptsGrow
  <2> DEFINE new == [job[j] EXCEPT !.due = b]
  <2>1. RowInv(j, new)
    BY <1>1, TimedRow
  <2>2. new.attempts = job[j].attempts
    BY <1>1, SMT DEF JobRow
  <2> HIDE DEF new
  <2>3. job' = [job EXCEPT ![j] = new]
    BY <1>3 DEF new
  <2> QED BY <2>1, <2>2, <2>3, OneRow DEF IInv
<1>4. EvidenceType'
  BY DEF IInv, EvidenceType, evidence
<1> QED BY <1>2, <1>3, <1>4, IdleKept

-----------------------------------------------------------------------------
(* The inductive invariant.                                                *)

LEMMA InitIInv == Init => IInv
<1> SUFFICES ASSUME Init
             PROVE  IInv
  OBVIOUS
<1>1. \A j \in Jobs : RowInv(j, AbsentJob)
  <2>1. AbsentJob \in JobRow
    BY Values, SMT DEF AbsentJob, JobRow, JobCheckpoint, CheckpointOrder,
                       ActiveStates
  <2>2. /\ AbsentJob.status = "absent" /\ AbsentJob.attempts = 0
        /\ AbsentJob.lease = 0 /\ AbsentJob.failure = "none"
    BY DEF AbsentJob
  <2> QED BY <2>1, <2>2, Values, SMT DEF RowInv, Active
<1>2. RowsInv
  BY <1>1 DEF Init, RowsInv, RowInv
<1>3. EvidenceType
  BY DEF Init, EvidenceType, RunStatus, ActionStatus, ValidationStatus,
         OperationStatus
<1>4. WorkersInv
  <2>1. Idle \in WorkerState
    BY SMT DEF Idle, WorkerState
  <2> QED BY <2>1 DEF Init, WorkersInv
<1>5. TokensDiffer
  BY QueueAssumption, SMT DEF Init, TokensDiffer, Idle, QueueAssumption
<1> QED BY <1>2, <1>3, <1>4, <1>5 DEF IInv

LEMMA NextIInv == IInv /\ [Next]_vars => IInv'
<1> SUFFICES ASSUME IInv, [Next]_vars
             PROVE  IInv'
  OBVIOUS
<1>1. ASSUME NEW j \in Jobs, Submit(j)
      PROVE  IInv'
  BY <1>1, SubmitKept
<1>2. ASSUME NEW j \in Jobs, RecordHumanDecision(j)
      PROVE  IInv'
  BY <1>2, DecisionKept
<1>3. ASSUME NEW j \in Jobs, LeaseTick(j)
      PROVE  IInv'
  <2>1. job[j].status # "absent"
    BY <1>3, Values DEF LeaseTick, Active
  <2>2. job[j].ttl - 1 \in 0..LeaseTerm
    BY <1>3, QueueAssumption, SMT DEF LeaseTick, IInv, RowsInv, JobRow,
                                      QueueAssumption
  <2>3. job' = [job EXCEPT ![j].ttl = job[j].ttl - 1]
    BY <1>3 DEF LeaseTick
  <2> QED BY <1>3, <2>1, <2>2, <2>3, TimeKept DEF LeaseTick
<1>4. ASSUME NEW j \in Jobs, DelayElapses(j)
      PROVE  IInv'
  BY <1>4, TimeKept DEF DelayElapses
<1>5. ASSUME NEW w \in Workers, RunOnce(w)
      PROVE  IInv'
  <2>1. CASE \/ \E s \in ActiveStates \ {"creating_pr"} : ClaimNext(w, s)
             \/ ClaimPrNext(w)
    BY <2>1, ClaimKept
  <2>2. CASE \/ BeginAnalysis(w) \/ BeginPatchGeneration(w)
             \/ BeginPatchValidation(w) \/ BeginPrCreation(w)
    BY <2>2, BeginKept
  <2>3. CASE \/ EnsurePullRequest(w) \/ StageFails(w) \/ LeaseLost(w)
             \/ ReplayCompletion(w)
    BY <2>3, LocalKept
  <2>4. CASE CompleteAnalysis(w)
    BY <2>4, CompleteAnalysisKept
  <2>5. CASE CompletePatchGeneration(w)
    BY <2>5, CompletePatchGenerationKept
  <2>6. CASE CompletePatchValidation(w)
    BY <2>6, CompletePatchValidationKept
  <2>7. CASE CompletePrCreation(w)
    BY <2>7, CompletePrCreationKept
  <2>8. CASE ScheduleFailure(w)
    BY <2>8, ScheduleFailureKept
  <2> QED BY <1>5, <2>1, <2>2, <2>3, <2>4, <2>5, <2>6, <2>7, <2>8
          DEF RunOnce, Works
<1>6. ASSUME NEW w \in Workers, Heartbeat(w)
      PROVE  IInv'
  <2> DEFINE j == worker[w].job
  <2>1. j \in Jobs
    BY <1>6, BusyCarries DEF Heartbeat, Carries
  <2>2. job[j].status # "absent"
    BY <1>6, Values DEF Heartbeat, Active
  <2>3. LeaseTerm \in 0..LeaseTerm
    BY Values
  <2>4. job' = [job EXCEPT ![j].ttl = LeaseTerm] /\ UNCHANGED <<evidence, worker>>
    BY <1>6 DEF Heartbeat
  <2> QED BY <2>1, <2>2, <2>3, <2>4, TimeKept
<1>7. ASSUME NEW stopped \in SUBSET Workers, Crash(stopped)
      PROVE  IInv'
  BY <1>7, CrashKept
<1>8. CASE RecoverExpiredLeases
  BY <1>8, RecoverKept
<1>9. CASE UNCHANGED vars
  <2>1. RowsInv' /\ AttemptsGrow
    BY <1>9, NoRow DEF IInv, vars
  <2>2. EvidenceType'
    BY <1>9 DEF IInv, EvidenceType, vars
  <2> QED BY <1>9, <2>1, <2>2, IdleKept DEF vars
<1> QED BY <1>1, <1>2, <1>3, <1>4, <1>5, <1>6, <1>7, <1>8, <1>9
        DEF Next

LEMMA Invariance == Spec => []IInv
BY InitIInv, NextIInv, PTL DEF Spec

-----------------------------------------------------------------------------
(* The state of the queue is always well typed; in particular the claims   *)
(* of claim_next, claim_pr_next and the retries of schedule_failure and    *)
(* recover_expired_leases never exceed max_attempts.                       *)
THEOREM TypeCorrect == Spec => []TypeOK
<1>1. IInv => TypeOK
  BY DEF IInv, RowsInv, RowInv, EvidenceType, WorkersInv, TypeOK
<1> QED BY <1>1, Invariance, PTL

(* No write of the repository is refused by the CHECK constraints of       *)
(* migration 005.                                                          *)
THEOREM ConstraintsHold == Spec => []RowConstraints
<1>1. IInv => RowConstraints
  BY DEF IInv, RowsInv, RowInv, RowConstraints
<1> QED BY <1>1, Invariance, PTL

(* At most one worker carries the lease token a job accepts, whatever      *)
(* crashed, expired, was recovered and claimed again.                      *)
THEOREM LeaseExclusive == Spec => []OneLeaseHolder
<1>1. IInv => OneLeaseHolder
  BY SMT DEF IInv, TokensDiffer, OneLeaseHolder, Holds
<1> QED BY <1>1, Invariance, PTL

-----------------------------------------------------------------------------
(* Who moves a checkpoint.                                                 *)

CheckpointsKept == \A j \in Jobs : job'[j].checkpoint = job[j].checkpoint

CommittedBy(w, j) ==
  /\ Holds(w, j)
  /\ worker[w].stage = job[j].status
  /\ job'[j].checkpoint = StageResult[worker[w].stage]
  /\ worker'[w].pc \in {"idle", "failing"}

CheckpointMoves ==
  \A j \in Jobs :
    \/ job'[j].checkpoint = job[j].checkpoint
    \/ job'[j].checkpoint = "approval_recorded"
    \/ \E w \in Workers : CommittedBy(w, j)

LEMMA CommitMoves ==
  ASSUME IInv, NEW w \in Workers, NEW s, MayCommit(w, s), NEW r \in JobRow,
         Commit(w, r)
  PROVE  CheckpointMoves
<1> DEFINE j == worker[w].job
           c == StageResult[worker[w].stage]
           new == [Released(r) EXCEPT !.checkpoint = c]
<1>1. /\ worker[w].pc # "idle" /\ worker[w].pc # "failing"
      /\ HasToken(w)
  BY SMT DEF MayCommit, Owned
<1>2. /\ j \in Jobs /\ RowInv(j, job[j])
      /\ worker \in [Workers -> WorkerState] /\ job \in [Jobs -> JobRow]
  BY <1>1, BusyCarries DEF Carries, IInv, WorkersInv, RowsInv
<1>3. Holds(w, j) /\ worker[w].stage = job[j].status
  BY <1>1, <1>2 DEF HasToken, Holds, RowInv
<1>4. worker'[w].pc \in {"idle", "failing"}
  <2>1. \/ worker' = [worker EXCEPT ![w] = Idle]
        \/ worker' = [worker EXCEPT ![w].pc = "failing"]
    BY DEF Commit, Responds
  <2>2. Idle.pc = "idle"
    BY DEF Idle
  <2> QED BY <1>2, <2>1, <2>2, SMT DEF WorkerState
<1>5. new.checkpoint = c
  <2>1. Released(r) \in JobRow
    BY ReleasedRow
  <2> HIDE DEF c
  <2> QED BY <2>1, SMT DEF JobRow
<1>6. \A k \in Jobs : job'[k] = IF k = j THEN new ELSE job[k]
  BY <1>2 DEF Commit
<1> HIDE DEF new
<1>7. CommittedBy(w, j)
  BY <1>2, <1>3, <1>4, <1>5, <1>6, Zenon DEF CommittedBy
<1> QED BY <1>6, <1>7, Zenon DEF CheckpointMoves

LEMMA ClaimMoves ==
  ASSUME IInv, NEW w \in Workers, NEW s \in ActiveStates,
         NEW locked \in SUBSET Jobs, NEW candidates \in SUBSET Jobs,
         ClaimFrom(w, s, PromotedBut(locked), candidates)
  PROVE  CheckpointsKept
<1> DEFINE rows == PromotedBut(locked)
<1>1. /\ rows = [j \in Jobs |-> rows[j]]
      /\ \A j \in Jobs : /\ rows[j] \in JobRow
                         /\ rows[j].checkpoint = job[j].checkpoint
  <2>1. \A j \in Jobs : rows[j] = job[j] \/ rows[j] = Promote(j, job[j])
    BY DEF PromotedBut
  <2>2. \A j \in Jobs : RowInv(j, job[j]) /\ RowInv(j, rows[j])
    BY <2>1, PromotedRow DEF IInv, RowsInv
  <2>3. \A j \in Jobs : rows[j].checkpoint = job[j].checkpoint
    BY <2>1, <2>2, PromotedRow
  <2>4. rows = [j \in Jobs |-> rows[j]]
    BY DEF PromotedBut
  <2> QED BY <2>2, <2>3, <2>4 DEF RowInv
<1> HIDE DEF rows
<1>2. CASE job' = rows
  BY <1>1, <1>2 DEF CheckpointsKept
<1>3. ASSUME NEW j \in candidates,
             job' = [rows EXCEPT ![j] = Leased(rows[j], s)]
      PROVE  CheckpointsKept
  <2>1. Leased(rows[j], s).checkpoint = rows[j].checkpoint
    BY <1>1, SMT DEF Leased, FreshToken, JobRow
  <2> DEFINE new == Leased(rows[j], s)
  <2> HIDE DEF new
  <2>2. \A k \in Jobs : job'[k] = IF k = j THEN new ELSE rows[k]
    BY <1>1, <1>3 DEF new
  <2>3. new.checkpoint = rows[j].checkpoint
    BY <2>1 DEF new
  <2> QED BY <1>1, <2>2, <2>3, Zenon DEF CheckpointsKept
<1> QED BY <1>2, <1>3 DEF ClaimFrom, rows

(* An assignment of columns other than the checkpoint.                     *)
LEMMA OneRowMoves ==
  ASSUME IInv, NEW j \in Jobs, NEW new, job' = [job EXCEPT ![j] = new],
         new.checkpoint = job[j].checkpoint
  PROVE  CheckpointsKept
<1>1. \A k \in Jobs : job'[k] = IF k = j THEN new ELSE job[k]
  BY DEF IInv, RowsInv
<1> QED BY <1>1, Zenon DEF CheckpointsKept

LEMMA CompletionMoves ==
  ASSUME IInv, NEW w \in Workers,
         \/ CompleteAnalysis(w)
         \/ CompletePatchGeneration(w)
         \/ CompletePatchValidation(w)
         \/ CompletePrCreation(w)
  PROVE  CheckpointMoves
<1> DEFINE row == job[worker[w].job]
<1>1. ASSUME NEW s, MayCommit(w, s), NEW r, CommitRow(r, row), Commit(w, r)
      PROVE  CheckpointMoves
  BY <1>1, CommitMoves DEF CommitRow
<1>2. ASSUME NEW s, MayCommit(w, s)
      PROVE  row \in JobRow /\ row.failure = "none"
  BY <1>2, MayCommitRow
<1>3. {"generating_patch", "validating_patch"} \subseteq ActiveStates
  BY DEF ActiveStates
<1> HIDE DEF row
<1>4. CASE CompleteAnalysis(w)
  <2>1. /\ MayCommit(w, "analyzing")
        /\ \/ Commit(w, [row EXCEPT !.status = "queued",
                                   !.resume = "generating_patch"])
           \/ Commit(w, [row EXCEPT !.status = "completed"])
    BY <1>4, Zenon DEF CompleteAnalysis, row
  <2> QED BY <1>1, <1>2, <1>3, <2>1, CompletionRows
<1>5. CASE CompletePatchGeneration(w)
  <2>1. /\ MayCommit(w, "generating_patch")
        /\ Commit(w, [row EXCEPT !.status = "queued",
                                !.resume = "validating_patch"])
    BY <1>5, Zenon DEF CompletePatchGeneration, row
  <2> QED BY <1>1, <1>2, <1>3, <2>1, CompletionRows
<1>6. CASE CompletePatchValidation(w)
  <2>1. /\ MayCommit(w, "validating_patch")
        /\ \/ Commit(w, [row EXCEPT !.status = "awaiting_approval"])
           \/ Commit(w, [row EXCEPT !.status = "failed", !.failure = "permanent"])
    BY <1>6, Zenon DEF CompletePatchValidation, row
  <2> QED BY <1>1, <1>2, <2>1, CompletionRows
<1>7. CASE CompletePrCreation(w)
  <2>1. /\ MayCommit(w, "creating_pr")
        /\ Commit(w, [row EXCEPT !.status = "completed", !.failure = "none"])
    BY <1>7, Zenon DEF CompletePrCreation, row
  <2> QED BY <1>1, <1>2, <2>1, CompletionRows
<1> QED BY <1>4, <1>5, <1>6, <1>7

LEMMA FailureMoves ==
  ASSUME IInv, NEW w \in Workers, ScheduleFailure(w)
  PROVE  CheckpointsKept
<1> DEFINE j == worker[w].job
           retry == [Released(job[j]) EXCEPT !.status = "retry_scheduled",
                       !.resume = job[j].status, !.due = FALSE,
                       !.failure = "retryable"]
           fail(d) == [Released(job[j]) EXCEPT !.status = "failed", !.failure = d]
<1>1. j \in Jobs /\ job[j] \in JobRow
  BY BusyCarries DEF ScheduleFailure, Owned, Carries, RowInv
<1>2. /\ retry.checkpoint = job[j].checkpoint
      /\ \A d : fail(d).checkpoint = job[j].checkpoint
  BY <1>1, ReleasedRow, SMT DEF JobRow
<1>3. \/ job' = [job EXCEPT ![j] = retry]
      \/ \E d \in {"retryable", "permanent"} : job' = [job EXCEPT ![j] = fail(d)]
  BY Zenon DEF ScheduleFailure
<1> HIDE DEF retry, fail, j
<1> QED BY <1>1, <1>2, <1>3, OneRowMoves

LEMMA RecoverMoves ==
  ASSUME IInv, RecoverExpiredLeases
  PROVE  CheckpointsKept
<1> PICK expired \in SUBSET {j \in Jobs : Expired(job[j])} :
      job' = [j \in Jobs |->
               IF j \in expired THEN Recovered(j, job[j]) ELSE job[j]]
  BY Zenon DEF RecoverExpiredLeases
<1>1. \A j \in expired : Active(job[j]) /\ RowInv(j, job[j])
  BY DEF Expired, IInv, RowsInv
<1>2. \A j \in expired : Recovered(j, job[j]).checkpoint = job[j].checkpoint
  BY <1>1, RecoveredRow
<1> QED BY <1>2 DEF CheckpointsKept

LEMMA NextMoves == IInv /\ [Next]_vars => CheckpointMoves
<1> SUFFICES ASSUME IInv, [Next]_vars
             PROVE  CheckpointMoves
  OBVIOUS
<1>1. CheckpointsKept => CheckpointMoves
  BY DEF CheckpointsKept, CheckpointMoves
<1>2. UNCHANGED job => CheckpointsKept
  BY DEF CheckpointsKept
<1>3. \A j \in Jobs : job[j] \in JobRow
  BY DEF IInv, RowsInv
<1>4. ASSUME NEW j \in Jobs, Submit(j)
      PROVE  CheckpointMoves
  <2>1. PICK due \in BOOLEAN :
          job' = [job EXCEPT ![j] = [AbsentJob EXCEPT !.status = "queued",
                                                      !.due = due]]
    BY <1>4 DEF Submit
  <2>2. job[j] = AbsentJob
    BY <1>4 DEF Submit, IInv, RowsInv, RowInv
  <2>3. [AbsentJob EXCEPT !.status = "queued", !.due = due].checkpoint
          = AbsentJob.checkpoint
    BY SMT DEF AbsentJob
  <2> QED BY <1>1, <2>1, <2>2, <2>3, OneRowMoves
<1>5. ASSUME NEW j \in Jobs, RecordHumanDecision(j)
      PROVE  CheckpointMoves
  <2>1. PICK d \in Decision :
          job' = [job EXCEPT ![j] = [@ EXCEPT !.status = d.verdict,
                                              !.checkpoint = "approval_recorded"]]
    BY <1>5, Zenon DEF RecordHumanDecision
  <2> DEFINE new == [job[j] EXCEPT !.status = d.verdict,
                                   !.checkpoint = "approval_recorded"]
  <2>2. new.checkpoint = "approval_recorded"
    BY <1>3, SMT DEF JobRow
  <2> HIDE DEF new
  <2>3. \A k \in Jobs : job'[k] = IF k = j THEN new ELSE job[k]
    BY <2>1 DEF IInv, RowsInv, new
  <2> QED BY <2>2, <2>3, Zenon DEF CheckpointMoves
<1>6. ASSUME NEW j \in Jobs,
             \/ \E n : job' = [job EXCEPT ![j].ttl = n]
             \/ \E b : job' = [job EXCEPT ![j].due = b]
      PROVE  CheckpointMoves
  <2>1. PICK n : \/ job' = [job EXCEPT ![j].ttl = n]
                 \/ job' = [job EXCEPT ![j].due = n]
    BY <1>6
  <2>2. /\ [job[j] EXCEPT !.ttl = n].checkpoint = job[j].checkpoint
        /\ [job[j] EXCEPT !.due = n].checkpoint = job[j].checkpoint
    BY <1>3, SMT DEF JobRow
  <2>3. \/ job' = [job EXCEPT ![j] = [job[j] EXCEPT !.ttl = n]]
        \/ job' = [job EXCEPT ![j] = [job[j] EXCEPT !.due = n]]
    BY <2>1
  <2> QED BY <1>1, <2>2, <2>3, OneRowMoves
<1>7. ASSUME NEW w \in Workers, RunOnce(w)
      PROVE  CheckpointMoves
  <2>1. ASSUME NEW s \in ActiveStates, ClaimNext(w, s)
        PROVE  CheckpointMoves
    BY <1>1, <2>1, ClaimMoves DEF ClaimNext
  <2>2. CASE ClaimPrNext(w)
    <3>1. "creating_pr" \in ActiveStates
      BY DEF ActiveStates
    <3> QED BY <1>1, <2>2, <3>1, ClaimMoves DEF ClaimPrNext
  <2>3. CASE \/ BeginAnalysis(w) \/ BeginPatchGeneration(w)
             \/ BeginPatchValidation(w) \/ BeginPrCreation(w)
             \/ EnsurePullRequest(w) \/ StageFails(w) \/ LeaseLost(w)
             \/ ReplayCompletion(w)
    BY <1>1, <1>2, <2>3 DEF BeginAnalysis, BeginPatchGeneration,
         BeginPatchValidation, BeginPrCreation, Begin, EnsurePullRequest,
         StageFails, LeaseLost, ReplayCompletion
  <2>4. CASE \/ CompleteAnalysis(w) \/ CompletePatchGeneration(w)
             \/ CompletePatchValidation(w) \/ CompletePrCreation(w)
    BY <2>4, CompletionMoves
  <2>5. CASE ScheduleFailure(w)
    BY <1>1, <2>5, FailureMoves
  <2> QED BY <1>7, <2>1, <2>2, <2>3, <2>4, <2>5 DEF RunOnce, Works
<1>8. ASSUME NEW j \in Jobs, LeaseTick(j) \/ DelayElapses(j)
      PROVE  CheckpointMoves
  BY <1>6, <1>8 DEF LeaseTick, DelayElapses
<1>9. ASSUME NEW w \in Workers, Heartbeat(w)
      PROVE  CheckpointMoves
  <2>1. worker[w].job \in Jobs
    BY <1>9, BusyCarries DEF Heartbeat, Carries
  <2> QED BY <1>6, <1>9, <2>1 DEF Heartbeat
<1>10. ASSUME NEW stopped \in SUBSET Workers, Crash(stopped)
       PROVE  CheckpointMoves
  BY <1>1, <1>2, <1>10 DEF Crash
<1>11. CASE RecoverExpiredLeases
  BY <1>1, <1>11, RecoverMoves
<1>12. CASE UNCHANGED vars
  BY <1>1, <1>2, <1>12 DEF vars
<1> QED BY <1>4, <1>5, <1>7, <1>8, <1>9, <1>10, <1>11, <1>12 DEF Next

(* A stage is committed only by the worker that holds the current token of *)
(* the job for that stage: complete_analysis, complete_patch_generation,   *)
(* complete_patch_validation and complete_pr_creation refuse a stale one.  *)
THEOREM HolderCommits == Spec => OnlyHolderCommits
<1>1. IInv /\ [Next]_vars =>
        [\A j \in Jobs :
           (/\ job'[j].checkpoint # job[j].checkpoint
            /\ job'[j].checkpoint # "approval_recorded")
           => \E w \in Workers :
                /\ Holds(w, j)
                /\ worker[w].stage = job[j].status
                /\ job'[j].checkpoint = StageResult[worker[w].stage]
                /\ worker'[w].pc \in {"idle", "failing"}]_vars
  BY NextMoves, Zenon DEF CheckpointMoves, CommittedBy
<1> QED BY <1>1, Invariance, PTL DEF Spec, OnlyHolderCommits

-----------------------------------------------------------------------------
(* Checkpoints, evidence and GitHub.  Moves(j) lists what one step may do   *)
(* to the row and the evidence of one job, in terms of values alone;        *)
(* NextStep shows that every step of the queue is one of these moves for    *)
(* every job.  StoryInv and the action properties are then statements       *)
(* about moves.                                                            *)

(* What one step does to job j.                                            *)
RowBecomes(j, status, checkpoint, resume) ==
  /\ job'[j].status = status
  /\ job'[j].checkpoint = checkpoint
  /\ job'[j].resume = resume

VerdictsKept(j) == /\ validation'[j] = validation[j]
                    /\ decision'[j] = decision[j]

WorldKept(j) == /\ operation'[j] = operation[j]
                /\ pullRequest'[j] = pullRequest[j]

EvidenceKept(j) == /\ run'[j] = run[j] /\ action'[j] = action[j]
                   /\ VerdictsKept(j) /\ WorldKept(j)

(* A worker is on its way to GitHub for job j.                             *)
MutatorOf(w, j) == worker[w].job = j /\ worker[w].stage = "creating_pr"

(* Time, renewals, begin_... and calls to GitHub.                          *)
Rests(j) ==
  /\ RowBecomes(j, job[j].status, job[j].checkpoint, job[j].resume)
  /\ job'[j].lease = job[j].lease /\ job'[j].attempts = job[j].attempts
  /\ job'[j].failure = job[j].failure
  /\ job'[j].ttl = job[j].ttl \/ (Active(job[j]) /\ job[j].ttl > 0)
  /\ \/ run'[j] = run[j]
     \/ run[j] \in {"queued", "analyzing"} /\ run'[j] = "analyzing"
  /\ action'[j] = action[j] /\ VerdictsKept(j)
  /\ operation'[j] = operation[j]
       \/ (MutationApproved(j) /\ operation[j] = "none"
            /\ operation'[j] = "pending")
  /\ pullRequest'[j] = pullRequest[j]
       \/ (pullRequest'[j] = TRUE /\ \E w \in Workers : MutatorOf(w, j))

IsSubmitted(j) ==
  /\ job[j].status = "absent"
  /\ RowBecomes(j, "queued", "submitted", "analyzing")
  /\ job'[j].lease = 0
  /\ run'[j] = "queued" /\ action'[j] = action[j]
  /\ VerdictsKept(j) /\ WorldKept(j)

IsPromoted(j) ==
  /\ job[j].status = "retry_scheduled"
  /\ RowBecomes(j, "queued", job[j].checkpoint, job[j].resume)
  /\ job'[j].lease = job[j].lease
  /\ EvidenceKept(j)

(* A claim may take a row that it has just promoted.                       *)
IsClaimed(j) ==
  \E s \in ActiveStates :
    /\ \/ job[j].status \in {"queued", "retry_scheduled"} /\ job[j].resume = s
       \/ job[j].status = "approved" /\ s = "creating_pr"
    /\ s = "creating_pr" => MutationApproved(j)
    /\ RowBecomes(j, s, job[j].checkpoint, s)
    /\ job'[j].lease # 0
    /\ EvidenceKept(j)

IsAnalyzed(j) ==
  /\ job[j].status = "analyzing" /\ job[j].checkpoint = "submitted"
  /\ \/ /\ run'[j] = "review_required"
        /\ RowBecomes(j, "queued", "analysis_completed", "generating_patch")
     \/ /\ run'[j] \in {"completed_clean", "inconclusive"}
        /\ RowBecomes(j, "completed", "analysis_completed", job[j].resume)
  /\ job'[j].lease = 0
  /\ action'[j] = action[j] /\ VerdictsKept(j) /\ WorldKept(j)

IsPatched(j) ==
  /\ job[j].status = "generating_patch"
  /\ job[j].checkpoint = "analysis_completed"
  /\ RowBecomes(j, "queued", "patch_generated", "validating_patch")
  /\ job'[j].lease = 0
  /\ action[j] = "none" /\ action'[j] = "proposed"
  /\ run'[j] = run[j] /\ VerdictsKept(j) /\ WorldKept(j)

IsValidated(j) ==
  /\ job[j].status = "validating_patch" /\ job[j].checkpoint = "patch_generated"
  /\ validation[j] = "none"
  /\ \/ /\ RowBecomes(j, "awaiting_approval", "patch_validated", job[j].resume)
        /\ validation'[j] = "valid" /\ action'[j] = action[j]
     \/ /\ RowBecomes(j, "failed", "patch_validated", job[j].resume)
        /\ validation'[j] = "invalid" /\ action'[j] = "failed"
  /\ job'[j].lease = 0
  /\ run'[j] = run[j] /\ decision'[j] = decision[j] /\ WorldKept(j)

IsPulled(j) ==
  /\ job[j].status = "creating_pr"
  /\ \E w \in Workers : worker[w].pc = "reconciled" /\ worker[w].job = j
  /\ RowBecomes(j, "completed", "pr_created", job[j].resume)
  /\ job'[j].lease = 0
  /\ action[j] = "approved" /\ action'[j] = "pr_created"
  /\ operation'[j] = "completed" /\ pullRequest'[j] = pullRequest[j]
  /\ run'[j] = run[j] /\ VerdictsKept(j)

IsRescheduled(j) ==
  /\ Active(job[j])
  /\ RowBecomes(j, "retry_scheduled", job[j].checkpoint, job[j].status)
  /\ job'[j].lease = 0
  /\ EvidenceKept(j)

IsFailed(j) ==
  /\ Active(job[j])
  /\ RowBecomes(j, "failed", job[j].checkpoint, job[j].resume)
  /\ job'[j].lease = 0
  /\ run'[j] = run[j]
       \/ (run[j] \in {"queued", "analyzing"} /\ run'[j] = "failed")
  /\ action'[j] = action[j]
       \/ (action[j] = "approved" /\ action'[j] = "failed")
  /\ VerdictsKept(j) /\ WorldKept(j)

IsDecided(j) ==
  /\ job[j].status = "awaiting_approval"
  /\ job[j].checkpoint = "patch_validated"
  /\ validation[j] = "valid" /\ action[j] = "proposed"
  /\ decision'[j] \in Decision
  /\ action'[j] = decision'[j].verdict
  /\ RowBecomes(j, decision'[j].verdict, "approval_recorded", job[j].resume)
  /\ job'[j].lease = job[j].lease
  /\ run'[j] = run[j] /\ validation'[j] = validation[j] /\ WorldKept(j)

Moves(j) ==
  \/ Rests(j) \/ IsSubmitted(j) \/ IsPromoted(j) \/ IsClaimed(j)
  \/ IsAnalyzed(j) \/ IsPatched(j) \/ IsValidated(j) \/ IsPulled(j)
  \/ IsRescheduled(j) \/ IsFailed(j) \/ IsDecided(j)

-----------------------------------------------------------------------------
(* The invariant.                                                          *)

(* What the row of a job says of its evidence.                             *)
Story(j) ==
  /\ (run[j] \in {"review_required", "completed_clean", "inconclusive"})
       <=> job[j].checkpoint # "submitted"
  /\ action[j] # "none" <=> job[j].checkpoint \notin {"submitted",
                                                      "analysis_completed"}
  /\ validation[j] # "none" <=>
       job[j].checkpoint \in {"patch_validated", "approval_recorded",
                              "pr_created"}
  /\ decision[j] # Undecided <=>
       job[j].checkpoint \in {"approval_recorded", "pr_created"}
  /\ operation[j] = "completed" <=> job[j].checkpoint = "pr_created"
  /\ job[j].status \in ActiveStates \cup {"queued", "retry_scheduled"} =>
       job[j].checkpoint = StageEntry[job[j].resume]
  /\ Active(job[j]) => job[j].resume = job[j].status
  /\ job[j].status = "absent" =>
       job[j].checkpoint = "submitted" /\ run[j] = "none"
  /\ job[j].checkpoint = "analysis_completed"
       /\ job[j].status \notin TerminalStates => run[j] = "review_required"
  /\ job[j].checkpoint = "analysis_completed"
       /\ job[j].status = "completed" => run[j] # "review_required"
  /\ job[j].checkpoint \notin {"submitted", "analysis_completed"} =>
       run[j] = "review_required"
  /\ decision[j] # Undecided => validation[j] = "valid"

(* What the remediation record says of the job.                            *)
Record(j) ==
  /\ action[j] = "pr_created" <=> job[j].checkpoint = "pr_created"
  /\ job[j].checkpoint = "pr_created" => job[j].status = "completed"
  /\ job[j].status = "completed" =>
       job[j].checkpoint \in {"analysis_completed", "pr_created"}
  /\ action[j] = "pr_created" => pullRequest[j]
  /\ action[j] = "rejected" <=> job[j].status = "rejected"
  /\ action[j] = "failed" => job[j].status = "failed"
  /\ action[j] = "approved" => job[j].checkpoint = "approval_recorded"
  /\ job[j].status = "awaiting_approval" =>
       /\ job[j].checkpoint = "patch_validated"
       /\ action[j] = "proposed" /\ validation[j] = "valid"
  /\ job[j].status \in {"approved", "rejected"} =>
       job[j].checkpoint = "approval_recorded"
  /\ job[j].checkpoint = "approval_recorded" /\ job[j].status # "failed" =>
       action[j] = decision[j].verdict
  /\ job[j].status \in {"approved", "creating_pr"}
       \/ (job[j].resume = "creating_pr"
            /\ job[j].status \in {"queued", "retry_scheduled"}) =>
       action[j] = "approved"

(* Who writes to GitHub may do so.                                         *)
Authority(j) ==
  (job[j].status = "creating_pr" \/ pullRequest[j]) => MutationApproved(j)

WorkerStory ==
  \A w \in Workers :
    /\ worker[w].stage = "creating_pr" =>
         worker[w].job \in Jobs /\ MutationApproved(worker[w].job)
    /\ worker[w].pc = "reconciled" =>
         worker[w].stage = "creating_pr" /\ pullRequest[worker[w].job]

StoryInv ==
  /\ \A j \in Jobs : Story(j) /\ Record(j) /\ Authority(j)
  /\ WorkerStory

-----------------------------------------------------------------------------
(* A move keeps the invariant.                                             *)

LEMMA Entries ==
  /\ StageEntry["analyzing"] = "submitted"
  /\ StageEntry["generating_patch"] = "analysis_completed"
  /\ StageEntry["validating_patch"] = "patch_generated"
  /\ StageEntry["creating_pr"] = "approval_recorded"
BY DEF StageEntry

LEMMA Statuses ==
  /\ ActiveStates = {"analyzing", "generating_patch", "validating_patch",
                     "creating_pr"}
  /\ TerminalStates = {"completed", "failed", "rejected", "cancelled"}
BY DEF ActiveStates, TerminalStates

(* What the proofs below need of the types of one job.                     *)
Typed(j) ==
  /\ job[j].checkpoint \in {"submitted", "analysis_completed",
        "patch_generated", "patch_validated", "approval_recorded", "pr_created"}
  /\ job[j].resume \in ActiveStates
  /\ run[j] \in {"none", "queued", "analyzing", "review_required",
                 "completed_clean", "inconclusive", "failed"}
  /\ action[j] \in {"none", "proposed", "approved", "rejected", "failed",
                    "pr_created"}
  /\ decision[j] \in Decision \cup {Undecided}
  /\ pullRequest[j] \in BOOLEAN

LEMMA AllTyped ==
  ASSUME IInv
  PROVE  \A j \in Jobs : Typed(j)
<1>1. JobCheckpoint = {"submitted", "analysis_completed", "patch_generated",
                       "patch_validated", "approval_recorded", "pr_created"}
  BY DEF JobCheckpoint, CheckpointOrder
<1>2. \A j \in Jobs : job[j].checkpoint \in JobCheckpoint
                       /\ job[j].resume \in ActiveStates
  BY SMT DEF IInv, RowsInv, JobRow
<1> QED BY <1>1, <1>2 DEF Typed, IInv, EvidenceType, RunStatus, ActionStatus

LEMMA MutationFollows ==
  ASSUME NEW j, decision'[j] = decision[j]
  PROVE  MutationApproved(j)' <=> MutationApproved(j)
BY DEF MutationApproved

LEMMA Undecideds ==
  /\ \A d \in Decision : d # Undecided /\ d.verdict \in {"approved", "rejected"}
  /\ Undecided.verdict = "none"
BY SMT DEF Decision, Undecided

LEMMA RestKeepsStory ==
  ASSUME NEW j \in Jobs, Typed(j), Story(j), Record(j), Authority(j), Rests(j),
         WorkerStory
  PROVE  Story(j)' /\ Record(j)' /\ Authority(j)'
<1>1. Story(j)'
  BY Statuses, SMT DEF Typed, Story, Rests, RowBecomes, VerdictsKept, Active
<1>2. Record(j)'
  BY Statuses, SMT DEF Typed, Record, Rests, RowBecomes, VerdictsKept
<1>3. Authority(j)'
  <2>1. \A w \in Workers : MutatorOf(w, j) => MutationApproved(j)
    BY DEF WorkerStory, MutatorOf
  <2>2. MutationApproved(j)' <=> MutationApproved(j)
    BY MutationFollows DEF Rests, VerdictsKept
  <2> QED BY <2>1, <2>2 DEF Authority, Rests, RowBecomes
<1> QED BY <1>1, <1>2, <1>3

LEMMA QueueMovesKeepStory ==
  ASSUME NEW j \in Jobs, Typed(j), Story(j), Record(j), Authority(j),
         IsSubmitted(j) \/ IsPromoted(j) \/ IsClaimed(j)
  PROVE  Story(j)' /\ Record(j)' /\ Authority(j)'
<1> USE Statuses, Entries
<1>1. CASE IsSubmitted(j)
  <2>1. Story(j)'
    BY <1>1, SMT DEF Typed, Story, IsSubmitted, RowBecomes, VerdictsKept,
                     WorldKept, Active
  <2>2. Record(j)'
    BY <1>1, SMT DEF Typed, Story, Record, IsSubmitted, RowBecomes,
                     VerdictsKept, WorldKept
  <2> QED BY <1>1, <2>1, <2>2, MutationFollows
          DEF Authority, IsSubmitted, RowBecomes, VerdictsKept, WorldKept
<1>2. CASE IsPromoted(j)
  <2>1. Story(j)'
    BY <1>2, SMT DEF Typed, Story, IsPromoted, RowBecomes, EvidenceKept,
                     VerdictsKept, WorldKept, Active
  <2>2. Record(j)'
    BY <1>2, SMT DEF Typed, Story, Record, IsPromoted, RowBecomes,
                     EvidenceKept, VerdictsKept, WorldKept
  <2> QED BY <1>2, <2>1, <2>2, MutationFollows
          DEF Authority, IsPromoted, RowBecomes, EvidenceKept, VerdictsKept,
              WorldKept
<1>3. CASE IsClaimed(j)
  <2> PICK s \in ActiveStates :
        /\ \/ job[j].status \in {"queued", "retry_scheduled"} /\ job[j].resume = s
           \/ job[j].status = "approved" /\ s = "creating_pr"
        /\ s = "creating_pr" => MutationApproved(j)
        /\ RowBecomes(j, s, job[j].checkpoint, s)
        /\ EvidenceKept(j)
    BY <1>3 DEF IsClaimed
  <2>1. Story(j)'
    BY SMT DEF Typed, Story, Record, RowBecomes, EvidenceKept, VerdictsKept,
               WorldKept, Active
  <2>2. Record(j)'
    BY SMT DEF Typed, Story, Record, RowBecomes, EvidenceKept, VerdictsKept,
               WorldKept
  <2> QED BY <2>1, <2>2, MutationFollows
          DEF Authority, RowBecomes, EvidenceKept, VerdictsKept, WorldKept
<1> QED BY <1>1, <1>2, <1>3

LEMMA CommitsKeepStory ==
  ASSUME NEW j \in Jobs, Typed(j), Story(j), Record(j), Authority(j), WorkerStory,
         IsAnalyzed(j) \/ IsPatched(j) \/ IsValidated(j) \/ IsPulled(j)
  PROVE  Story(j)' /\ Record(j)' /\ Authority(j)'
<1> USE Statuses, Entries, Undecideds
<1>1. CASE IsAnalyzed(j)
  <2>1. Story(j)'
    BY <1>1, SMT DEF Typed, Story, Record, IsAnalyzed, RowBecomes, VerdictsKept,
                     WorldKept, Active
  <2>2. Record(j)'
    BY <1>1, SMT DEF Typed, Story, Record, IsAnalyzed, RowBecomes, VerdictsKept,
                     WorldKept, Active
  <2>3. MutationApproved(j)' <=> MutationApproved(j)
    BY <1>1, MutationFollows DEF IsAnalyzed, VerdictsKept
  <2> QED BY <1>1, <2>1, <2>2, <2>3
          DEF Authority, IsAnalyzed, RowBecomes, WorldKept
<1>2. CASE IsPatched(j)
  <2>1. Story(j)'
    BY <1>2, SMT DEF Typed, Story, Record, IsPatched, RowBecomes, VerdictsKept,
                     WorldKept, Active
  <2>2. Record(j)'
    BY <1>2, SMT DEF Typed, Story, Record, IsPatched, RowBecomes, VerdictsKept,
                     WorldKept, Active
  <2>3. MutationApproved(j)' <=> MutationApproved(j)
    BY <1>2, MutationFollows DEF IsPatched, VerdictsKept
  <2> QED BY <1>2, <2>1, <2>2, <2>3
          DEF Authority, IsPatched, RowBecomes, WorldKept
<1>3. CASE IsValidated(j)
  <2>1. Story(j)'
    <3>1. CASE validation'[j] = "valid"
      BY <1>3, <3>1, SMT DEF Typed, Story, Record, IsValidated, RowBecomes,
                             WorldKept, Active
    <3>2. CASE validation'[j] = "invalid"
      BY <1>3, <3>2, SMT DEF Typed, Story, Record, IsValidated, RowBecomes,
                             WorldKept, Active
    <3> QED BY <1>3, <3>1, <3>2 DEF IsValidated
  <2>2. Record(j)'
    <3>1. CASE validation'[j] = "valid"
      BY <1>3, <3>1, SMT DEF Typed, Story, Record, IsValidated, RowBecomes,
                             WorldKept, Active
    <3>2. CASE validation'[j] = "invalid"
      BY <1>3, <3>2, SMT DEF Typed, Story, Record, IsValidated, RowBecomes,
                             WorldKept, Active
    <3> QED BY <1>3, <3>1, <3>2 DEF IsValidated
  <2>3. MutationApproved(j)' <=> MutationApproved(j)
    BY <1>3, MutationFollows DEF IsValidated, VerdictsKept
  <2> QED BY <1>3, <2>1, <2>2, <2>3
          DEF Authority, IsValidated, RowBecomes, WorldKept
<1>4. CASE IsPulled(j)
  <2>1. pullRequest[j]
    BY <1>4 DEF IsPulled, WorkerStory
  <2>2. Story(j)'
    BY <1>4, SMT DEF Typed, Story, Record, IsPulled, RowBecomes, VerdictsKept,
                     Active
  <2>3. Record(j)'
    BY <1>4, <2>1, SMT DEF Typed, Story, Record, IsPulled, RowBecomes,
                           VerdictsKept, Active
  <2>4. MutationApproved(j)' <=> MutationApproved(j)
    BY <1>4, MutationFollows DEF IsPulled, VerdictsKept
  <2> QED BY <1>4, <2>2, <2>3, <2>4 DEF Authority, IsPulled, RowBecomes
<1> QED BY <1>1, <1>2, <1>3, <1>4

LEMMA EndsKeepStory ==
  ASSUME NEW j \in Jobs, Typed(j), Story(j), Record(j), Authority(j),
         IsRescheduled(j) \/ IsFailed(j) \/ IsDecided(j)
  PROVE  Story(j)' /\ Record(j)' /\ Authority(j)'
<1> USE Statuses, Entries, Undecideds
<1>1. CASE IsRescheduled(j)
  <2>1. Story(j)'
    BY <1>1, SMT DEF Typed, Story, Record, IsRescheduled, RowBecomes, VerdictsKept,
                     WorldKept, EvidenceKept, Active
  <2>2. Record(j)'
    BY <1>1, SMT DEF Typed, Story, Record, IsRescheduled, RowBecomes, VerdictsKept,
                     WorldKept, EvidenceKept, Active
  <2>3. MutationApproved(j)' <=> MutationApproved(j)
    BY <1>1, MutationFollows DEF IsRescheduled, VerdictsKept, EvidenceKept
  <2> QED BY <1>1, <2>1, <2>2, <2>3
          DEF Authority, IsRescheduled, RowBecomes, WorldKept, EvidenceKept
<1>2. CASE IsFailed(j)
  <2>1. Story(j)'
    BY <1>2, SMT DEF Typed, Story, Record, IsFailed, RowBecomes, VerdictsKept,
                     WorldKept, Active
  <2>2. Record(j)'
    BY <1>2, SMT DEF Typed, Story, Record, IsFailed, RowBecomes, VerdictsKept,
                     WorldKept, Active
  <2>3. MutationApproved(j)' <=> MutationApproved(j)
    BY <1>2, MutationFollows DEF IsFailed, VerdictsKept
  <2> QED BY <1>2, <2>1, <2>2, <2>3
          DEF Authority, IsFailed, RowBecomes, WorldKept
<1>3. CASE IsDecided(j)
  <2>1. decision'[j] # Undecided /\ decision'[j].verdict \in {"approved", "rejected"}
    BY <1>3 DEF IsDecided
  <2>2. Story(j)'
    BY <1>3, <2>1, SMT DEF Typed, Story, Record, IsDecided, RowBecomes,
                           WorldKept, Active
  <2>3. Record(j)'
    BY <1>3, <2>1, SMT DEF Typed, Story, Record, IsDecided, RowBecomes,
                           WorldKept, Active
  <2>4. ~MutationApproved(j)
    BY <1>3, SMT DEF MutationApproved, Typed, Story, IsDecided
  <2> QED BY <1>3, <2>1, <2>2, <2>3, <2>4
          DEF Authority, IsDecided, RowBecomes, WorldKept
<1> QED BY <1>1, <1>2, <1>3

-----------------------------------------------------------------------------
(* What one step does to a worker.                                         *)

WorkerMove(w) ==
  \/ /\ worker'[w].job = worker[w].job /\ worker'[w].stage = worker[w].stage
     /\ \/ worker'[w].pc \in {worker[w].pc, "working", "failing"}
        \/ /\ worker'[w].pc = "reconciled" /\ worker[w].stage = "creating_pr"
           /\ pullRequest'[worker[w].job]
  \/ worker'[w].stage = "none" /\ worker'[w].pc = "idle"
  \/ /\ worker'[w].pc = "claimed"
     /\ worker'[w].stage = "creating_pr" =>
          worker'[w].job \in Jobs /\ MutationApproved(worker'[w].job)

Step == /\ \A j \in Jobs : Moves(j)
        /\ \A w \in Workers : WorkerMove(w)

LEMMA MovesKeepAuthority ==
  ASSUME NEW j, Story(j), Moves(j)
  PROVE  /\ MutationApproved(j) => MutationApproved(j)'
         /\ pullRequest[j] => pullRequest'[j]
<1>1. CASE IsDecided(j)
  <2>1. decision[j] = Undecided
    BY <1>1, SMT DEF Story, IsDecided
  <2> QED BY <1>1, <2>1, Undecideds, SMT
          DEF MutationApproved, IsDecided, WorldKept
<1>2. CASE ~IsDecided(j)
  <2>1. decision'[j] = decision[j]
    BY <1>2 DEF Moves, Rests, IsSubmitted, IsPromoted, IsClaimed, IsAnalyzed,
                IsPatched, IsValidated, IsPulled, IsRescheduled, IsFailed,
                EvidenceKept, VerdictsKept
  <2>2. pullRequest'[j] = pullRequest[j] \/ pullRequest'[j] = TRUE
    BY <1>2, Zenon DEF Moves, Rests, IsSubmitted, IsPromoted, IsClaimed,
                IsAnalyzed, IsPatched, IsValidated, IsPulled, IsRescheduled,
                IsFailed, EvidenceKept, WorldKept
  <2> QED BY <2>1, <2>2, MutationFollows
<1> QED BY <1>1, <1>2

LEMMA StepKeepsStory ==
  ASSUME IInv, StoryInv, Step
  PROVE  StoryInv'
<1>1. \A j \in Jobs : Typed(j)
  BY AllTyped
<1>2. ASSUME NEW j \in Jobs
      PROVE  (Story(j) /\ Record(j) /\ Authority(j))'
  <2>1. Typed(j) /\ Story(j) /\ Record(j) /\ Authority(j) /\ WorkerStory
    BY <1>1 DEF StoryInv
  <2>2. Moves(j)
    BY DEF Step
  <2> QED BY <2>1, <2>2, RestKeepsStory, QueueMovesKeepStory,
             CommitsKeepStory, EndsKeepStory DEF Moves
<1>3. WorkerStory'
  <2> DEFINE Approving(d) == /\ d.verdict = "approved"
                             /\ d.method \in {"github_token", "api_key"}
  <2>1. \A j \in Jobs : /\ MutationApproved(j) => Approving(decision'[j])
                        /\ pullRequest[j] => pullRequest'[j]
    <3>1. \A j \in Jobs : MutationApproved(j)' <=> Approving(decision'[j])
      BY DEF MutationApproved
    <3> QED BY <3>1, MovesKeepAuthority DEF StoryInv, Step
  <2>2. ASSUME NEW w \in Workers
        PROVE  /\ worker'[w].stage = "creating_pr" =>
                    /\ worker'[w].job \in Jobs
                    /\ Approving(decision'[worker'[w].job])
               /\ worker'[w].pc = "reconciled" =>
                    /\ worker'[w].stage = "creating_pr"
                    /\ pullRequest'[worker'[w].job]
    <3>1. /\ worker[w].stage = "creating_pr" =>
               worker[w].job \in Jobs /\ MutationApproved(worker[w].job)
          /\ worker[w].pc = "reconciled" =>
               worker[w].stage = "creating_pr" /\ pullRequest[worker[w].job]
      BY DEF StoryInv, WorkerStory
    <3>2. WorkerMove(w)
      BY DEF Step
    <3> HIDE DEF Approving
    <3> QED BY <2>1, <3>1, <3>2 DEF WorkerMove
  <2> QED BY <2>2 DEF WorkerStory, MutationApproved
<1> QED BY <1>2, <1>3 DEF StoryInv

-----------------------------------------------------------------------------
(* Every step of the queue is one of these moves.                          *)

SameJob(j) == job'[j] = job[j] /\ EvidenceKept(j)

LEMMA SameRests ==
  ASSUME NEW j, SameJob(j)
  PROVE  Moves(j)
BY Zenon DEF SameJob, Moves, Rests, RowBecomes, EvidenceKept, WorldKept

(* A table in which at most the row of job j is written.                   *)
OnlyAt(old, new, j) == \E v : new = [old EXCEPT ![j] = v]

LEMMA Unwritten ==
  ASSUME NEW S, NEW T, NEW old \in [S -> T], NEW new, NEW j,
         new = old \/ OnlyAt(old, new, j)
  PROVE  \A k \in S : k # j => new[k] = old[k]
BY DEF OnlyAt

(* The jobs a step does not name are left alone.                           *)
LEMMA OthersRest ==
  ASSUME IInv, NEW j,
         job' = job \/ OnlyAt(job, job', j),
         run' = run \/ OnlyAt(run, run', j),
         action' = action \/ OnlyAt(action, action', j),
         validation' = validation \/ OnlyAt(validation, validation', j),
         decision' = decision \/ OnlyAt(decision, decision', j),
         operation' = operation \/ OnlyAt(operation, operation', j),
         pullRequest' = pullRequest \/ OnlyAt(pullRequest, pullRequest', j)
  PROVE  \A k \in Jobs : k # j => Moves(k)
<1>1. job \in [Jobs -> JobRow]
  BY DEF IInv, RowsInv
<1>2. /\ run \in [Jobs -> RunStatus] /\ action \in [Jobs -> ActionStatus]
      /\ validation \in [Jobs -> ValidationStatus]
      /\ decision \in [Jobs -> Decision \cup {Undecided}]
      /\ operation \in [Jobs -> OperationStatus]
      /\ pullRequest \in [Jobs -> BOOLEAN]
  BY DEF IInv, EvidenceType
<1>3. \A k \in Jobs : k # j => SameJob(k)
  <2>1. \A k \in Jobs : k # j => job'[k] = job[k]
    BY <1>1, Unwritten
  <2>2. \A k \in Jobs : k # j => run'[k] = run[k]
    BY <1>2, Zenon DEF OnlyAt
  <2>3. \A k \in Jobs : k # j => action'[k] = action[k]
    BY <1>2, Zenon DEF OnlyAt
  <2>4. \A k \in Jobs : k # j => validation'[k] = validation[k]
    BY <1>2, Zenon DEF OnlyAt
  <2>5. \A k \in Jobs : k # j => decision'[k] = decision[k]
    BY <1>2, Zenon DEF OnlyAt
  <2>6. \A k \in Jobs : k # j => operation'[k] = operation[k]
    BY <1>2, Zenon DEF OnlyAt
  <2>7. \A k \in Jobs : k # j => pullRequest'[k] = pullRequest[k]
    BY <1>2, Zenon DEF OnlyAt
  <2> QED BY <2>1, <2>2, <2>3, <2>4, <2>5, <2>6, <2>7
          DEF SameJob, EvidenceKept, VerdictsKept, WorldKept
<1> QED BY <1>3, SameRests

LEMMA SameWorkers ==
  ASSUME UNCHANGED worker
  PROVE  \A w \in Workers : WorkerMove(w)
BY DEF WorkerMove

(* A worker goes idle, goes on, or has its pull request.                   *)
LEMMA OneWorker ==
  ASSUME IInv, NEW w \in Workers, NEW new,
         worker' = [worker EXCEPT ![w] = new],
         \/ new = Idle
         \/ new = [worker[w] EXCEPT !.pc = "working"]
         \/ new = [worker[w] EXCEPT !.pc = "failing"]
         \/ /\ new = [worker[w] EXCEPT !.pc = "reconciled"]
            /\ worker[w].stage = "creating_pr" /\ pullRequest'[worker[w].job]
  PROVE  \A v \in Workers : WorkerMove(v)
<1>1. worker \in [Workers -> WorkerState]
  BY DEF IInv, WorkersInv
<1>2. \A v \in Workers : worker'[v] = IF v = w THEN new ELSE worker[v]
  BY <1>1
<1>3. worker[w] \in WorkerState
  BY <1>1
<1>4. \A p : /\ [worker[w] EXCEPT !.pc = p].pc = p
             /\ [worker[w] EXCEPT !.pc = p].job = worker[w].job
             /\ [worker[w] EXCEPT !.pc = p].stage = worker[w].stage
  BY <1>3, SMT DEF WorkerState
<1>5. Idle.stage = "none" /\ Idle.pc = "idle"
  BY DEF Idle
<1>6. \/ /\ new.job = worker[w].job /\ new.stage = worker[w].stage
         /\ \/ new.pc \in {"working", "failing"}
            \/ /\ new.pc = "reconciled" /\ worker[w].stage = "creating_pr"
               /\ pullRequest'[worker[w].job]
      \/ new.stage = "none" /\ new.pc = "idle"
  <2>1. \A p \in {"working", "failing", "reconciled"} :
          LET r == [worker[w] EXCEPT !.pc = p] IN
            r.pc = p /\ r.job = worker[w].job /\ r.stage = worker[w].stage
    BY <1>4
  <2> QED BY <1>5, <2>1, Zenon
<1>7. WorkerMove(w)
  BY <1>2, <1>6 DEF WorkerMove
<1>8. ASSUME NEW v \in Workers, v # w
      PROVE  WorkerMove(v)
  BY <1>2, <1>8 DEF WorkerMove
<1> QED BY <1>7, <1>8

LEMMA ResponseMoves ==
  ASSUME IInv, NEW w \in Workers, NEW rec, Responds(w, rec),
         \/ rec = Idle
         \/ rec = [worker[w] EXCEPT !.pc = "working"]
         \/ /\ rec = [worker[w] EXCEPT !.pc = "reconciled"]
            /\ worker[w].stage = "creating_pr" /\ pullRequest'[worker[w].job]
  PROVE  \A v \in Workers : WorkerMove(v)
<1>1. CASE worker' = [worker EXCEPT ![w] = rec]
  BY <1>1, OneWorker
<1>2. CASE worker' = [worker EXCEPT ![w].pc = "failing"]
  <2>1. worker' = [worker EXCEPT ![w] = [worker[w] EXCEPT !.pc = "failing"]]
    BY <1>2
  <2> QED BY <2>1, OneWorker
<1> QED BY <1>1, <1>2 DEF Responds

LEMMA QuietMoves ==
  ASSUME UNCHANGED <<job, evidence>>
  PROVE  \A j \in Jobs : Moves(j)
BY SameRests DEF evidence, SameJob, EvidenceKept, VerdictsKept, WorldKept

(* The steps a worker takes without the database.                          *)
LEMMA LocalStep ==
  ASSUME IInv, NEW w \in Workers,
         StageFails(w) \/ LeaseLost(w) \/ ReplayCompletion(w)
  PROVE  Step
<1>1. UNCHANGED <<job, evidence>>
  BY DEF StageFails, LeaseLost, ReplayCompletion
<1>2. \/ worker' = [worker EXCEPT ![w] = [worker[w] EXCEPT !.pc = "failing"]]
      \/ worker' = [worker EXCEPT ![w] = Idle]
  BY DEF StageFails, LeaseLost, ReplayCompletion
<1>3. \A v \in Workers : WorkerMove(v)
  BY <1>2, OneWorker
<1> QED BY <1>1, <1>3, QuietMoves DEF Step

LEMMA CrashStep ==
  ASSUME IInv, NEW stopped \in SUBSET Workers, Crash(stopped)
  PROVE  Step
<1>1. UNCHANGED <<job, evidence>>
  BY DEF Crash
<1>2. \A w \in Workers : worker'[w] = Idle \/ worker'[w] = worker[w]
  BY DEF Crash
<1>3. \A w \in Workers : WorkerMove(w)
  BY <1>2 DEF WorkerMove, Idle
<1> QED BY <1>1, <1>3, QuietMoves DEF Step

(* begin_... moves at most the run and the operation of its job.           *)
LEMMA BeginStep ==
  ASSUME IInv, NEW w \in Workers,
         \/ BeginAnalysis(w)
         \/ BeginPatchGeneration(w)
         \/ BeginPatchValidation(w)
         \/ BeginPrCreation(w)
  PROVE  Step
<1> DEFINE j == worker[w].job
<1>1. PICK s : Begin(w, s)
  BY DEF BeginAnalysis, BeginPatchGeneration, BeginPatchValidation,
         BeginPrCreation
<1>2. /\ j \in Jobs /\ job[j] \in JobRow
      /\ run \in [Jobs -> RunStatus] /\ operation \in [Jobs -> OperationStatus]
  BY <1>1, BusyCarries DEF Begin, Carries, RowInv, IInv, EvidenceType
<1>3. UNCHANGED <<job, action, validation, decision, pullRequest>>
  BY <1>1 DEF Begin
<1>4. \A v \in Workers : WorkerMove(v)
  BY <1>1, ResponseMoves DEF Begin
<1>5. \/ UNCHANGED <<run, operation>>
      \/ /\ run' = [run EXCEPT ![j] = "analyzing"]
         /\ run[j] \in {"queued", "analyzing"} /\ UNCHANGED operation
      \/ /\ operation' = [operation EXCEPT ![j] =
                             IF @ = "none" THEN "pending" ELSE @]
         /\ MutationApproved(j) /\ UNCHANGED run
  BY DEF BeginAnalysis, BeginPatchGeneration, BeginPatchValidation,
         BeginPrCreation
<1>6. /\ run' = run \/ OnlyAt(run, run', j)
      /\ operation' = operation \/ OnlyAt(operation, operation', j)
  BY <1>5, Zenon DEF OnlyAt
<1>7. \A k \in Jobs : k # j => Moves(k)
  BY <1>3, <1>6, OthersRest, Zenon
<1>8. Rests(j)
  BY <1>2, <1>3, <1>5, SMT DEF Rests, RowBecomes, VerdictsKept
<1> QED BY <1>4, <1>7, <1>8 DEF Step, Moves

LEMMA EnsureStep ==
  ASSUME IInv, NEW w \in Workers, EnsurePullRequest(w)
  PROVE  Step
<1> DEFINE j == worker[w].job
<1>1. j \in Jobs /\ pullRequest \in [Jobs -> BOOLEAN]
  BY BusyCarries DEF EnsurePullRequest, Carries, IInv, EvidenceType
<1>2. /\ pullRequest' = [pullRequest EXCEPT ![j] = TRUE]
      /\ UNCHANGED <<job, run, action, validation, decision, operation>>
      /\ MutatorOf(w, j)
      /\ Responds(w, [worker[w] EXCEPT !.pc = "reconciled"])
  BY DEF EnsurePullRequest, MutatorOf
<1>3. pullRequest'[j] = TRUE
  BY <1>1, <1>2
<1>4. \A v \in Workers : WorkerMove(v)
  BY <1>2, <1>3, ResponseMoves DEF MutatorOf
<1>5. \A k \in Jobs : k # j => Moves(k)
  <2>1. OnlyAt(pullRequest, pullRequest', j)
    BY <1>2 DEF OnlyAt
  <2> QED BY <1>2, <2>1, OthersRest, Zenon
<1>6. Rests(j)
  BY <1>2, <1>3 DEF Rests, RowBecomes, VerdictsKept
<1> QED BY <1>4, <1>5, <1>6 DEF Step, Moves

(* Time, and the renewal of a lease that is still live.                    *)
LEMMA TimeStep ==
  ASSUME IInv, NEW j \in Jobs, NEW n,
         \/ job' = [job EXCEPT ![j].ttl = n] /\ Active(job[j]) /\ job[j].ttl > 0
         \/ job' = [job EXCEPT ![j].due = n],
         UNCHANGED <<evidence, worker>>
  PROVE  Step
<1>1. job \in [Jobs -> JobRow] /\ job[j] \in JobRow
  BY DEF IInv, RowsInv
<1>2. UNCHANGED <<run, action, validation, decision, operation, pullRequest>>
  BY DEF evidence
<1>3. \A k \in Jobs : k # j => Moves(k)
  <2>1. OnlyAt(job, job', j)
    BY Zenon DEF OnlyAt
  <2> QED BY <1>2, <2>1, OthersRest, Zenon
<1>4. \/ job'[j] = [job[j] EXCEPT !.ttl = n] /\ Active(job[j]) /\ job[j].ttl > 0
      \/ job'[j] = [job[j] EXCEPT !.due = n]
  BY <1>1
<1>5. Rests(j)
  BY <1>1, <1>2, <1>4, SMT DEF Rests, RowBecomes, VerdictsKept, JobRow
<1>6. \A v \in Workers : WorkerMove(v)
  BY SameWorkers
<1> QED BY <1>3, <1>5, <1>6 DEF Step, Moves

LEMMA SubmitStep ==
  ASSUME IInv, NEW j \in Jobs, Submit(j)
  PROVE  Step
<1>1. PICK due \in BOOLEAN :
        job' = [job EXCEPT ![j] = [AbsentJob EXCEPT !.status = "queued",
                                                    !.due = due]]
  BY DEF Submit
<1>2. /\ run' = [run EXCEPT ![j] = "queued"]
      /\ UNCHANGED <<action, validation, decision, operation, pullRequest, worker>>
      /\ job[j].status = "absent"
  BY DEF Submit
<1>3. /\ job \in [Jobs -> JobRow] /\ run \in [Jobs -> RunStatus]
  BY DEF IInv, RowsInv, EvidenceType
<1>4. \A k \in Jobs : k # j => Moves(k)
  <2>1. OnlyAt(job, job', j) /\ OnlyAt(run, run', j)
    BY <1>1, <1>2, Zenon DEF OnlyAt
  <2> QED BY <1>2, <2>1, OthersRest, Zenon
<1>5. IsSubmitted(j)
  <2>1. /\ job'[j] = [AbsentJob EXCEPT !.status = "queued", !.due = due]
        /\ run'[j] = "queued"
    BY <1>1, <1>2, <1>3
  <2> QED BY <1>2, <2>1, SMT
          DEF IsSubmitted, RowBecomes, VerdictsKept, WorldKept, AbsentJob
<1> QED BY <1>2, <1>4, <1>5, SameWorkers DEF Step, Moves

LEMMA DecideStep ==
  ASSUME IInv, NEW j \in Jobs, RecordHumanDecision(j)
  PROVE  Step
<1>1. PICK d \in Decision :
        /\ decision' = [decision EXCEPT ![j] = d]
        /\ action' = [action EXCEPT ![j] = d.verdict]
        /\ job' = [job EXCEPT ![j] =
               [@ EXCEPT !.status = d.verdict,
                         !.checkpoint = "approval_recorded"]]
  BY Zenon DEF RecordHumanDecision
<1>2. /\ job[j].status = "awaiting_approval"
      /\ job[j].checkpoint = "patch_validated"
      /\ validation[j] = "valid" /\ action[j] = "proposed"
      /\ UNCHANGED <<run, validation, operation, pullRequest, worker>>
  BY Zenon DEF RecordHumanDecision
<1>3. /\ job \in [Jobs -> JobRow] /\ job[j] \in JobRow
      /\ decision \in [Jobs -> Decision \cup {Undecided}]
      /\ action \in [Jobs -> ActionStatus]
  BY DEF IInv, RowsInv, EvidenceType
<1>4. \A k \in Jobs : k # j => Moves(k)
  <2>1. OnlyAt(job, job', j) /\ OnlyAt(decision, decision', j)
        /\ OnlyAt(action, action', j)
    BY <1>1, Zenon DEF OnlyAt
  <2> QED BY <1>2, <2>1, OthersRest, Zenon
<1>5. IsDecided(j)
  <2>1. /\ job'[j] = [job[j] EXCEPT !.status = d.verdict,
                                   !.checkpoint = "approval_recorded"]
        /\ decision'[j] = d /\ action'[j] = d.verdict
    BY <1>1, <1>3
  <2>2. RowBecomes(j, d.verdict, "approval_recorded", job[j].resume)
        /\ job'[j].lease = job[j].lease
    BY <1>3, <2>1, SMT DEF RowBecomes, JobRow
  <2> QED BY <1>2, <2>1, <2>2 DEF IsDecided, WorldKept
<1> QED BY <1>2, <1>4, <1>5, SameWorkers DEF Step, Moves

(* A row before a claim takes it: as it was, or promoted.                  *)
LEMMA PromotedFields ==
  ASSUME IInv, NEW locked, NEW j \in Jobs
  PROVE  LET row == PromotedBut(locked)[j] IN
         /\ row \in JobRow
         /\ row.checkpoint = job[j].checkpoint /\ row.resume = job[j].resume
         /\ row.lease = job[j].lease
         /\ \/ row = job[j]
            \/ job[j].status = "retry_scheduled" /\ row.status = "queued"
<1> DEFINE row == PromotedBut(locked)[j]
<1>1. RowInv(j, job[j]) /\ job[j] \in JobRow
  BY DEF IInv, RowsInv, RowInv
<1>2. \/ row = job[j]
      \/ /\ job[j].status = "retry_scheduled"
         /\ row = [job[j] EXCEPT !.status = "queued", !.failure = "none"]
  BY DEF PromotedBut, Promote
<1>3. RowInv(j, row)
  BY <1>1, PromotedRow DEF PromotedBut
<1>4. row \in JobRow
  BY <1>3 DEF RowInv
<1> HIDE DEF row
<1>5. /\ row.checkpoint = job[j].checkpoint /\ row.resume = job[j].resume
      /\ row.lease = job[j].lease
      /\ \/ row = job[j]
         \/ job[j].status = "retry_scheduled" /\ row.status = "queued"
  <2>1. CASE row = job[j]
    BY <2>1
  <2>2. CASE /\ job[j].status = "retry_scheduled"
             /\ row = [job[j] EXCEPT !.status = "queued", !.failure = "none"]
    BY <1>1, <2>2, SMT DEF JobRow
  <2> QED BY <1>2, <2>1, <2>2
<1> QED BY <1>4, <1>5 DEF row

LEMMA ClaimStep ==
  ASSUME IInv, NEW w \in Workers, NEW s \in ActiveStates,
         NEW locked \in SUBSET Jobs, NEW candidates \in SUBSET Jobs,
         ClaimFrom(w, s, PromotedBut(locked), candidates),
         \A j \in candidates :
           LET row == PromotedBut(locked)[j] IN
           /\ \/ row.status = "queued" /\ row.resume = s
              \/ row.status = "approved" /\ s = "creating_pr"
           /\ s = "creating_pr" => MutationApproved(j)
  PROVE  Step
<1> DEFINE rows == PromotedBut(locked)
<1>1. \A k \in Jobs :
        /\ rows[k] \in JobRow
        /\ rows[k].checkpoint = job[k].checkpoint
        /\ rows[k].resume = job[k].resume /\ rows[k].lease = job[k].lease
        /\ \/ rows[k] = job[k]
           \/ job[k].status = "retry_scheduled" /\ rows[k].status = "queued"
  BY PromotedFields
<1>2. rows = [k \in Jobs |-> rows[k]]
  BY DEF PromotedBut
<1>3. \A k \in Jobs : EvidenceKept(k)
  BY DEF ClaimFrom, evidence, EvidenceKept, VerdictsKept, WorldKept
<1>4. \A j \in candidates :
        /\ \/ rows[j].status = "queued" /\ rows[j].resume = s
           \/ rows[j].status = "approved" /\ s = "creating_pr"
        /\ s = "creating_pr" => MutationApproved(j)
  OBVIOUS
<1>5. \/ job' = rows /\ UNCHANGED worker
      \/ \E j \in candidates :
           /\ job' = [rows EXCEPT ![j] = Leased(rows[j], s)]
           /\ worker' = [worker EXCEPT ![w] = Holding(j, s, FreshToken(rows[j]))]
  BY Zenon DEF ClaimFrom
<1> HIDE DEF rows
<1>6. ASSUME NEW k \in Jobs, job'[k] = rows[k]
      PROVE  Moves(k)
  <2>1. CASE rows[k] = job[k]
    BY <1>3, <1>6, <2>1, SameRests DEF SameJob
  <2>2. CASE job[k].status = "retry_scheduled" /\ rows[k].status = "queued"
    BY <1>1, <1>3, <1>6, <2>2 DEF Moves, IsPromoted, RowBecomes
  <2> QED BY <1>1, <2>1, <2>2
<1>7. CASE job' = rows /\ UNCHANGED worker
  BY <1>6, <1>7, SameWorkers DEF Step
<1>8. ASSUME NEW j \in candidates,
             job' = [rows EXCEPT ![j] = Leased(rows[j], s)],
             worker' = [worker EXCEPT ![w] = Holding(j, s, FreshToken(rows[j]))]
      PROVE  Step
  <2> DEFINE new == Leased(rows[j], s)
             held == Holding(j, s, FreshToken(rows[j]))
  <2>1. /\ new.status = s /\ new.resume = s
        /\ new.checkpoint = rows[j].checkpoint
        /\ new.lease # 0
    BY <1>1, SMT DEF Leased, FreshToken, JobRow
  <2>2. held.pc = "claimed" /\ held.stage = s /\ held.job = j
    BY DEF Holding
  <2> HIDE DEF new, held
  <2>3. \A k \in Jobs : job'[k] = IF k = j THEN new ELSE rows[k]
    BY <1>2, <1>8 DEF new
  <2>4. IsClaimed(j)
    <3>1. RowBecomes(j, s, job[j].checkpoint, s) /\ job'[j].lease # 0
      BY <1>1, <2>1, <2>3 DEF RowBecomes
    <3>2. \/ job[j].status \in {"queued", "retry_scheduled"} /\ job[j].resume = s
          \/ job[j].status = "approved" /\ s = "creating_pr"
      BY <1>1, <1>4
    <3> QED BY <1>3, <1>4, <3>1, <3>2 DEF IsClaimed
  <2>5. \A k \in Jobs : Moves(k)
    BY <1>6, <2>3, <2>4 DEF Moves
  <2>6. \A v \in Workers : WorkerMove(v)
    <3>1. \A v \in Workers : worker'[v] = IF v = w THEN held ELSE worker[v]
      BY <1>8 DEF IInv, WorkersInv, held
    <3> QED BY <1>4, <2>2, <3>1 DEF WorkerMove
  <2> QED BY <2>5, <2>6 DEF Step
<1> QED BY <1>5, <1>7, <1>8

LEMMA ClaimsStep ==
  ASSUME IInv, NEW w \in Workers,
         \/ \E s \in ActiveStates \ {"creating_pr"} : ClaimNext(w, s)
         \/ ClaimPrNext(w)
  PROVE  Step
<1>1. ASSUME NEW s \in ActiveStates \ {"creating_pr"}, ClaimNext(w, s)
      PROVE  Step
  <2>1. PICK locked \in SUBSET Jobs :
          ClaimFrom(w, s, PromotedBut(locked),
            {j \in Jobs \ locked : Claimable(j, PromotedBut(locked)[j], s)})
    BY <1>1 DEF ClaimNext
  <2> QED BY <2>1, ClaimStep DEF Claimable
<1>2. CASE ClaimPrNext(w)
  <2>1. PICK locked \in SUBSET Jobs :
          ClaimFrom(w, "creating_pr", PromotedBut(locked),
            {j \in Jobs \ locked : PrClaimable(j, PromotedBut(locked)[j])})
    BY <1>2 DEF ClaimPrNext
  <2>2. "creating_pr" \in ActiveStates
    BY DEF ActiveStates
  <2> QED BY <2>1, <2>2, ClaimStep DEF PrClaimable
<1> QED BY <1>1, <1>2

LEMMA Results ==
  /\ StageResult["analyzing"] = "analysis_completed"
  /\ StageResult["generating_patch"] = "patch_generated"
  /\ StageResult["validating_patch"] = "patch_validated"
  /\ StageResult["creating_pr"] = "pr_created"
BY DEF StageResult

(* What a completion writes to the row of its job.                         *)
LEMMA CommitStep ==
  ASSUME IInv, NEW w \in Workers, NEW s, MayCommit(w, s), NEW r,
         CommitRow(r, job[worker[w].job]), Commit(w, r)
  PROVE  LET j == worker[w].job IN
         /\ j \in Jobs
         /\ job[j].status = s
         /\ OnlyAt(job, job', j)
         /\ RowBecomes(j, r.status, StageResult[s], r.resume)
         /\ job'[j].lease = 0
         /\ \A v \in Workers : WorkerMove(v)
<1> DEFINE j == worker[w].job
           c == StageResult[worker[w].stage]
           rel == Released(r)
           new == [rel EXCEPT !.checkpoint = c]
<1>1. /\ worker[w].pc # "idle" /\ worker[w].pc # "failing"
      /\ HasToken(w) /\ worker[w].stage = s
  BY SMT DEF MayCommit, Owned
<1>2. j \in Jobs /\ job \in [Jobs -> JobRow] /\ job[j].status = s
  BY <1>1, BusyCarries DEF Carries, IInv, RowsInv, HasToken
<1>3. /\ rel \in JobRow /\ rel.status = r.status /\ rel.resume = r.resume
      /\ rel.lease = 0
  BY ReleasedRow DEF CommitRow
<1>4. job' = [job EXCEPT ![j] = new] /\ Responds(w, Idle)
  BY DEF Commit
<1>5. \A v \in Workers : WorkerMove(v)
  BY <1>4, ResponseMoves
<1>6. OnlyAt(job, job', j)
  BY <1>4, Zenon DEF OnlyAt
<1>7. job'[j] = new
  BY <1>2, <1>4
<1> HIDE DEF rel, c
<1>8. /\ new.status = r.status /\ new.resume = r.resume /\ new.lease = 0
      /\ new.checkpoint = c
  BY <1>3, SMT DEF JobRow
<1>9. RowBecomes(j, r.status, StageResult[s], r.resume) /\ job'[j].lease = 0
  BY <1>1, <1>7, <1>8 DEF RowBecomes, c
<1> QED BY <1>2, <1>5, <1>6, <1>9

LEMMA CompleteAnalysisStep ==
  ASSUME IInv, NEW w \in Workers, CompleteAnalysis(w)
  PROVE  Step
<1> DEFINE j == worker[w].job
           row == job[j]
           next == [row EXCEPT !.status = "queued", !.resume = "generating_patch"]
           end == [row EXCEPT !.status = "completed"]
<1>1. /\ MayCommit(w, "analyzing")
      /\ job[j].checkpoint = "submitted"
      /\ UNCHANGED <<action, validation, decision, operation, pullRequest>>
  BY DEF CompleteAnalysis
<1>2. PICK result \in {"review_required", "completed_clean", "inconclusive"} :
        /\ run' = [run EXCEPT ![j] = result]
        /\ Commit(w, IF result = "review_required" THEN next ELSE end)
  BY Zenon DEF CompleteAnalysis
<1>3. j \in Jobs /\ row \in JobRow /\ row.failure = "none"
  BY <1>1, MayCommitRow
<1>4. CommitRow(next, row) /\ CommitRow(end, row)
  <2>1. "generating_patch" \in ActiveStates
    BY DEF ActiveStates
  <2> QED BY <1>3, <2>1, CompletionRows
<1>5. /\ next.status = "queued" /\ next.resume = "generating_patch"
      /\ end.status = "completed" /\ end.resume = row.resume
  BY <1>3, SMT DEF JobRow
<1>6. run'[j] = result /\ OnlyAt(run, run', j)
  BY <1>2, <1>3, Zenon DEF IInv, EvidenceType, OnlyAt
<1> HIDE DEF next, end
<1>7. /\ job[j].status = "analyzing" /\ OnlyAt(job, job', j)
      /\ job'[j].lease = 0 /\ \A v \in Workers : WorkerMove(v)
      /\ IF result = "review_required"
         THEN RowBecomes(j, "queued", "analysis_completed", "generating_patch")
         ELSE RowBecomes(j, "completed", "analysis_completed", row.resume)
  <2>1. CASE result = "review_required"
    BY <1>1, <1>2, <1>4, <1>5, <2>1, CommitStep, Results
  <2>2. CASE result # "review_required"
    BY <1>1, <1>2, <1>4, <1>5, <2>2, CommitStep, Results
  <2> QED BY <2>1, <2>2
<1>8. \A k \in Jobs : k # j => Moves(k)
  BY <1>1, <1>6, <1>7, OthersRest, Zenon
<1>9. IsAnalyzed(j)
  BY <1>1, <1>6, <1>7 DEF IsAnalyzed, VerdictsKept, WorldKept
<1> QED BY <1>7, <1>8, <1>9 DEF Step, Moves

LEMMA CompletePatchGenerationStep ==
  ASSUME IInv, NEW w \in Workers, CompletePatchGeneration(w)
  PROVE  Step
<1> DEFINE j == worker[w].job
           row == job[j]
           next == [row EXCEPT !.status = "queued", !.resume = "validating_patch"]
<1>1. /\ MayCommit(w, "generating_patch")
      /\ row.checkpoint = "analysis_completed"
      /\ action[j] = "none" /\ action' = [action EXCEPT ![j] = "proposed"]
      /\ Commit(w, next)
      /\ UNCHANGED <<run, validation, decision, operation, pullRequest>>
  BY Zenon DEF CompletePatchGeneration
<1>2. j \in Jobs /\ row \in JobRow /\ row.failure = "none"
  BY <1>1, MayCommitRow
<1>3. CommitRow(next, row)
  <2>1. "validating_patch" \in ActiveStates
    BY DEF ActiveStates
  <2> QED BY <1>2, <2>1, CompletionRows
<1>4. next.status = "queued" /\ next.resume = "validating_patch"
  BY <1>2, SMT DEF JobRow
<1>5. action'[j] = "proposed" /\ OnlyAt(action, action', j)
  BY <1>1, <1>2, Zenon DEF IInv, EvidenceType, OnlyAt
<1> HIDE DEF next
<1>6. /\ job[j].status = "generating_patch" /\ OnlyAt(job, job', j)
      /\ job'[j].lease = 0 /\ \A v \in Workers : WorkerMove(v)
      /\ RowBecomes(j, "queued", "patch_generated", "validating_patch")
  BY <1>1, <1>3, <1>4, CommitStep, Results
<1>7. \A k \in Jobs : k # j => Moves(k)
  BY <1>1, <1>5, <1>6, OthersRest, Zenon
<1>8. IsPatched(j)
  BY <1>1, <1>5, <1>6 DEF IsPatched, VerdictsKept, WorldKept
<1> QED BY <1>6, <1>7, <1>8 DEF Step, Moves

LEMMA CompletePatchValidationStep ==
  ASSUME IInv, NEW w \in Workers, CompletePatchValidation(w)
  PROVE  Step
<1> DEFINE j == worker[w].job
           row == job[j]
           next == [row EXCEPT !.status = "awaiting_approval"]
           end == [row EXCEPT !.status = "failed", !.failure = "permanent"]
<1>1. /\ MayCommit(w, "validating_patch")
      /\ row.checkpoint = "patch_generated" /\ validation[j] = "none"
      /\ UNCHANGED <<run, decision, operation, pullRequest>>
  BY Zenon DEF CompletePatchValidation
<1>2. \/ /\ validation' = [validation EXCEPT ![j] = "valid"]
         /\ Commit(w, next) /\ UNCHANGED action
      \/ /\ validation' = [validation EXCEPT ![j] = "invalid"]
         /\ Commit(w, end) /\ action' = [action EXCEPT ![j] = "failed"]
  BY Zenon DEF CompletePatchValidation
<1>3. j \in Jobs /\ row \in JobRow /\ row.failure = "none"
  BY <1>1, MayCommitRow
<1>4. CommitRow(next, row) /\ CommitRow(end, row)
  BY <1>3, CompletionRows
<1>5. /\ next.status = "awaiting_approval" /\ next.resume = row.resume
      /\ end.status = "failed" /\ end.resume = row.resume
  BY <1>3, SMT DEF JobRow
<1>6. /\ action \in [Jobs -> ActionStatus]
      /\ validation \in [Jobs -> ValidationStatus]
  BY DEF IInv, EvidenceType
<1> HIDE DEF next, end
<1>7. CASE /\ validation' = [validation EXCEPT ![j] = "valid"]
           /\ Commit(w, next) /\ UNCHANGED action
  <2>1. validation'[j] = "valid" /\ OnlyAt(validation, validation', j)
    BY <1>3, <1>6, <1>7, Zenon DEF OnlyAt
  <2>2. /\ job[j].status = "validating_patch" /\ OnlyAt(job, job', j)
        /\ job'[j].lease = 0 /\ \A v \in Workers : WorkerMove(v)
        /\ RowBecomes(j, "awaiting_approval", "patch_validated", row.resume)
    BY <1>1, <1>4, <1>5, <1>7, CommitStep, Results
  <2>3. \A k \in Jobs : k # j => Moves(k)
    BY <1>1, <1>7, <2>1, <2>2, OthersRest, Zenon
  <2>4. IsValidated(j)
    BY <1>1, <1>7, <2>1, <2>2 DEF IsValidated, WorldKept
  <2> QED BY <2>2, <2>3, <2>4 DEF Step, Moves
<1>8. CASE /\ validation' = [validation EXCEPT ![j] = "invalid"]
           /\ Commit(w, end) /\ action' = [action EXCEPT ![j] = "failed"]
  <2>1. /\ validation'[j] = "invalid" /\ OnlyAt(validation, validation', j)
        /\ action'[j] = "failed" /\ OnlyAt(action, action', j)
    BY <1>3, <1>6, <1>8, Zenon DEF OnlyAt
  <2>2. /\ job[j].status = "validating_patch" /\ OnlyAt(job, job', j)
        /\ job'[j].lease = 0 /\ \A v \in Workers : WorkerMove(v)
        /\ RowBecomes(j, "failed", "patch_validated", row.resume)
    BY <1>1, <1>4, <1>5, <1>8, CommitStep, Results
  <2>3. \A k \in Jobs : k # j => Moves(k)
    BY <1>1, <2>1, <2>2, OthersRest, Zenon
  <2>4. IsValidated(j)
    BY <1>1, <2>1, <2>2 DEF IsValidated, WorldKept
  <2> QED BY <2>2, <2>3, <2>4 DEF Step, Moves
<1> QED BY <1>2, <1>7, <1>8

LEMMA CompletePrCreationStep ==
  ASSUME IInv, NEW w \in Workers, CompletePrCreation(w)
  PROVE  Step
<1> DEFINE j == worker[w].job
           row == job[j]
           end == [row EXCEPT !.status = "completed", !.failure = "none"]
<1>1. /\ MayCommit(w, "creating_pr") /\ Commit(w, end)
      /\ action[j] = "approved" /\ action' = [action EXCEPT ![j] = "pr_created"]
      /\ operation' = [operation EXCEPT ![j] = "completed"]
      /\ UNCHANGED <<run, validation, decision, pullRequest>>
  BY Zenon DEF CompletePrCreation
<1>2. worker[w].pc = "reconciled"
  BY <1>1 DEF MayCommit
<1>3. j \in Jobs /\ row \in JobRow /\ row.failure = "none"
  BY <1>1, MayCommitRow
<1>4. CommitRow(end, row)
  BY <1>3, CompletionRows
<1>5. end.status = "completed" /\ end.resume = row.resume
  BY <1>3, SMT DEF JobRow
<1>6. /\ action'[j] = "pr_created" /\ OnlyAt(action, action', j)
      /\ operation'[j] = "completed" /\ OnlyAt(operation, operation', j)
  BY <1>1, <1>3, Zenon DEF IInv, EvidenceType, OnlyAt
<1> HIDE DEF end
<1>7. /\ job[j].status = "creating_pr" /\ OnlyAt(job, job', j)
      /\ job'[j].lease = 0 /\ \A v \in Workers : WorkerMove(v)
      /\ RowBecomes(j, "completed", "pr_created", row.resume)
  BY <1>1, <1>4, <1>5, CommitStep, Results
<1>8. \A k \in Jobs : k # j => Moves(k)
  BY <1>1, <1>6, <1>7, OthersRest, Zenon
<1>9. IsPulled(j)
  BY <1>1, <1>2, <1>6, <1>7 DEF IsPulled, VerdictsKept
<1> QED BY <1>7, <1>8, <1>9 DEF Step, Moves

(* A lease given up, whether by schedule_failure or by recovery.           *)
LEMMA ScheduleFailureStep ==
  ASSUME IInv, NEW w \in Workers, ScheduleFailure(w)
  PROVE  Step
<1> DEFINE j == worker[w].job
           rel == Released(job[j])
           retry == [rel EXCEPT !.status = "retry_scheduled",
                                !.resume = job[j].status, !.due = FALSE,
                                !.failure = "retryable"]
           fail(d) == [rel EXCEPT !.status = "failed", !.failure = d]
<1>1. /\ worker[w].pc # "idle" /\ Active(job[j])
      /\ worker' = [worker EXCEPT ![w] = Idle]
      /\ UNCHANGED <<validation, decision, operation, pullRequest>>
  BY DEF ScheduleFailure, Owned, HasToken
<1>2. \/ job' = [job EXCEPT ![j] = retry] /\ UNCHANGED <<run, action>>
      \/ \E d \in {"retryable", "permanent"} :
           /\ job' = [job EXCEPT ![j] = fail(d)]
           /\ run' = [run EXCEPT ![j] =
                IF job[j].status = "analyzing" /\ @ \in {"queued", "analyzing"}
                THEN "failed" ELSE @]
           /\ action' = [action EXCEPT ![j] =
                IF job[j].status = "creating_pr" /\ @ = "approved"
                THEN "failed" ELSE @]
  BY Zenon DEF ScheduleFailure
<1>3. /\ j \in Jobs /\ job \in [Jobs -> JobRow] /\ job[j] \in JobRow
      /\ run \in [Jobs -> RunStatus] /\ action \in [Jobs -> ActionStatus]
  BY <1>1, BusyCarries DEF Carries, IInv, RowsInv, EvidenceType
<1>4. /\ rel \in JobRow /\ rel.resume = job[j].resume
      /\ rel.checkpoint = job[j].checkpoint /\ rel.lease = 0
  BY <1>3, ReleasedRow
<1> HIDE DEF rel
<1>5. /\ retry.status = "retry_scheduled" /\ retry.resume = job[j].status
      /\ retry.checkpoint = job[j].checkpoint /\ retry.lease = 0
  BY <1>4, SMT DEF JobRow
<1>6. \A d : /\ fail(d).status = "failed" /\ fail(d).resume = job[j].resume
             /\ fail(d).checkpoint = job[j].checkpoint /\ fail(d).lease = 0
  BY <1>4, SMT DEF JobRow
<1> HIDE DEF retry, fail
<1>7. \A v \in Workers : WorkerMove(v)
  BY <1>1, OneWorker
<1>8. CASE job' = [job EXCEPT ![j] = retry] /\ UNCHANGED <<run, action>>
  <2>1. OnlyAt(job, job', j) /\ job'[j] = retry
    BY <1>3, <1>8, Zenon DEF OnlyAt
  <2>2. \A k \in Jobs : k # j => Moves(k)
    BY <1>1, <1>8, <2>1, OthersRest, Zenon
  <2>3. IsRescheduled(j)
    BY <1>1, <1>5, <1>8, <2>1
       DEF IsRescheduled, RowBecomes, EvidenceKept, VerdictsKept, WorldKept
  <2> QED BY <1>7, <2>2, <2>3 DEF Step, Moves
<1>9. ASSUME NEW d \in {"retryable", "permanent"},
             job' = [job EXCEPT ![j] = fail(d)],
             run' = [run EXCEPT ![j] =
               IF job[j].status = "analyzing" /\ @ \in {"queued", "analyzing"}
               THEN "failed" ELSE @],
             action' = [action EXCEPT ![j] =
               IF job[j].status = "creating_pr" /\ @ = "approved"
               THEN "failed" ELSE @]
      PROVE  Step
  <2>1. OnlyAt(job, job', j) /\ job'[j] = fail(d)
    BY <1>3, <1>9, Zenon DEF OnlyAt
  <2>2. OnlyAt(run, run', j) /\ OnlyAt(action, action', j)
    BY <1>9, Zenon DEF OnlyAt
  <2>3. \A k \in Jobs : k # j => Moves(k)
    BY <1>1, <2>1, <2>2, OthersRest, Zenon
  <2>4. /\ run'[j] = run[j]
             \/ (run[j] \in {"queued", "analyzing"} /\ run'[j] = "failed")
        /\ action'[j] = action[j]
             \/ (action[j] = "approved" /\ action'[j] = "failed")
    BY <1>3, <1>9, SMT
  <2>5. IsFailed(j)
    BY <1>1, <1>6, <2>1, <2>4 DEF IsFailed, RowBecomes, VerdictsKept, WorldKept
  <2> QED BY <1>7, <2>3, <2>5 DEF Step, Moves
<1> QED BY <1>2, <1>8, <1>9

LEMMA RecoveredFields ==
  ASSUME NEW j, NEW row \in JobRow
  PROVE  LET new == Recovered(j, row) IN
         /\ new.checkpoint = row.checkpoint /\ new.lease = 0
         /\ \/ /\ new.status = "retry_scheduled" /\ new.resume = row.status
               /\ BudgetLeft(j, row)
            \/ new.status = "failed" /\ new.resume = row.resume
<1> DEFINE rel == Released(row)
           retry == [rel EXCEPT !.status = "retry_scheduled", !.resume = row.status,
                                !.due = TRUE, !.failure = "retryable"]
           fail == [rel EXCEPT !.status = "failed", !.due = TRUE,
                               !.failure = "retryable"]
<1>1. Recovered(j, row) = IF BudgetLeft(j, row) THEN retry ELSE fail
  BY DEF Recovered
<1>2. /\ rel \in JobRow /\ rel.lease = 0
      /\ rel.checkpoint = row.checkpoint /\ rel.resume = row.resume
  BY ReleasedRow
<1> HIDE DEF rel
<1>3. /\ retry.checkpoint = row.checkpoint /\ retry.lease = 0
      /\ retry.status = "retry_scheduled" /\ retry.resume = row.status
  BY <1>2, SMT DEF JobRow
<1>4. /\ fail.checkpoint = row.checkpoint /\ fail.lease = 0
      /\ fail.status = "failed" /\ fail.resume = row.resume
  BY <1>2, SMT DEF JobRow
<1> HIDE DEF retry, fail
<1> QED BY <1>1, <1>3, <1>4

(* recover_expired_leases takes any number of rows, the rest stay.         *)
LEMMA RecoverStep ==
  ASSUME IInv, RecoverExpiredLeases
  PROVE  Step
<1> PICK expired \in SUBSET {j \in Jobs : Expired(job[j])} :
      /\ job' = [j \in Jobs |->
                   IF j \in expired THEN Recovered(j, job[j]) ELSE job[j]]
      /\ run' = [j \in Jobs |->
                   IF /\ j \in expired
                      /\ ~BudgetLeft(j, job[j])
                      /\ job[j].resume = "analyzing"
                      /\ run[j] \in {"queued", "analyzing"}
                   THEN "failed" ELSE run[j]]
      /\ UNCHANGED <<action, validation, decision, operation, pullRequest, worker>>
  BY Zenon DEF RecoverExpiredLeases
<1>1. ASSUME NEW j \in Jobs, j \notin expired
      PROVE  Moves(j)
  BY <1>1, SameRests DEF SameJob, EvidenceKept, VerdictsKept, WorldKept
<1>2. ASSUME NEW j \in expired
      PROVE  Moves(j)
  <2>1. Active(job[j]) /\ job[j] \in JobRow /\ j \in Jobs
    BY DEF Expired, IInv, RowsInv
  <2>2. job'[j] = Recovered(j, job[j])
    BY <2>1
  <2>3. /\ job'[j].checkpoint = job[j].checkpoint /\ job'[j].lease = 0
        /\ \/ /\ job'[j].status = "retry_scheduled"
              /\ job'[j].resume = job[j].status /\ BudgetLeft(j, job[j])
           \/ job'[j].status = "failed" /\ job'[j].resume = job[j].resume
    BY <2>1, <2>2, RecoveredFields
  <2>4. \/ run'[j] = run[j]
        \/ /\ ~BudgetLeft(j, job[j])
           /\ run[j] \in {"queued", "analyzing"} /\ run'[j] = "failed"
    BY <2>1
  <2>5. CASE job'[j].status = "retry_scheduled"
    BY <2>1, <2>3, <2>4, <2>5
       DEF Moves, IsRescheduled, RowBecomes, EvidenceKept, VerdictsKept, WorldKept
  <2>6. CASE job'[j].status = "failed"
    BY <2>1, <2>3, <2>4, <2>6
       DEF Moves, IsFailed, RowBecomes, VerdictsKept, WorldKept
  <2> QED BY <2>3, <2>5, <2>6
<1> QED BY <1>1, <1>2, SameWorkers DEF Step

LEMMA NextStep ==
  ASSUME IInv, [Next]_vars
  PROVE  Step
<1>1. ASSUME NEW j \in Jobs, LeaseTick(j) \/ DelayElapses(j)
      PROVE  Step
  <2>1. CASE LeaseTick(j)
    <3>1. job' = [job EXCEPT ![j].ttl = job[j].ttl - 1]
      BY <2>1 DEF LeaseTick
    <3> QED BY <2>1, <3>1, TimeStep DEF LeaseTick
  <2> QED BY <1>1, <2>1, TimeStep DEF DelayElapses
<1>2. ASSUME NEW w \in Workers, Heartbeat(w)
      PROVE  Step
  <2> DEFINE j == worker[w].job
  <2>1. j \in Jobs
    BY <1>2, BusyCarries DEF Heartbeat, Carries
  <2>2. /\ job' = [job EXCEPT ![j].ttl = LeaseTerm]
        /\ Active(job[j]) /\ job[j].ttl > 0 /\ UNCHANGED <<evidence, worker>>
    BY <1>2 DEF Heartbeat
  <2> HIDE DEF j
  <2> QED BY <2>1, <2>2, TimeStep
<1>3. ASSUME NEW w \in Workers, RunOnce(w)
      PROVE  Step
  BY <1>3, ClaimsStep, BeginStep, EnsureStep, LocalStep, CompleteAnalysisStep,
     CompletePatchGenerationStep, CompletePatchValidationStep,
     CompletePrCreationStep, ScheduleFailureStep DEF RunOnce, Works
<1>4. CASE UNCHANGED vars
  BY <1>4, QuietMoves, SameWorkers DEF vars, evidence, Step
<1> QED BY <1>1, <1>2, <1>3, <1>4, SubmitStep, DecideStep, CrashStep, RecoverStep
        DEF Next

-----------------------------------------------------------------------------
(* The theorems.                                                           *)

LEMMA InitStory == Init => StoryInv
<1> SUFFICES ASSUME Init
             PROVE  StoryInv
  OBVIOUS
<1> USE Entries, Statuses, Undecideds
<1>1. ASSUME NEW j \in Jobs
      PROVE  /\ job[j] = AbsentJob /\ run[j] = "none" /\ action[j] = "none"
             /\ validation[j] = "none" /\ decision[j] = Undecided
             /\ operation[j] = "none" /\ pullRequest[j] = FALSE
  BY DEF Init
<1>2. /\ AbsentJob.status = "absent" /\ AbsentJob.checkpoint = "submitted"
      /\ AbsentJob.resume = "analyzing"
  BY DEF AbsentJob
<1>3. ASSUME NEW j \in Jobs
      PROVE  Story(j) /\ Record(j) /\ Authority(j)
  <2>1. /\ job[j].status = "absent" /\ job[j].checkpoint = "submitted"
        /\ job[j].resume = "analyzing"
    BY <1>1, <1>2
  <2>2. Story(j)
    BY <1>1, <2>1, Zenon DEF Story, Active
  <2>3. Record(j)
    BY <1>1, <2>1, Zenon DEF Record
  <2> QED BY <1>1, <2>1, <2>2, <2>3 DEF Authority
<1>4. WorkerStory
  <2>1. Idle.stage = "none" /\ Idle.pc = "idle"
    BY DEF Idle
  <2> QED BY <2>1 DEF Init, WorkerStory
<1> QED BY <1>3, <1>4 DEF StoryInv

LEMMA StoryInvariance == Spec => [](IInv /\ StoryInv)
<1>1. IInv /\ StoryInv /\ [Next]_vars => IInv' /\ StoryInv'
  BY NextIInv, NextStep, StepKeepsStory
<1> QED BY InitIInv, InitStory, <1>1, PTL DEF Spec

LEMMA Ranks ==
  /\ CheckpointOrder["submitted"] = 0
  /\ CheckpointOrder["analysis_completed"] = 1
  /\ CheckpointOrder["patch_generated"] = 2
  /\ CheckpointOrder["patch_validated"] = 3
  /\ CheckpointOrder["approval_recorded"] = 4
  /\ CheckpointOrder["pr_created"] = 5
BY SMT DEF CheckpointOrder

(* Whatever fails, is retried, recovered or answered twice, a job resumes  *)
(* from the checkpoint its stage starts from, and every checkpoint has the *)
(* evidence the stages before it commit: the complete_... transactions     *)
(* write both, and nothing else writes either.                             *)
THEOREM CheckpointsTrue == Spec => []CheckpointIsTrue
<1>1. ASSUME IInv, StoryInv
      PROVE  CheckpointIsTrue
  <2>1. StageMatchesCheckpoint
    BY <1>1 DEF StoryInv, Story, StageMatchesCheckpoint
  <2>2. CheckpointHasEvidence
    <3>1. \A j \in Jobs : Typed(j) /\ Story(j)
      BY <1>1, AllTyped DEF StoryInv
    <3> QED BY <3>1, Ranks, SMT
            DEF Typed, Story, Reached, CheckpointHasEvidence
  <2> QED BY <2>1, <2>2 DEF CheckpointIsTrue
<1> QED BY <1>1, StoryInvariance, PTL

(* No pull request exists and no worker is on its way to open one unless a *)
(* person approved a patch that validated, with an identity claim_pr_next  *)
(* accepts and not one asserted at the command line: that query alone      *)
(* starts the stage, and a worker that was overtaken got its claim under   *)
(* the same approval.                                                      *)
THEOREM MutationsAuthenticated == Spec => []MutationAuthenticated
<1>1. ASSUME IInv, StoryInv
      PROVE  MutationAuthenticated
  <2>1. ASSUME NEW j \in Jobs, MutatesGitHub(j)
        PROVE  /\ decision[j].verdict = "approved"
               /\ decision[j].method # "development_cli"
               /\ validation[j] = "valid"
               /\ run[j] = "review_required"
    <3>1. Typed(j) /\ Story(j) /\ Authority(j)
      BY <1>1, AllTyped DEF StoryInv
    <3>2. MutationApproved(j)
      BY <1>1, <2>1, <3>1 DEF MutatesGitHub, Authority, StoryInv, WorkerStory
    <3>3. /\ decision[j].verdict = "approved"
          /\ decision[j].method # "development_cli"
      BY <3>2 DEF MutationApproved
    <3>4. decision[j] # Undecided
      BY <3>3, Undecideds
    <3> QED BY <3>1, <3>3, <3>4, SMT DEF Story
  <2> QED BY <2>1 DEF MutationAuthenticated
<1> QED BY <1>1, StoryInvariance, PTL

(* A remediation action is finished, refused or abandoned only together    *)
(* with its job, and says that a pull request was created only when GitHub *)
(* has one: complete_pr_creation, record_human_decision, schedule_failure  *)
(* and the refusal of an invalid patch write both tables.                  *)
THEOREM ActionsAgree == Spec => []ActionAgreesWithJob
<1>1. ASSUME IInv, StoryInv
      PROVE  ActionAgreesWithJob
  <2>1. \A j \in Jobs : Typed(j) /\ Story(j) /\ Record(j)
    BY <1>1, AllTyped DEF StoryInv
  <2> QED BY <2>1, Statuses, SMT DEF Typed, Story, Record, ActionAgreesWithJob
<1> QED BY <1>1, StoryInvariance, PTL

-----------------------------------------------------------------------------
(* What a move never does.                                                 *)

RowStays(old, new) == new = [old EXCEPT !.due = new.due]

LEMMA SameRow ==
  ASSUME NEW old \in JobRow, NEW new \in JobRow,
         new.status = old.status, new.checkpoint = old.checkpoint,
         new.resume = old.resume, new.attempts = old.attempts,
         new.lease = old.lease, new.ttl = old.ttl, new.failure = old.failure
  PROVE  RowStays(old, new)
BY SMT DEF RowStays, JobRow

LEMMA MovesAreFinal ==
  ASSUME IInv, IInv', StoryInv, NEW j \in Jobs, Moves(j)
  PROVE  /\ Terminal(job[j]) => RowStays(job[j], job'[j])
         /\ decision[j] # Undecided => decision'[j] = decision[j]
         /\ validation[j] # "none" => validation'[j] = validation[j]
         /\ action[j] \in {"pr_created", "rejected", "failed"} =>
              action'[j] = action[j]
         /\ pullRequest[j] => pullRequest'[j]
<1> USE Statuses
<1>1. /\ Typed(j) /\ Story(j) /\ Record(j)
      /\ job[j] \in JobRow /\ job'[j] \in JobRow
  BY AllTyped DEF StoryInv, IInv, RowsInv
<1>2. ASSUME Terminal(job[j])
      PROVE  RowStays(job[j], job'[j])
  <2>1. Rests(j)
    BY <1>2, SMT DEF Moves, Terminal, Active, IsSubmitted, IsPromoted, IsClaimed,
         IsAnalyzed, IsPatched, IsValidated, IsPulled, IsRescheduled, IsFailed,
         IsDecided
  <2>2. job'[j].ttl = job[j].ttl
    BY <1>2, <2>1 DEF Rests, Terminal, Active
  <2> QED BY <1>1, <2>1, <2>2, SameRow DEF Rests, RowBecomes
<1>3. decision[j] # Undecided => decision'[j] = decision[j]
  BY <1>1, SMT DEF Story, Moves, Rests, IsSubmitted, IsPromoted, IsClaimed,
       IsAnalyzed, IsPatched, IsValidated, IsPulled, IsRescheduled, IsFailed,
       IsDecided, EvidenceKept, VerdictsKept
<1>4. validation[j] # "none" => validation'[j] = validation[j]
  BY Zenon DEF Moves, Rests, IsSubmitted, IsPromoted, IsClaimed,
       IsAnalyzed, IsPatched, IsValidated, IsPulled, IsRescheduled, IsFailed,
       IsDecided, EvidenceKept, VerdictsKept
<1>5. action[j] \in {"pr_created", "rejected", "failed"} =>
        action'[j] = action[j]
  <2>1. CASE IsValidated(j)
    BY <1>1, <2>1, SMT DEF Record, IsValidated
  <2>2. CASE ~IsValidated(j)
    BY <2>2, SMT DEF Moves, Rests, IsSubmitted, IsPromoted, IsClaimed,
         IsAnalyzed, IsPatched, IsPulled, IsRescheduled, IsFailed, IsDecided,
         EvidenceKept
  <2> QED BY <2>1, <2>2
<1> QED BY <1>1, <1>2, <1>3, <1>4, <1>5, MovesKeepAuthority

LEMMA MovesKeepExpired ==
  ASSUME IInv, NEW j \in Jobs, Moves(j), Expired(job[j]),
         job'[j].lease = job[j].lease
  PROVE  Expired(job'[j])
<1> USE Statuses
<1>1. job[j].lease # 0 /\ job[j].ttl = 0 /\ Active(job[j])
  BY DEF Expired, IInv, RowsInv, RowInv
<1>2. Rests(j)
  BY <1>1, SMT DEF Moves, Active, IsSubmitted, IsPromoted, IsClaimed, IsAnalyzed,
       IsPatched, IsValidated, IsPulled, IsRescheduled, IsFailed, IsDecided
<1>3. job'[j].ttl = 0
  BY <1>1, <1>2, SMT DEF Rests
<1> QED BY <1>1, <1>2, <1>3 DEF Rests, RowBecomes, Expired, Active

(* No late worker, second reviewer or recovery pass rewrites what is       *)
(* finished or decided: the guards of the complete_... transactions, of    *)
(* record_human_decision and of schedule_failure refuse it.                *)
THEOREM FinalStays == Spec => FinalStaysFinal
<1>1. IInv /\ IInv' /\ StoryInv /\ [Next]_vars =>
        [\A j \in Jobs :
           /\ Terminal(job[j]) =>
                job'[j] = [job[j] EXCEPT !.due = job'[j].due]
           /\ decision[j] # Undecided => decision'[j] = decision[j]
           /\ validation[j] # "none" => validation'[j] = validation[j]
           /\ action[j] \in {"pr_created", "rejected", "failed"} =>
                action'[j] = action[j]
           /\ pullRequest[j] => pullRequest'[j]]_vars
  BY NextStep, MovesAreFinal DEF Step, RowStays
<1> QED BY <1>1, StoryInvariance, PTL DEF Spec, FinalStaysFinal

(* A lease that ran out is not revived by a late heartbeat or completion:  *)
(* renew_lease asks the database for a live one, and every other step that *)
(* keeps the lease leaves its expiry alone.                                *)
THEOREM ExpiredStays == Spec => ExpiredStaysExpired
<1>1. IInv /\ [Next]_vars =>
        [\A j \in Jobs :
           Expired(job[j]) /\ job'[j].lease = job[j].lease =>
             Expired(job'[j])]_vars
  BY NextStep, MovesKeepExpired DEF Step
<1> QED BY <1>1, Invariance, PTL DEF Spec, ExpiredStaysExpired

-----------------------------------------------------------------------------
(* The queue implements the lifecycle that the database trigger enforces.  *)

(* The columns of a row that the trigger looks at.                         *)
Columns(r) == [status |-> r.status, checkpoint |-> r.checkpoint,
               resume |-> r.resume]

Cols(s, c, r) == [status |-> s, checkpoint |-> c, resume |-> r]

LEMMA TriggerTables ==
  /\ "queued" \in Lifecycle!AllowedTransitions["retry_scheduled"]
  /\ \A s \in ActiveStates :
       /\ s \in Lifecycle!AllowedTransitions["queued"]
       /\ {"retry_scheduled", "failed"} \subseteq Lifecycle!AllowedTransitions[s]
  /\ "creating_pr" \in Lifecycle!AllowedTransitions["approved"]
  /\ {"queued", "completed"} \subseteq Lifecycle!AllowedTransitions["analyzing"]
  /\ "queued" \in Lifecycle!AllowedTransitions["generating_patch"]
  /\ "awaiting_approval" \in Lifecycle!AllowedTransitions["validating_patch"]
  /\ "completed" \in Lifecycle!AllowedTransitions["creating_pr"]
  /\ {"approved", "rejected"}
       \subseteq Lifecycle!AllowedTransitions["awaiting_approval"]
BY SMT DEF Lifecycle!AllowedTransitions, Lifecycle!JobState,
     Lifecycle!ActiveStates, Lifecycle!TerminalStates, Lifecycle!WaitingStates,
     ActiveStates

LEMMA TriggerRanks ==
  /\ Lifecycle!ActiveStates = ActiveStates
  /\ \A c \in {"submitted", "analysis_completed", "patch_generated",
               "patch_validated", "approval_recorded", "pr_created"} :
       Lifecycle!CheckpointOrder[c] = CheckpointOrder[c]
BY DEF Lifecycle!ActiveStates, ActiveStates, Lifecycle!CheckpointOrder,
       CheckpointOrder

(* One UPDATE the trigger accepts.                                         *)
LEMMA TriggerAccepts ==
  ASSUME NEW s, NEW c, NEW r, NEW t, NEW d, NEW q,
         Lifecycle!CheckpointOrder[d] >= Lifecycle!CheckpointOrder[c],
         t # s /\ t \in Lifecycle!AllowedTransitions[s],
         \/ t \in ActiveStates /\ q = t /\ (s = "queued" => t = r)
         \/ s \in ActiveStates /\ t = "retry_scheduled" /\ q = s
         \/ /\ t \notin ActiveStates
            /\ ~(s \in ActiveStates /\ t = "retry_scheduled"),
         t = "queued" =>
           \/ s = "analyzing" /\ d = "analysis_completed"
                /\ q = "generating_patch"
           \/ s = "generating_patch" /\ d = "patch_generated"
                /\ q = "validating_patch"
           \/ s \notin {"analyzing", "generating_patch"}
  PROVE  Lifecycle!Accepted(Cols(s, c, r), Cols(t, d, q))
<1> DEFINE old == Cols(s, c, r)
           new == Cols(t, d, q)
<1>1. /\ old.status = s /\ old.checkpoint = c /\ old.resume = r
      /\ new.status = t /\ new.checkpoint = d /\ new.resume = q
  BY DEF Cols
<1>2. "retry_scheduled" \notin ActiveStates
  BY DEF ActiveStates
<1> HIDE DEF old, new
<1>3. new.resume = Lifecycle!TriggerResume(old, new)
  <2>1. CASE s \in ActiveStates /\ t = "retry_scheduled"
    BY <1>1, <1>2, <2>1, TriggerRanks DEF Lifecycle!TriggerResume
  <2>2. CASE ~(s \in ActiveStates /\ t = "retry_scheduled") /\ t \in ActiveStates
    BY <1>1, <1>2, <2>2, TriggerRanks DEF Lifecycle!TriggerResume
  <2>3. CASE ~(s \in ActiveStates /\ t = "retry_scheduled")
             /\ t \notin ActiveStates
    BY <1>1, <1>2, <2>3, TriggerRanks DEF Lifecycle!TriggerResume
  <2> QED BY <2>1, <2>2, <2>3
<1>4. new.status = "queued" => Lifecycle!HandOff(old, new)
  BY <1>1 DEF Lifecycle!HandOff
<1>5. Lifecycle!Accepted(old, new)
  BY <1>1, <1>2, <1>3, <1>4, TriggerRanks DEF Lifecycle!Accepted
<1> QED BY <1>5 DEF old, new

LEMMA MoveIsTransaction ==
  ASSUME IInv, StoryInv, NEW j \in Jobs, Moves(j)
  PROVE  Lifecycle!Transaction(Columns(job[j]), Columns(job'[j]))
<1> DEFINE s == job[j].status    c == job[j].checkpoint    r == job[j].resume
           t == job'[j].status   d == job'[j].checkpoint   q == job'[j].resume
           Old == Cols(s, c, r)
           New == Cols(t, d, q)
<1>1. Columns(job[j]) = Old /\ Columns(job'[j]) = New
  BY DEF Columns, Cols
<1>2. Typed(j) /\ Story(j) /\ Record(j) /\ RowInv(j, job[j])
  BY AllTyped DEF StoryInv, IInv, RowsInv
<1>3. SUFFICES \/ New = Old
               \/ Old = Lifecycle!Absent /\ New = Lifecycle!Inserted
               \/ s # "absent" /\ Lifecycle!Accepted(Old, New)
               \/ /\ s = "retry_scheduled"
                  /\ Lifecycle!Accepted(Old, Cols("queued", c, r))
                  /\ Lifecycle!Accepted(Cols("queued", c, r), New)
  <2>1. /\ Old.status = s
        /\ Lifecycle!Promoted(Old) = Cols("queued", c, r)
        /\ Lifecycle!Absent.status = "absent"
    BY DEF Cols, Lifecycle!Promoted, Lifecycle!Absent
  <2> HIDE DEF Old, New, s, c, r
  <2> QED BY <1>1, <2>1 DEF Lifecycle!Transaction
<1> USE TriggerTables, TriggerRanks, Ranks, Entries, Statuses
<1>4. CASE Rests(j)
  BY <1>4 DEF Rests, RowBecomes
<1>5. CASE IsSubmitted(j)
  <2>1. c = "submitted" /\ r = "analyzing"
    BY <1>2, <1>5 DEF IsSubmitted, RowInv, AbsentJob
  <2> QED BY <1>5, <2>1
          DEF IsSubmitted, RowBecomes, Cols, Lifecycle!Absent, Lifecycle!Inserted
<1>6. ASSUME s = "retry_scheduled"
      PROVE  Lifecycle!Accepted(Old, Cols("queued", c, r))
  <2>1. Lifecycle!CheckpointOrder[c] >= Lifecycle!CheckpointOrder[c]
    BY <1>2, SMT DEF Typed
  <2> HIDE DEF s, c, r
  <2> QED BY <1>6, <2>1, TriggerAccepts
<1>7. CASE IsPromoted(j)
  BY <1>6, <1>7 DEF IsPromoted, RowBecomes
<1>8. CASE IsClaimed(j)
  <2> PICK u \in ActiveStates :
        /\ \/ s \in {"queued", "retry_scheduled"} /\ r = u
           \/ s = "approved" /\ u = "creating_pr"
        /\ t = u /\ d = c /\ q = u
    BY <1>8 DEF IsClaimed, RowBecomes
  <2>1. Lifecycle!CheckpointOrder[c] >= Lifecycle!CheckpointOrder[c]
    BY <1>2, SMT DEF Typed
  <2> HIDE DEF s, c, r, t, d, q
  <2>2. CASE s \in {"queued", "approved"}
    BY <2>1, <2>2, TriggerAccepts
  <2>3. CASE s = "retry_scheduled"
    BY <1>6, <2>1, <2>3, TriggerAccepts
  <2> QED BY <2>2, <2>3
<1>9. ASSUME Lifecycle!CheckpointOrder[d] >= Lifecycle!CheckpointOrder[c],
             s # "absent", s # "queued", t # s,
             t \in Lifecycle!AllowedTransitions[s],
             \/ s \in ActiveStates /\ t = "retry_scheduled" /\ q = s
             \/ t \in {"failed", "completed", "awaiting_approval", "approved",
                       "rejected"}
             \/ t = "queued" /\ s = "analyzing" /\ d = "analysis_completed"
                  /\ q = "generating_patch"
             \/ t = "queued" /\ s = "generating_patch" /\ d = "patch_generated"
                  /\ q = "validating_patch"
      PROVE  s # "absent" /\ Lifecycle!Accepted(Old, New)
  <2> HIDE DEF s, c, r, t, d, q
  <2> QED BY <1>9, TriggerAccepts
<1>10. CASE IsAnalyzed(j)
  BY <1>9, <1>10, SMT DEF IsAnalyzed, RowBecomes
<1>11. CASE IsPatched(j)
  BY <1>9, <1>11, SMT DEF IsPatched, RowBecomes
<1>12. CASE IsValidated(j)
  BY <1>9, <1>12, SMT DEF IsValidated, RowBecomes
<1>13. CASE IsPulled(j)
  BY <1>2, <1>9, <1>13, SMT DEF IsPulled, RowBecomes, Typed
<1>14. CASE IsRescheduled(j)
  BY <1>2, <1>9, <1>14, SMT DEF IsRescheduled, RowBecomes, Active, Typed
<1>15. CASE IsFailed(j)
  BY <1>2, <1>9, <1>15, SMT DEF IsFailed, RowBecomes, Active, Typed
<1>16. CASE IsDecided(j)
  <2>1. decision'[j].verdict \in {"approved", "rejected"}
    BY <1>16, Undecideds DEF IsDecided
  <2> QED BY <1>9, <1>16, <2>1, SMT DEF IsDecided, RowBecomes
<1> QED BY <1>4, <1>5, <1>7, <1>8, <1>10, <1>11, <1>12, <1>13, <1>14, <1>15,
           <1>16 DEF Moves

LEMMA ColumnsTyped ==
  ASSUME NEW j \in Jobs, NEW row, RowInv(j, row)
  PROVE  Columns(row) \in Lifecycle!Row \cup {Lifecycle!Absent}
<1>1. row \in JobRow
  BY DEF RowInv
<1>2. CASE row.status = "absent"
  <2>1. row = AbsentJob
    BY <1>2 DEF RowInv
  <2> QED BY <2>1 DEF Columns, AbsentJob, Lifecycle!Absent
<1>3. CASE row.status # "absent"
  <2>1. /\ row.status \in JobState /\ row.checkpoint \in JobCheckpoint
        /\ row.resume \in ActiveStates
    BY <1>1, <1>3, SMT DEF JobRow
  <2>2. /\ Lifecycle!JobState = JobState
        /\ Lifecycle!JobCheckpoint = JobCheckpoint
        /\ Lifecycle!ActiveStates = ActiveStates
    BY DEF Lifecycle!JobState, JobState, Lifecycle!ActiveStates, ActiveStates,
           Lifecycle!TerminalStates, TerminalStates, Lifecycle!WaitingStates,
           WaitingStates, Lifecycle!JobCheckpoint, JobCheckpoint,
           Lifecycle!CheckpointOrder, CheckpointOrder
  <2> QED BY <2>1, <2>2 DEF Columns, Lifecycle!Row
<1> QED BY <1>2, <1>3

(* Every transaction of the repository moves every row it touches as the   *)
(* trigger enforce_workflow_job_lifecycle allows, so none is refused: the  *)
(* queue implements the abstract lifecycle, a step by a step or a stutter. *)
THEOREM LifecycleImplemented == Spec => ImplementsLifecycle
<1>1. Init => Lifecycle!Init
  BY DEF Init, Lifecycle!Init, Lifecycle!Absent, AbsentJob
<1>2. ASSUME IInv, StoryInv, IInv', [Next]_vars
      PROVE  Lifecycle!Next
  <2>1. \A j \in Jobs :
          /\ Lifecycle!Transaction(Columns(job[j]), Columns(job'[j]))
          /\ Columns(job'[j]) \in Lifecycle!Row \cup {Lifecycle!Absent}
    <3>1. \A j \in Jobs : RowInv(j, job'[j])
      BY <1>2 DEF IInv, RowsInv
    <3> QED BY <1>2, <3>1, NextStep, MoveIsTransaction, ColumnsTyped DEF Step
  <2> QED BY <2>1 DEF Lifecycle!Next, Columns
<1>3. IInv /\ StoryInv /\ IInv' /\ [Next]_vars => [Lifecycle!Next]_(
        [j \in Jobs |-> [status |-> job[j].status,
                         checkpoint |-> job[j].checkpoint,
                         resume |-> job[j].resume]])
  BY <1>2
<1> QED BY <1>1, <1>3, StoryInvariance, PTL
        DEF Spec, ImplementsLifecycle, Lifecycle!Spec

-----------------------------------------------------------------------------
(* What scripts/run_workers.py and the API do is one of the things the     *)
(* queue allows, so every theorem above holds of the deployment: a cycle,  *)
(* an exception that ends main and a process that is killed under all its  *)
(* workers are steps of the queue, or do not touch it.                     *)
THEOREM RuntimeImplementsQueue == RuntimeSpec => Spec
<1>1. RuntimeInit => Init
  BY DEF RuntimeInit
<1>2. ASSUME [RuntimeNext]_runtimeVars
      PROVE  [Next]_vars
  <2>1. ASSUME NEW w \in Workers, Poll(w)
        PROVE  Next
    <3>1. StageOf[w] \in ActiveStates
      BY RuntimeAssumption DEF RuntimeAssumption
    <3>2. RunOnce(w)
      BY <2>1, <3>1 DEF Poll, RunOnce
    <3> QED BY <3>2 DEF Next
  <2>2. ASSUME NEW w \in Workers, Continue(w)
        PROVE  Next
    BY <2>2 DEF Continue, RunOnce, Next
  <2>3. ASSUME NEW w \in Workers, Raise(w)
        PROVE  Next
    <3>1. {w} \in SUBSET Workers
      OBVIOUS
    <3> QED BY <2>3, <3>1 DEF Raise, RunOnce, Next
  <2>4. ASSUME NEW p \in Processes, Kill(p)
        PROVE  Next
    <3>1. WorkersOf(p) \in SUBSET Workers
      BY DEF WorkersOf
    <3> QED BY <2>4, <3>1 DEF Kill, Next
  <2>5. ASSUME NEW p \in Processes, EndCycle(p) \/ EndProcess(p) \/ Start(p)
        PROVE  UNCHANGED vars
    BY <2>5 DEF EndCycle, EndProcess, Start
  <2>6. CASE Elsewhere
    BY <2>6 DEF Elsewhere, Next
  <2>7. CASE UNCHANGED runtimeVars
    BY <2>7 DEF runtimeVars
  <2> QED BY <1>2, <2>1, <2>2, <2>3, <2>4, <2>5, <2>6, <2>7 DEF RuntimeNext
<1> QED BY <1>1, <1>2, PTL DEF RuntimeSpec, Spec
=============================================================================
