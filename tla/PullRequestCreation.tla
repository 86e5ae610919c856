-------------------------- MODULE PullRequestCreation --------------------------
(***************************************************************************)
(* How one approved job becomes a pull request: the calls that             *)
(* ensure_pull_request makes to GitHub, one step each, and the database    *)
(* transactions around them.  WorkflowQueue takes all these calls for one  *)
(* step; here an attempt may crash, fail or lose an answer between any two *)
(* of them and the next attempt starts from what it left on GitHub.        *)
(*                                                                         *)
(* Abstractions.  A job has a branch of its own, so one job is enough.     *)
(* Commits are numbered; of a commit only the text of the job's source     *)
(* file matters: "original" (original_sha256), "result" (resulting_sha256) *)
(* or "other".  A blob sha names that text.  Backoff delays and the        *)
(* promotion of due retries are in WorkflowQueue; here a retry may be      *)
(* claimed at once.                                                        *)
(***************************************************************************)
EXTENDS Naturals, Sequences

CONSTANTS
  Workers,      \* GitHub pull-request workers
  MaxAttempts,  \* attempts left to the job when it is approved
  MaxCommits,   \* bound on the commits reviewers push to the branch
  Worlds        \* what else may happen, of the two below

(* "late": a worker may lose its lease while it runs, and a request whose  *)
(* answer was lost may reach GitHub later.  "reviewed": one attempt at a   *)
(* time, while reviewers use the pull request.                             *)
ASSUME CreationAssumption ==
  /\ MaxAttempts \in Nat \ {0}
  /\ MaxCommits \in Nat
  /\ Worlds \subseteq {"late", "reviewed"}

VARIABLES
  world,      \* the member of Worlds this behavior is in
  branch,     \* the commit head_branch points to, or 0
  commit,     \* the commits that branch ever had; the first is base_commit_sha
  pull,       \* pull requests with this head, oldest first
  late,       \* requests that were given up and may still reach GitHub
  job,        \* the workflow_jobs row
  operation,  \* the github_pr_operations row
  worker      \* the local state of each worker

github == <<branch, commit, pull, late>>
database == <<job, operation>>
vars == <<world, branch, commit, pull, late, job, operation, worker>>

Base == 1

Idle == [pc |-> "idle", token |-> 0, existing |-> 0, seen |-> 0, sha |-> 0,
         text |-> "none", failure |-> "none"]

Init ==
  /\ world \in Worlds
  /\ branch = 0
  /\ commit \in {<<[text |-> t, parent |-> 0, by |-> "base"]>> :
                   t \in {"original", "other"}}
  /\ pull = << >>
  /\ late = {}
  /\ job = [status |-> "approved", attempts |-> 0, token |-> 0, live |-> FALSE,
            failure |-> "none"]
  /\ operation = [status |-> "absent", commit |-> 0, pull |-> 0]
  /\ worker = [w \in Workers |-> Idle]

-----------------------------------------------------------------------------
(* GitHub, as the client uses it.                                          *)

HeadOf(p) == IF pull[p].state = "open" THEN branch ELSE pull[p].head

NoOpenPull == \A p \in DOMAIN pull : pull[p].state # "open"

RefRequest == [kind |-> "ref", sees |-> "none"]
PutRequest(text) == [kind |-> "put", sees |-> text]
PullRequest == [kind |-> "pull", sees |-> "none"]

(* An existing ref, a blob sha that is not the current one and a second    *)
(* open pull request are refused with 422, 409 and 422.                    *)
Accepts(request) ==
  \/ request.kind = "ref" /\ branch = 0
  \/ /\ request.kind = "put"
     /\ branch # 0
     /\ commit[branch].text = request.sees
  \/ request.kind = "pull" /\ branch # 0 /\ NoOpenPull

Commit(text, by) ==
  /\ commit' = Append(commit, [text |-> text, parent |-> branch, by |-> by])
  /\ branch' = Len(commit) + 1

TakesEffect(request) ==
  \/ /\ request.kind = "ref"
     /\ branch' = Base
     /\ UNCHANGED <<commit, pull>>
  \/ /\ request.kind = "put"
     /\ Commit("result", "worker")
     /\ UNCHANGED pull
  \/ /\ request.kind = "pull"
     /\ pull' = Append(pull, [state |-> "open", head |-> branch, at |-> branch])
     /\ UNCHANGED <<branch, commit>>

-----------------------------------------------------------------------------
(* Leases and the attempt of a worker.                                     *)

Carries(w) == job.status = "creating_pr" /\ job.token = worker[w].token

(* _lock_owned_active_job with expected state creating_pr.                 *)
Owned(w) == Carries(w) /\ job.live

Becomes(w, rec) == worker' = [worker EXCEPT ![w] = rec]

(* classify_github_failure: a connection error and 5xx are retryable,      *)
(* 409 and 422 are permanent like a stale source, and so is what it does   *)
(* not know, an error of the database among it.                            *)
Failing(w, failure) == [worker[w] EXCEPT !.pc = "failing", !.failure = failure]

(* A request that changes something: answered, or its answer is lost, or   *)
(* refused, or given up while it is still on its way.  The one that never  *)
(* arrives is CallFails.                                                   *)
Sends(w, request, answered) ==
  \/ /\ Accepts(request)
     /\ TakesEffect(request)
     /\ Becomes(w, answered) \/ Becomes(w, Failing(w, "retryable"))
     /\ UNCHANGED late
  \/ /\ ~Accepts(request)
     /\ Becomes(w, Failing(w, "conflict"))
     /\ UNCHANGED github
  \/ /\ world = "late"
     /\ late' = late \cup {request}
     /\ Becomes(w, Failing(w, "retryable"))
     /\ UNCHANGED <<branch, commit, pull>>

BudgetLeft == job.attempts < MaxAttempts

(* Slip: the lease token stays on the row.                                 *)
ReleasedExpiry(status, failure) ==
  [job EXCEPT !.status = status, !.live = FALSE, !.failure = failure]

Released(status, failure) ==
  [job EXCEPT !.status = status, !.token = 0, !.live = FALSE,
              !.failure = failure]

-----------------------------------------------------------------------------
(* run_once of the GitHub pull-request worker.                             *)

(* claim_pr_next, which may find nothing.                                  *)
Claim(w) ==
  /\ worker[w].pc = "idle"
  /\ \/ /\ job.status \in {"approved", "retry_scheduled"}
        /\ BudgetLeft
        /\ job' = [job EXCEPT !.status = "creating_pr", !.attempts = @ + 1,
                              !.token = job.attempts + 1, !.live = TRUE]
        /\ Becomes(w, [Idle EXCEPT !.pc = "claimed",
                                   !.token = job.attempts + 1])
     \/ /\ job.status \notin {"approved", "retry_scheduled"} \/ ~BudgetLeft
        /\ UNCHANGED <<job, worker>>
  /\ UNCHANGED <<world, github, operation>>

BeginPrCreation(w) ==
  /\ worker[w].pc = "claimed"
  /\ Owned(w)
  /\ operation' = [operation EXCEPT !.status = IF @ = "absent" THEN "pending"
                                               ELSE @]
  /\ Becomes(w, [worker[w] EXCEPT !.pc = "find"])
  /\ UNCHANGED <<world, github, job>>

(* Slip: the search is for open pull requests, the default of the API.     *)
FoundOpen == IF NoOpenPull THEN 0 ELSE Len(pull)

(* _find_pr, with state=all: the newest pull request, or none.             *)
Found == Len(pull)

FindPr(w) ==
  /\ worker[w].pc = "find"
  /\ Becomes(w, [worker[w] EXCEPT
                   !.pc = "ref", !.existing = Found,
                   !.seen = IF Found = 0 THEN 0 ELSE HeadOf(Found)])
  /\ UNCHANGED <<world, github, database>>

GetRef(w) ==
  /\ worker[w].pc = "ref"
  /\ Becomes(w, IF branch = 0
                THEN [worker[w] EXCEPT !.pc = "create"]
                ELSE [worker[w] EXCEPT !.pc = "contents", !.sha = branch])
  /\ UNCHANGED <<world, github, database>>

CreateRef(w) ==
  /\ worker[w].pc = "create"
  /\ Sends(w, RefRequest, [worker[w] EXCEPT !.pc = "contents", !.sha = Base])
  /\ UNCHANGED <<world, database>>

(* Slip: any text is taken for the approved baseline.                      *)
AnyBaseline == {"original", "other"}

(* The text whose hash is original_sha256.                                 *)
Baseline == {"original"}

(* Slip: a file that is already patched is patched again.                  *)
AlwaysPatch(w) ==
  /\ worker[w].pc = "contents"
  /\ branch # 0
  /\ Becomes(w, [worker[w] EXCEPT !.pc = "put", !.text = commit[branch].text])
  /\ UNCHANGED <<world, github, database>>

(* The branch decides what is left to do.  When it is patched already, the *)
(* commit is the head the pull request had in the first search, or the     *)
(* commit the ref pointed to.                                              *)
GetContents(w) ==
  LET text == commit[branch].text IN
  /\ worker[w].pc = "contents"
  /\ \/ /\ branch = 0
        /\ Becomes(w, Failing(w, "conflict"))
     \/ /\ branch # 0
        /\ text = "result"
        /\ Becomes(w, [worker[w] EXCEPT
                         !.pc = "search",
                         !.sha = IF worker[w].existing # 0 THEN worker[w].seen
                                 ELSE @])
     \/ /\ branch # 0
        /\ text \in Baseline
        /\ Becomes(w, [worker[w] EXCEPT !.pc = "put", !.text = text])
     \/ /\ branch # 0
        /\ text \notin Baseline \cup {"result"}
        /\ Becomes(w, Failing(w, "stale"))
  /\ UNCHANGED <<world, github, database>>

(* Slip: the commit of the response is dropped.                            *)
PutAndForget(w) ==
  /\ worker[w].pc = "put"
  /\ Sends(w, PutRequest(worker[w].text), [worker[w] EXCEPT !.pc = "search"])
  /\ UNCHANGED <<world, database>>

PutContents(w) ==
  /\ worker[w].pc = "put"
  /\ Sends(w, PutRequest(worker[w].text),
           [worker[w] EXCEPT !.pc = "search", !.sha = Len(commit) + 1])
  /\ UNCHANGED <<world, database>>

FindPrAgain(w) ==
  LET existing == IF worker[w].existing # 0 THEN worker[w].existing ELSE Found IN
  /\ worker[w].pc = "search"
  /\ Becomes(w, [worker[w] EXCEPT
                   !.existing = existing,
                   !.pc = IF existing = 0 THEN "open" ELSE "complete"])
  /\ UNCHANGED <<world, github, database>>

OpenPr(w) ==
  /\ worker[w].pc = "open"
  /\ Sends(w, PullRequest,
           [worker[w] EXCEPT !.pc = "complete", !.existing = Len(pull) + 1])
  /\ UNCHANGED <<world, database>>

(* complete_pr_creation.  Whether its answer arrives makes no difference:  *)
(* after a lost one schedule_failure finds no lease and raises.            *)
Complete(w) ==
  /\ worker[w].pc = "complete"
  /\ Owned(w)
  /\ operation' = [status |-> "completed", commit |-> worker[w].sha,
                   pull |-> worker[w].existing]
  /\ job' = Released("completed", "none")
  /\ Becomes(w, Idle)
  /\ UNCHANGED <<world, github>>

(* LeaseLostError ends run_once.                                           *)
LeaseLost(w) ==
  /\ worker[w].pc \in {"claimed", "complete"}
  /\ ~Owned(w)
  /\ Becomes(w, Idle)
  /\ UNCHANGED <<world, github, database>>

(* A call or a transaction fails and has changed nothing.  A heartbeat     *)
(* that failed surfaces after the last call.                               *)
CallFails(w) ==
  /\ worker[w].pc \notin {"idle", "failing"}
  /\ \/ Becomes(w, Failing(w, "refused"))
     \/ /\ worker[w].pc \notin {"claimed", "complete"}
        /\ Becomes(w, Failing(w, "retryable"))
  /\ UNCHANGED <<world, github, database>>

ScheduleFailure(w) ==
  LET failure == worker[w].failure
      retry == failure = "retryable" /\ BudgetLeft IN
  /\ worker[w].pc = "failing"
  /\ job' = IF Owned(w)
            THEN Released(IF retry THEN "retry_scheduled" ELSE "failed", failure)
            ELSE job
  /\ Becomes(w, Idle)
  /\ UNCHANGED <<world, github, operation>>

Crash(w) ==
  /\ worker[w].pc # "idle"
  /\ Becomes(w, Idle)
  /\ UNCHANGED <<world, github, database>>

-----------------------------------------------------------------------------
(* Time, late requests and reviewers.                                      *)

(* The heartbeat of a running worker keeps the lease, unless it is late.   *)
LeaseExpires ==
  /\ job.live
  /\ world = "late" \/ \A w \in Workers : ~Carries(w)
  /\ job' = [job EXCEPT !.live = FALSE]
  /\ UNCHANGED <<world, github, operation, worker>>

RecoverExpiredLease ==
  /\ job.status = "creating_pr"
  /\ ~job.live
  /\ job' = Released(IF BudgetLeft THEN "retry_scheduled" ELSE "failed",
                     "lease_expired")
  /\ UNCHANGED <<world, github, operation, worker>>

LateArrives ==
  \E request \in late :
    /\ late' = late \ {request}
    /\ IF Accepts(request) THEN TakesEffect(request)
       ELSE UNCHANGED <<branch, commit, pull>>
    /\ UNCHANGED <<world, database, worker>>

(* A reviewer may change the job's file on the branch, or others.          *)
ReviewerPushes ==
  /\ world = "reviewed"
  /\ ~NoOpenPull
  /\ Len(commit) < MaxCommits
  /\ \E text \in {commit[branch].text, "other"} : Commit(text, "reviewer")
  /\ UNCHANGED <<world, pull, late, database, worker>>

ReviewerCloses ==
  /\ world = "reviewed"
  /\ \E p \in DOMAIN pull, state \in {"closed", "merged"} :
       /\ pull[p].state = "open"
       /\ pull' = [pull EXCEPT ![p] = [@ EXCEPT !.state = state,
                                                !.head = branch]]
  /\ UNCHANGED <<world, branch, commit, late, database, worker>>

(* By hand, or by GitHub when the pull request is merged.                  *)
BranchDeleted ==
  /\ world = "reviewed"
  /\ Len(pull) > 0
  /\ NoOpenPull
  /\ branch # 0
  /\ branch' = 0
  /\ UNCHANGED <<world, commit, pull, late, database, worker>>

RunOnce(w) ==
  \/ Claim(w)
  \/ BeginPrCreation(w)
  \/ FindPr(w)
  \/ GetRef(w)
  \/ CreateRef(w)
  \/ GetContents(w)
  \/ PutContents(w)
  \/ FindPrAgain(w)
  \/ OpenPr(w)
  \/ Complete(w)
  \/ LeaseLost(w)
  \/ CallFails(w)
  \/ ScheduleFailure(w)

Next ==
  \/ \E w \in Workers : RunOnce(w) \/ Crash(w)
  \/ LeaseExpires
  \/ RecoverExpiredLease
  \/ LateArrives
  \/ ReviewerPushes
  \/ ReviewerCloses
  \/ BranchDeleted

Spec == Init /\ [][Next]_vars

-----------------------------------------------------------------------------
(* Properties.                                                             *)

Failures == {"none", "retryable", "refused", "conflict", "stale"}

Texts == {"original", "result", "other"}

Numbers == 0..Len(commit)

Attempt ==
  [pc : {"idle", "claimed", "find", "ref", "create", "contents", "put",
         "search", "open", "complete", "failing"},
   token : 0..MaxAttempts, existing : 0..Len(pull), seen : Numbers,
   sha : Numbers, text : Texts \cup {"none"}, failure : Failures]

(* Types, and the lease constraint of migration 005: a token exactly while *)
(* the job is being processed.                                             *)
TypeOK ==
  /\ world \in Worlds
  /\ branch \in Numbers
  /\ \A c \in DOMAIN commit :
       commit[c] \in [text : Texts, parent : 0..c - 1,
                      by : {"base", "worker", "reviewer"}]
  /\ \A p \in DOMAIN pull :
       pull[p] \in [state : {"open", "closed", "merged"}, head : Numbers,
                    at : Numbers]
  /\ late \subseteq {RefRequest, PullRequest} \cup {PutRequest(t) : t \in Texts}
  /\ job \in [status : {"approved", "creating_pr", "retry_scheduled",
                        "completed", "failed"},
              attempts : 0..MaxAttempts, token : 0..MaxAttempts, live : BOOLEAN,
              failure : Failures \cup {"lease_expired"}]
  /\ job.status = "creating_pr" <=> job.token # 0
  /\ operation \in [status : {"absent", "pending", "completed"},
                    commit : Numbers, pull : 0..Len(pull)]
  /\ worker \in [Workers -> Attempt]

(* A commit of a worker replaces the approved original text and nothing    *)
(* else: no reviewer's work is overwritten and no patch is applied twice.  *)
PatchesApprovedSource ==
  \A c \in DOMAIN commit :
    commit[c].by = "worker" => commit[commit[c].parent].text = "original"

(* However attempts crash, are repeated or overlap, and although reviewers *)
(* may merge or close the pull request in between, a job opens one pull    *)
(* request, on a branch that shows the approved result.                    *)
OnePullOnPatch ==
  /\ Len(pull) <= 1
  /\ \A p \in DOMAIN pull :
       pull[p].at # 0 /\ commit[pull[p].at].text = "result"

(* The commit recorded for a finished job is the remediation: its file is  *)
(* the approved result.  (github/client.py:166 calls it the remediation    *)
(* commit SHA; the retry test expects every attempt to return the same.)   *)
RecordedCommitIsPatch ==
  operation.status = "completed" =>
    /\ operation.commit # 0
    /\ commit[operation.commit].text = "result"

(* docs/jobs.md:263: "a retry after an uncertain response converges on the *)
(* existing branch and pull request".  So as long as its pull request is   *)
(* not closed, a job does not end because GitHub refuses to do again what  *)
(* an earlier attempt has done.                                            *)
RetriesConverge == job.failure = "conflict" => Len(pull) > 0 /\ NoOpenPull

(* Both hold when attempts follow each other and no request arrives late,  *)
(* the first as long as the pull request is open.  With late requests      *)
(* neither does.                                                           *)
SequentialRetries ==
  world = "reviewed" =>
    /\ ~NoOpenPull => RecordedCommitIsPatch
    /\ RetriesConverge

(* Once the job is completed, no stale worker and no late request commits  *)
(* to its branch, brings a deleted branch back or opens a pull request.    *)
CompletedIsQuiet ==
  [][job.status = "completed" =>
       /\ Len(pull') = Len(pull)
       /\ branch = 0 => branch' = 0
       /\ commit' # commit => commit'[branch'].by = "reviewer"]_vars
=============================================================================
