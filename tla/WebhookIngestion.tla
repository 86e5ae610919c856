--------------------------- MODULE WebhookIngestion ---------------------------
(***************************************************************************)
(* From a GitHub webhook to analysis jobs.  The API records what GitHub    *)
(* announces, in two transactions: the lifecycle event with the current    *)
(* row of its pull request, and the delivery, which is a queue entry.      *)
(* Ingestion workers lease a delivery, download the pull request, persist  *)
(* its files, and submit and link one job per file, each step in a         *)
(* transaction of its own.                                                 *)
(*                                                                         *)
(* Abstractions.  A snapshot gives each file of the pull request its diff, *)
(* or "skip" when it is not analyzable; for one head the diffs may differ  *)
(* between downloads, since the base may have moved.  A job is the diff it *)
(* was submitted with, under its idempotency key (pull request, head and   *)
(* file).  A claim's lease token is named by the attempt it starts.  The   *)
(* method heartbeat is left out: nothing calls it.                         *)
(***************************************************************************)
EXTENDS Naturals

CONSTANTS
  Deliveries,   \* X-GitHub-Delivery ids
  NoDelivery,   \* the delivery of an idle worker
  Event,        \* what each delivery announces: pull, head, state and at
  Files,        \* source paths
  Diffs,        \* unified diffs
  Snapshots,    \* what downloads of a pull request at one head may return
  Workers,      \* ingestion workers
  MaxAttempts,  \* max_attempts of a delivery
  LeaseTerm     \* ticks from a claim to the expiry of its lease

LifecycleState == {"open", "closed", "merged"}

Pulls == {Event[d].pull : d \in Deliveries}
Heads == {Event[d].head : d \in Deliveries}
Nothing == [f \in Files |-> "skip"]

ASSUME IngestionAssumption ==
  /\ NoDelivery \notin Deliveries
  /\ \A d \in Deliveries : Event[d].state \in LifecycleState /\ Event[d].at \in Nat
  /\ "skip" \notin Diffs /\ "none" \notin Diffs
  /\ Snapshots \subseteq [Files -> Diffs \cup {"skip"}]
  /\ MaxAttempts \in Nat \ {0}
  /\ LeaseTerm \in Nat \ {0}

VARIABLES
  received,   \* github_pull_request_lifecycle_events
  latest,     \* github_pull_requests.last_delivery_id, which names its columns
  delivery,   \* github_webhook_deliveries
  stored,     \* github_pr_file_snapshots
  job,        \* workflow_jobs by idempotency key
  link,       \* github_webhook_delivery_jobs
  worker      \* the local state of each ingestion worker

receipt == <<received, latest>>
tables == <<stored, job, link>>
vars == <<received, latest, delivery, stored, job, link, worker>>

Idle == [pc |-> "idle", delivery |-> NoDelivery, token |-> 0,
         snapshot |-> Nothing, todo |-> {}, failure |-> "none"]

AbsentDelivery == [status |-> "absent", attempts |-> 0, due |-> TRUE,
                   lease |-> 0, ttl |-> 0, files |-> {}]

Init ==
  /\ received = {}
  /\ latest = [p \in Pulls |-> NoDelivery]
  /\ delivery = [d \in Deliveries |-> AbsentDelivery]
  /\ stored = [h \in Heads |-> [f \in Files |-> "none"]]
  /\ job = [k \in Pulls \X Heads \X Files |-> "none"]
  /\ link = {}
  /\ worker = [w \in Workers |-> Idle]

-----------------------------------------------------------------------------
(* The webhook endpoint.                                                   *)

(* Slip: the projection is overwritten by whatever arrives.                *)
AlwaysCurrent(d) == TRUE

(* The WHERE clause of the upsert: an older update changes nothing.        *)
Current(d) ==
  LET last == latest[Event[d].pull] IN
  last # NoDelivery => Event[last].at <= Event[d].at

(* record_lifecycle.  GitHub may deliver late, out of order and again; an  *)
(* event recorded before changes nothing.                                  *)
RecordLifecycle(d) ==
  /\ d \notin received
  /\ received' = received \cup {d}
  /\ latest' = IF Current(d) THEN [latest EXCEPT ![Event[d].pull] = d] ELSE latest
  /\ UNCHANGED <<delivery, tables, worker>>

(* record, the second transaction of the request, for every action but     *)
(* closed.  The request may end before it; then only a redelivery, which   *)
(* finds its lifecycle event recorded, brings the delivery.                *)
RecordDelivery(d) ==
  /\ d \in received
  /\ Event[d].state = "open"
  /\ delivery[d].status = "absent"
  /\ delivery' = [delivery EXCEPT ![d].status = "received"]
  /\ UNCHANGED <<receipt, tables, worker>>

-----------------------------------------------------------------------------
(* Leases.                                                                 *)

Analyzable(snapshot) == {f \in Files : snapshot[f] # "skip"}

BudgetLeft(row) == row.attempts < MaxAttempts

(* Slip: the expiry is cleared and the token is not.                       *)
ReleasedExpiry(row) == [row EXCEPT !.ttl = 0]

Released(row) == [row EXCEPT !.lease = 0, !.ttl = 0]

(* Slip: one token for every claim of a delivery.                          *)
ReusedToken(row) == 1

(* uuid.uuid4(): a token no earlier claim of this delivery was given.      *)
FreshToken(row) == row.attempts + 1

Expired(row) == row.status = "processing" /\ row.ttl = 0

(* Slip: a lease that ran out with its last attempt is left alone.         *)
RecoveredOnce(row) ==
  IF Expired(row) /\ BudgetLeft(row)
  THEN [Released(row) EXCEPT !.status = "retry_scheduled", !.due = TRUE]
  ELSE row

Recovered(row) ==
  IF Expired(row)
  THEN [Released(row) EXCEPT
          !.status = IF BudgetLeft(row) THEN "retry_scheduled" ELSE "failed",
          !.due = TRUE]
  ELSE row

(* The row is still processing under the token of this worker.             *)
Carries(w) ==
  LET row == delivery[worker[w].delivery] IN
  row.status = "processing" /\ row.lease = worker[w].token

(* Slip: the token is checked and the expiry is not.                       *)
OwnedByToken(w) ==
  /\ worker[w].pc \notin {"idle", "polling"}
  /\ Carries(w)

(* _require_owned, and the WHERE clause of complete.                       *)
Owned(w) ==
  /\ worker[w].pc \notin {"idle", "polling"}
  /\ Carries(w)
  /\ delivery[worker[w].delivery].ttl > 0

Becomes(w, rec) == worker' = [worker EXCEPT ![w] = rec]

Failing(w, failure) ==
  [worker[w] EXCEPT !.pc = "failing", !.failure = failure,
                    !.snapshot = Nothing, !.todo = {}]

(* The transaction has committed; its response arrives, or is lost and     *)
(* surfaces as a database error, which classify_ingestion_failure does not *)
(* know and calls permanent.                                               *)
Responds(w, rec) == Becomes(w, rec) \/ Becomes(w, Failing(w, "permanent"))

-----------------------------------------------------------------------------
(* run_once of the ingestion worker.                                       *)

(* claim_next first recovers expired leases, in a transaction of its own.  *)
Poll(w) ==
  /\ worker[w].pc = "idle"
  /\ delivery' = [d \in Deliveries |-> Recovered(delivery[d])]
  /\ Becomes(w, [Idle EXCEPT !.pc = "polling"])
  /\ UNCHANGED <<receipt, tables>>

(* Slip: whatever is not completed is claimed again.                       *)
ClaimableUnfinished(row) ==
  /\ row.status \notin {"absent", "processing", "completed"}
  /\ row.due
  /\ BudgetLeft(row)

Claimable(row) ==
  row.status \in {"received", "retry_scheduled"} /\ row.due /\ BudgetLeft(row)

Leased(row) ==
  [row EXCEPT !.status = "processing", !.attempts = @ + 1,
              !.lease = FreshToken(row), !.ttl = LeaseTerm]

ClaimNext(w) ==
  LET candidates == {d \in Deliveries : Claimable(delivery[d])} IN
  /\ worker[w].pc = "polling"
  /\ \/ \E d \in candidates :
          /\ delivery' = [delivery EXCEPT ![d] = Leased(@)]
          /\ Becomes(w, [Idle EXCEPT !.pc = "claimed", !.delivery = d,
                                     !.token = FreshToken(delivery[d])])
     \/ /\ candidates = {}
        /\ Becomes(w, Idle)
        /\ UNCHANGED delivery
  /\ UNCHANGED <<receipt, tables>>

(* GitHubAppClient.fetch_pull_request: a snapshot of exactly this head, or *)
(* a failure, permanent when the head has moved.                           *)
FetchPullRequest(w) ==
  /\ worker[w].pc = "claimed"
  /\ \/ \E s \in Snapshots :
          Becomes(w, [worker[w] EXCEPT !.pc = "fetched", !.snapshot = s])
     \/ \E failure \in {"retryable", "permanent"} : Becomes(w, Failing(w, failure))
  /\ UNCHANGED <<receipt, delivery, tables>>

(* Slip: ON CONFLICT DO UPDATE.                                            *)
Overwritten(old, snapshot) ==
  [f \in Files |-> IF f \in Analyzable(snapshot) THEN snapshot[f] ELSE old[f]]

(* ON CONFLICT DO NOTHING for the analyzable files of a head.              *)
Inserted(old, snapshot) ==
  [f \in Files |-> IF f \in Analyzable(snapshot) /\ old[f] = "none"
                   THEN snapshot[f] ELSE old[f]]

(* persist_snapshot: a file stored before with other contents is an error, *)
(* and the transaction leaves nothing behind.                              *)
PersistSnapshot(w) ==
  LET s == worker[w].snapshot
      h == Event[worker[w].delivery].head
      rows == Inserted(stored[h], s) IN
  /\ worker[w].pc = "fetched"
  /\ Owned(w)
  /\ \/ /\ \A f \in Analyzable(s) : rows[f] = s[f]
        /\ stored' = [stored EXCEPT ![h] = rows]
        /\ Responds(w, [worker[w] EXCEPT !.pc = "submitting",
                                         !.todo = Analyzable(s)])
     \/ /\ \E f \in Analyzable(s) : rows[f] # s[f]
        /\ Becomes(w, Failing(w, "permanent"))
        /\ UNCHANGED stored
  /\ UNCHANGED <<receipt, delivery, job, link>>

Key(w, f) ==
  <<Event[worker[w].delivery].pull, Event[worker[w].delivery].head, f>>

NextFile(w) == CHOOSE f \in worker[w].todo : TRUE

(* Slip: only a job this delivery created is linked.                       *)
SubmitLinkingNew(w) ==
  LET f == NextFile(w) IN
  /\ worker[w].pc = "submitting"
  /\ worker[w].todo # {}
  /\ job' = [job EXCEPT ![Key(w, f)] =
               IF @ = "none" THEN worker[w].snapshot[f] ELSE @]
  /\ Becomes(w, IF job[Key(w, f)] = "none"
                THEN [worker[w] EXCEPT !.pc = "linking"]
                ELSE [worker[w] EXCEPT !.todo = @ \ {f}])
  /\ UNCHANGED <<receipt, delivery, stored, link>>

(* WorkflowJobRepository.submit, which looks at no lease: it creates the   *)
(* job, returns the one that has this key and contents, or refuses.        *)
SubmitJob(w) ==
  LET f == NextFile(w)
      k == Key(w, f)
      diff == worker[w].snapshot[f] IN
  /\ worker[w].pc = "submitting"
  /\ worker[w].todo # {}
  /\ \/ /\ job[k] \in {"none", diff}
        /\ job' = [job EXCEPT ![k] = diff]
        /\ Responds(w, [worker[w] EXCEPT !.pc = "linking"])
     \/ /\ job[k] \notin {"none", diff}
        /\ Becomes(w, Failing(w, "permanent"))
        /\ UNCHANGED job
  /\ UNCHANGED <<receipt, delivery, stored, link>>

LinkJob(w) ==
  LET f == NextFile(w) IN
  /\ worker[w].pc = "linking"
  /\ Owned(w)
  /\ link' = link \cup {<<worker[w].delivery, f>>}
  /\ Responds(w, [worker[w] EXCEPT !.pc = "submitting", !.todo = @ \ {f}])
  /\ UNCHANGED <<receipt, delivery, stored, job>>

Complete(w) ==
  /\ worker[w].pc = "submitting"
  /\ worker[w].todo = {}
  /\ Owned(w)
  /\ delivery' = [delivery EXCEPT ![worker[w].delivery] =
       [Released(@) EXCEPT !.status = "completed",
                           !.files = Analyzable(worker[w].snapshot)]]
  /\ Responds(w, Idle)
  /\ UNCHANGED <<receipt, tables>>

(* "lease was lost" is a RuntimeError like any other for the classifier.   *)
LeaseLost(w) ==
  /\ \/ worker[w].pc \in {"fetched", "linking"}
     \/ worker[w].pc = "submitting" /\ worker[w].todo = {}
  /\ ~Owned(w)
  /\ Becomes(w, Failing(w, "lease"))
  /\ UNCHANGED <<receipt, delivery, tables>>

(* The database refuses a statement of the worker.                         *)
DatabaseError(w) ==
  /\ worker[w].pc \in {"fetched", "submitting", "linking"}
  /\ Becomes(w, Failing(w, "permanent"))
  /\ UNCHANGED <<receipt, delivery, tables>>

(* schedule_failure asks for the token and not for the expiry.  When the   *)
(* row is no longer this worker's it raises out of run_once, which ends    *)
(* the worker process; the model restarts it.                              *)
ScheduleFailure(w) ==
  LET d == worker[w].delivery
      retryable == worker[w].failure = "retryable" IN
  /\ worker[w].pc = "failing"
  /\ delivery' =
       IF Carries(w)
       THEN [delivery EXCEPT ![d] =
               [Released(@) EXCEPT
                  !.status = IF retryable /\ BudgetLeft(delivery[d])
                             THEN "retry_scheduled" ELSE "failed",
                  !.due = ~retryable]]
       ELSE delivery
  /\ Becomes(w, Idle)
  /\ UNCHANGED <<receipt, tables>>

(* A crash between the poll and the claim leaves nothing behind but a      *)
(* worker that polls again, and is left out.                               *)
Crash(w) ==
  /\ worker[w].pc \notin {"idle", "polling"}
  /\ Becomes(w, Idle)
  /\ UNCHANGED <<receipt, delivery, tables>>

-----------------------------------------------------------------------------

LeaseTick(d) ==
  /\ delivery[d].status = "processing"
  /\ delivery[d].ttl > 0
  /\ delivery' = [delivery EXCEPT ![d].ttl = @ - 1]
  /\ UNCHANGED <<receipt, tables, worker>>

DelayElapses(d) ==
  /\ ~delivery[d].due
  /\ delivery' = [delivery EXCEPT ![d].due = TRUE]
  /\ UNCHANGED <<receipt, tables, worker>>

RunOnce(w) ==
  \/ Poll(w)
  \/ ClaimNext(w)
  \/ FetchPullRequest(w)
  \/ PersistSnapshot(w)
  \/ SubmitJob(w)
  \/ LinkJob(w)
  \/ Complete(w)
  \/ LeaseLost(w)
  \/ DatabaseError(w)
  \/ ScheduleFailure(w)

Next ==
  \/ \E d \in Deliveries :
       \/ RecordLifecycle(d) \/ RecordDelivery(d)
       \/ LeaseTick(d) \/ DelayElapses(d)
  \/ \E w \in Workers : RunOnce(w) \/ Crash(w)

Spec == Init /\ [][Next]_vars

(* Workers keep polling, every call they make returns, and time passes.    *)
(* Nothing obliges GitHub to deliver, the API to survive or a worker to    *)
(* crash.                                                                  *)
FairSpec ==
  /\ Spec
  /\ \A w \in Workers : WF_vars(RunOnce(w))
  /\ \A d \in Deliveries : WF_vars(LeaseTick(d)) /\ WF_vars(DelayElapses(d))
-----------------------------------------------------------------------------
(* Properties.                                                             *)

DeliveryRow ==
  [status : {"absent", "received", "processing", "retry_scheduled",
             "completed", "failed"},
   attempts : 0..MaxAttempts, due : BOOLEAN, lease : 0..MaxAttempts,
   ttl : 0..LeaseTerm, files : SUBSET Files]

WorkerState ==
  [pc : {"idle", "polling", "claimed", "fetched", "submitting", "linking",
         "failing"},
   delivery : Deliveries \cup {NoDelivery}, token : 0..MaxAttempts,
   snapshot : Snapshots \cup {Nothing}, todo : SUBSET Files,
   failure : {"none", "retryable", "permanent", "lease"}]

(* Types, the attempts constraint of migration 014, and its lease          *)
(* constraint: a lease exactly on the rows that are being processed.       *)
TypeOK ==
  /\ received \subseteq Deliveries
  /\ latest \in [Pulls -> Deliveries \cup {NoDelivery}]
  /\ delivery \in [Deliveries -> DeliveryRow]
  /\ \A d \in Deliveries :
       delivery[d].status = "processing" <=> delivery[d].lease # 0
  /\ stored \in [Heads -> [Files -> Diffs \cup {"none"}]]
  /\ job \in [Pulls \X Heads \X Files -> Diffs \cup {"none"}]
  /\ link \subseteq Deliveries \X Files
  /\ worker \in [Workers -> WorkerState]

(* At most one ingestion worker carries the token a delivery accepts, so   *)
(* that a delivery is never processed by two workers with an equal claim.  *)
OneIngestor ==
  \A v, w \in Workers :
    /\ worker[v].delivery # NoDelivery
    /\ worker[v].delivery = worker[w].delivery
    /\ Carries(v)
    /\ Carries(w)
    => v = w

(* The snapshot that patch generation and validation will load for a job   *)
(* is there, and it is the one the job was submitted with: whatever was    *)
(* retried or downloaded again from a moved base.                          *)
JobsMatchSnapshots ==
  \A k \in DOMAIN job : job[k] # "none" => stored[k[2]][k[3]] = job[k]

(* A completed delivery has a linked job for every file it counts.         *)
CompletedCoversFiles ==
  \A d \in Deliveries :
    delivery[d].status = "completed" =>
      \A f \in delivery[d].files :
        /\ <<d, f>> \in link
        /\ job[<<Event[d].pull, Event[d].head, f>>] # "none"

(* The current row of a pull request is the newest of the updates received *)
(* so far, in whatever order and however often GitHub delivered them.      *)
ProjectionIsNewest ==
  \A d \in received :
    LET last == latest[Event[d].pull] IN
    /\ last \in received
    /\ Event[last].pull = Event[d].pull
    /\ Event[d].at <= Event[last].at

(* A worker whose lease ran out, or whose delivery was taken over, leaves  *)
(* no trace on it any more: it neither completes nor links it, and stores  *)
(* no snapshot.                                                            *)
Live(w, d) ==
  /\ worker[w].delivery = d
  /\ delivery[d].status = "processing"
  /\ delivery[d].lease = worker[w].token
  /\ delivery[d].ttl > 0

OnlyOwnerRecords ==
  [][/\ \A d \in Deliveries :
          (/\ delivery[d].status # "completed"
           /\ delivery'[d].status = "completed")
          => \E w \in Workers : Live(w, d)
     /\ \A pair \in link' \ link :
          \E w \in Workers : Live(w, pair[1])
     /\ stored' # stored =>
          \E w \in Workers, d \in Deliveries :
            worker[w].pc = "fetched" /\ Live(w, d)]_vars

(* Completed and failed deliveries, the contents of jobs and the stored    *)
(* snapshots are final, for redeliveries and late workers alike.           *)
RecordsAreFinal ==
  [][/\ \A d \in Deliveries :
          delivery[d].status \in {"completed", "failed"} =>
            delivery'[d] = [delivery[d] EXCEPT !.due = delivery'[d].due]
     /\ \A k \in DOMAIN job : job[k] # "none" => job'[k] = job[k]
     /\ \A h \in Heads, f \in Files :
          stored[h][f] # "none" => stored'[h][f] = stored[h][f]
     /\ link \subseteq link']_vars

(* Every recorded delivery is completed or fails, although workers crash   *)
(* without releasing their leases.                                         *)
DeliveriesSettle ==
  \A d \in Deliveries :
    delivery[d].status = "received"
      ~> delivery[d].status \in {"completed", "failed"}
=============================================================================
