----------------------- MODULE WebhookIngestion_proofs -----------------------
(***************************************************************************)
(* Theorems about WebhookIngestion that hold for every set of deliveries,  *)
(* files and workers, every content a download may have, every budget and  *)
(* every lease term.                                                       *)
(*                                                                         *)
(* The properties speak of the tables; what makes them inductive is what   *)
(* a worker may believe.  It believes that its snapshot is stored and that *)
(* the files it is done with have their jobs and links, and it is right    *)
(* even when its lease is gone, because these tables only grow.            *)
(***************************************************************************)
EXTENDS WebhookIngestion, TLAPS

LogType ==
  /\ received \subseteq Deliveries
  /\ latest \in [Pulls -> Deliveries \cup {NoDelivery}]

TablesType ==
  /\ stored \in [Heads -> [Files -> Diffs \cup {"none"}]]
  /\ job \in [Pulls \X Heads \X Files -> Diffs \cup {"none"}]
  /\ link \subseteq Deliveries \X Files

\* The lease constraint of migration 014, and no file before completion.
RowOK(row) ==
  /\ row \in DeliveryRow
  /\ row.status = "processing" <=> row.lease # 0
  /\ row.status = "absent" => row.attempts = 0

RowsOK ==
  /\ delivery \in [Deliveries -> DeliveryRow]
  /\ \A d \in Deliveries : RowOK(delivery[d])

\* A worker holds a delivery exactly while it works on one, and has files to
\* do only of its snapshot.
Sound(r) ==
  /\ r \in WorkerState
  /\ r.pc \in {"idle", "polling"} <=> r.delivery = NoDelivery
  /\ r.todo \subseteq Analyzable(r.snapshot)
  /\ r.pc \notin {"submitting", "linking"} => r.todo = {}
  /\ r.pc = "linking" => r.todo # {}

WorkersSound ==
  /\ worker \in [Workers -> WorkerState]
  /\ \A w \in Workers : Sound(worker[w])

TypeInv == LogType /\ TablesType /\ RowsOK /\ WorkersSound

-----------------------------------------------------------------------------
(* Records and functions.                                                  *)

LEMMA FunctionUpdate ==
  ASSUME NEW S, NEW T, NEW f \in [S -> T], NEW x, NEW v \in T
  PROVE  [f EXCEPT ![x] = v] \in [S -> T]
OBVIOUS

Status == {"absent", "received", "processing", "retry_scheduled",
           "completed", "failed"}

LEMMA RowUpdate ==
  ASSUME NEW row \in DeliveryRow
  PROVE  /\ \A s \in Status : [row EXCEPT !.status = s] \in DeliveryRow
         /\ \A n \in 0..MaxAttempts : [row EXCEPT !.attempts = n] \in DeliveryRow
         /\ \A b \in BOOLEAN : [row EXCEPT !.due = b] \in DeliveryRow
         /\ \A n \in 0..MaxAttempts : [row EXCEPT !.lease = n] \in DeliveryRow
         /\ \A n \in 0..LeaseTerm : [row EXCEPT !.ttl = n] \in DeliveryRow
         /\ \A F \in SUBSET Files : [row EXCEPT !.files = F] \in DeliveryRow
BY SMT DEF DeliveryRow, Status

WorkerPc == {"idle", "polling", "claimed", "fetched", "submitting", "linking",
             "failing"}

LEMMA WorkerUpdate ==
  ASSUME NEW r \in WorkerState
  PROVE  /\ \A p \in WorkerPc : [r EXCEPT !.pc = p] \in WorkerState
         /\ \A d \in Deliveries : [r EXCEPT !.delivery = d] \in WorkerState
         /\ \A n \in 0..MaxAttempts : [r EXCEPT !.token = n] \in WorkerState
         /\ \A s \in Snapshots \cup {Nothing} :
              [r EXCEPT !.snapshot = s] \in WorkerState
         /\ \A F \in SUBSET Files : [r EXCEPT !.todo = F] \in WorkerState
         /\ \A f \in {"none", "retryable", "permanent", "lease"} :
              [r EXCEPT !.failure = f] \in WorkerState
BY SMT DEF WorkerState, WorkerPc

LEMMA Values ==
  /\ 0 \in 0..MaxAttempts /\ {0, LeaseTerm} \subseteq 0..LeaseTerm
  /\ MaxAttempts \in Nat /\ LeaseTerm \in Nat
  /\ {"absent", "received", "processing", "retry_scheduled", "completed",
      "failed"} = Status
  /\ {"idle", "polling", "claimed", "fetched", "submitting", "linking",
      "failing"} = WorkerPc
BY IngestionAssumption, SMT DEF IngestionAssumption, Status, WorkerPc

LEMMA NothingAnalyzable == Analyzable(Nothing) = {}
BY DEF Analyzable, Nothing

LEMMA ReleasedRow ==
  ASSUME NEW row \in DeliveryRow
  PROVE  /\ Released(row) \in DeliveryRow
         /\ Released(row).status = row.status
         /\ Released(row).attempts = row.attempts
         /\ Released(row).files = row.files
         /\ Released(row).lease = 0
<1>1. Released(row) \in DeliveryRow
  BY Values, RowUpdate, Zenon DEF Released
<1>2. /\ Released(row).status = row.status
      /\ Released(row).attempts = row.attempts
      /\ Released(row).files = row.files
      /\ Released(row).lease = 0
  BY SMT DEF Released, DeliveryRow
<1> QED BY <1>1, <1>2

\* A row is given up: its lease is gone, and it is not in processing.
GivenUp(row, status, due) ==
  [Released(row) EXCEPT !.status = status, !.due = due]

LEMMA GivenUpRow ==
  ASSUME NEW row, RowOK(row), NEW s \in Status \ {"processing", "absent"},
         NEW b \in BOOLEAN
  PROVE  /\ RowOK(GivenUp(row, s, b))
         /\ GivenUp(row, s, b).attempts = row.attempts
         /\ GivenUp(row, s, b).status = s
         /\ GivenUp(row, s, b).lease = 0
         /\ GivenUp(row, s, b).files = row.files
<1> DEFINE old == Released(row)
           written == [old EXCEPT !.status = s, !.due = b]
<1>1. /\ old \in DeliveryRow /\ old.attempts = row.attempts
      /\ old.lease = 0 /\ old.files = row.files
  BY ReleasedRow DEF RowOK
<1>2. GivenUp(row, s, b) = written
  BY DEF GivenUp
<1> HIDE DEF old
<1>3. s \in Status
  OBVIOUS
<1>4. written \in DeliveryRow
  BY <1>1, <1>3, RowUpdate, Zenon
<1>5. /\ written.status = s /\ written.attempts = old.attempts
      /\ written.lease = old.lease /\ written.files = old.files
  BY <1>1, SMT DEF DeliveryRow
<1> HIDE DEF written
<1> QED BY <1>1, <1>2, <1>4, <1>5 DEF RowOK

LEMMA RecoveredRow ==
  ASSUME NEW row, RowOK(row)
  PROVE  /\ RowOK(Recovered(row))
         /\ Recovered(row).attempts = row.attempts
         /\ Recovered(row).files = row.files
         /\ Recovered(row).status \in {row.status, "retry_scheduled", "failed"}
         /\ Recovered(row).lease \in {row.lease, 0}
<1>1. CASE Expired(row)
  <2> DEFINE s == IF BudgetLeft(row) THEN "retry_scheduled" ELSE "failed"
  <2>1. s \in Status \ {"processing", "absent"}
        /\ s \in {"retry_scheduled", "failed"}
    BY DEF Status
  <2>2. Recovered(row) = GivenUp(row, s, TRUE)
    BY <1>1 DEF Recovered, GivenUp
  <2>3. PICK b \in BOOLEAN : Recovered(row) = GivenUp(row, s, b)
    BY <2>2
  <2> HIDE DEF s
  <2>4. /\ RowOK(Recovered(row)) /\ Recovered(row).attempts = row.attempts
        /\ Recovered(row).status = s /\ Recovered(row).lease = 0
        /\ Recovered(row).files = row.files
    BY <2>1, <2>3, GivenUpRow
  <2> QED BY <2>1, <2>4
<1>2. CASE ~Expired(row)
  BY <1>2 DEF Recovered
<1> QED BY <1>1, <1>2

LEMMA ClaimedRow ==
  ASSUME NEW row, RowOK(row), BudgetLeft(row), NEW new, new = Leased(row)
  PROVE  /\ RowOK(new) /\ new.attempts = row.attempts + 1
         /\ new.status = "processing" /\ new.lease = FreshToken(row)
         /\ row.attempts \in Nat /\ FreshToken(row) = row.attempts + 1
         /\ FreshToken(row) \in 1..MaxAttempts
<1> DEFINE n == row.attempts + 1
<1>1. row \in DeliveryRow /\ row.attempts \in Nat /\ n \in 1..MaxAttempts
  BY Values, SMT DEF RowOK, DeliveryRow, BudgetLeft
<1>2. FreshToken(row) = n /\ n \in 0..MaxAttempts /\ n # 0
  BY <1>1, SMT DEF FreshToken
<1> DEFINE written == [row EXCEPT !.status = "processing", !.attempts = n,
                                 !.lease = n, !.ttl = LeaseTerm]
<1>3. new = written
  BY <1>2 DEF Leased
<1> HIDE DEF n
<1>4. written \in DeliveryRow
  BY <1>1, <1>2, Values, RowUpdate, Zenon
<1>5. /\ written.status = "processing"
      /\ written.attempts = n /\ written.lease = n
  BY <1>1, SMT DEF DeliveryRow
<1> HIDE DEF written
<1>6. RowOK(new)
  BY <1>2, <1>3, <1>4, <1>5 DEF RowOK
<1> QED BY <1>1, <1>2, <1>3, <1>5, <1>6 DEF n

\* What Complete writes.
CompletedWith(row, files) ==
  [Released(row) EXCEPT !.status = "completed", !.files = files]

LEMMA CompletedRow ==
  ASSUME NEW row, RowOK(row), NEW F \in SUBSET Files
  PROVE  /\ RowOK(CompletedWith(row, F))
         /\ CompletedWith(row, F).attempts = row.attempts
         /\ CompletedWith(row, F).files = F
<1> DEFINE old == Released(row)
           written == [old EXCEPT !.status = "completed", !.files = F]
<1>1. old \in DeliveryRow /\ old.attempts = row.attempts /\ old.lease = 0
  BY ReleasedRow DEF RowOK
<1>2. CompletedWith(row, F) = written
  BY DEF CompletedWith
<1> HIDE DEF old
<1>3. written \in DeliveryRow
  BY <1>1, Values, RowUpdate, Zenon
<1>4. written.status = "completed" /\ written.attempts = old.attempts
      /\ written.lease = old.lease /\ written.files = F
  BY <1>1, SMT DEF DeliveryRow
<1> HIDE DEF written
<1> QED BY <1>1, <1>2, <1>3, <1>4 DEF RowOK

LEMMA TickedRow ==
  ASSUME NEW row, RowOK(row), row.ttl > 0, NEW new,
         new = [row EXCEPT !.ttl = row.ttl - 1]
  PROVE  /\ RowOK(new) /\ new.attempts = row.attempts /\ new.files = row.files
         /\ new.status = row.status /\ new.lease = row.lease
<1> DEFINE n == row.ttl - 1
<1>1. row \in DeliveryRow /\ n \in 0..LeaseTerm
  BY Values, SMT DEF RowOK, DeliveryRow
<1> DEFINE written == [row EXCEPT !.ttl = n]
<1>2. new = written
  OBVIOUS
<1> HIDE DEF n
<1>3. new \in DeliveryRow
  BY <1>1, <1>2, RowUpdate
<1>4. new.status = row.status /\ new.attempts = row.attempts
      /\ new.lease = row.lease /\ new.files = row.files
  BY <1>1, <1>2, SMT DEF DeliveryRow
<1> QED BY <1>3, <1>4 DEF RowOK

LEMMA DueRow ==
  ASSUME NEW row, RowOK(row), NEW new, new = [row EXCEPT !.due = TRUE]
  PROVE  /\ RowOK(new) /\ new.attempts = row.attempts /\ new.files = row.files
         /\ new.status = row.status /\ new.lease = row.lease
<1>1. new \in DeliveryRow
  BY RowUpdate, Zenon DEF RowOK
<1>2. new.status = row.status /\ new.attempts = row.attempts
      /\ new.lease = row.lease /\ new.files = row.files
  BY SMT DEF DeliveryRow, RowOK
<1> QED BY <1>1, <1>2 DEF RowOK

LEMMA ReceivedRow ==
  ASSUME NEW row, RowOK(row), row.status = "absent", NEW new,
         new = [row EXCEPT !.status = "received"]
  PROVE  /\ RowOK(new) /\ new.attempts = row.attempts /\ new.files = row.files
         /\ new.status = "received" /\ new.lease = row.lease
<1>1. new \in DeliveryRow
  BY Values, RowUpdate, Zenon DEF RowOK
<1>2. new.status = "received" /\ new.attempts = row.attempts
      /\ new.lease = row.lease /\ new.files = row.files
  BY SMT DEF DeliveryRow, RowOK
<1> QED BY <1>1, <1>2 DEF RowOK

-----------------------------------------------------------------------------
(* What a step does to the deliveries.                                     *)

\* Attempts only grow, and only Complete completes.
Moves(old, new) ==
  /\ RowOK(new)
  /\ new.attempts >= old.attempts
  /\ new.status = "completed" =>
       old.status = "completed" /\ new.files = old.files

RowsMove ==
  /\ delivery' \in [Deliveries -> DeliveryRow]
  /\ \A d \in Deliveries : Moves(delivery[d], delivery'[d])

LEMMA Still == ASSUME NEW row, RowOK(row) PROVE Moves(row, row)
BY SMT DEF RowOK, Moves, DeliveryRow

LEMMA OneRow ==
  ASSUME RowsOK, NEW d \in Deliveries, NEW row, RowOK(row),
         delivery' = [delivery EXCEPT ![d] = row]
  PROVE  /\ delivery' \in [Deliveries -> DeliveryRow]
         /\ delivery'[d] = row
         /\ \A e \in Deliveries \ {d} : delivery'[e] = delivery[e]
<1>1. delivery \in [Deliveries -> DeliveryRow] /\ row \in DeliveryRow
  BY DEF RowsOK, RowOK
<1> QED BY <1>1, Zenon

LEMMA OneMove ==
  ASSUME RowsOK, NEW d \in Deliveries, NEW row, Moves(delivery[d], row),
         delivery' = [delivery EXCEPT ![d] = row]
  PROVE  RowsMove
<1>1. RowOK(row)
  BY DEF Moves
<1>2. \A e \in Deliveries : Moves(delivery[e], delivery[e])
  BY Still DEF RowsOK
<1> QED BY <1>1, <1>2, OneRow DEF RowsMove

LEMMA NoMove == ASSUME RowsOK, delivery' = delivery PROVE RowsMove
BY Still DEF RowsOK, RowsMove

LEMMA PollMoves == ASSUME RowsOK, NEW w \in Workers, Poll(w) PROVE RowsMove
<1>1. delivery' = [d \in Deliveries |-> Recovered(delivery[d])]
  BY DEF Poll
<1>2. ASSUME NEW d \in Deliveries PROVE Moves(delivery[d], Recovered(delivery[d]))
  <2>1. RowOK(delivery[d]) /\ delivery[d].attempts \in Nat
    BY SMT DEF RowsOK, RowOK, DeliveryRow
  <2> QED BY <2>1, RecoveredRow, SMT DEF Moves
<1>3. \A d \in Deliveries : Recovered(delivery[d]) \in DeliveryRow
  BY <1>2 DEF Moves, RowOK
<1> QED BY <1>1, <1>2, <1>3, Zenon DEF RowsMove

\* A claim gives the worker a token above every attempt before it.
LEMMA ClaimMoves ==
  ASSUME RowsOK, NEW w \in Workers, NEW d \in Deliveries, Claimable(delivery[d]),
         delivery' = [delivery EXCEPT ![d] = Leased(delivery[d])]
  PROVE  /\ RowsMove
         /\ FreshToken(delivery[d]) \in 1..MaxAttempts
         /\ FreshToken(delivery[d]) = delivery[d].attempts + 1
         /\ delivery'[d].attempts = delivery[d].attempts + 1
<1> DEFINE old == delivery[d]
           row == Leased(old)
<1>1. RowOK(old) /\ BudgetLeft(old)
  BY DEF RowsOK, Claimable
<1>2. /\ RowOK(row) /\ row.attempts = old.attempts + 1
      /\ row.status = "processing"
      /\ old.attempts \in Nat /\ FreshToken(old) = old.attempts + 1
      /\ FreshToken(old) \in 1..MaxAttempts
  BY <1>1, ClaimedRow
<1>3. delivery' = [delivery EXCEPT ![d] = row]
  OBVIOUS
<1> HIDE DEF row
<1>4. Moves(old, row)
  BY <1>2, SMT DEF Moves
<1>5. RowsMove /\ delivery'[d] = row
  BY <1>2, <1>3, <1>4, OneMove, OneRow
<1> QED BY <1>2, <1>5

LEMMA ScheduleMoves ==
  ASSUME TypeInv, NEW w \in Workers, ScheduleFailure(w) PROVE RowsMove
<1> DEFINE d == worker[w].delivery
           old == delivery[d]
           retryable == worker[w].failure = "retryable"
           s == IF retryable /\ BudgetLeft(old) THEN "retry_scheduled" ELSE "failed"
           b == ~retryable
           row == GivenUp(old, s, b)
<1>1. RowsOK
  BY DEF TypeInv
<1>2. CASE ~Carries(w)
  <2>1. delivery' = delivery
    BY <1>2 DEF ScheduleFailure
  <2> QED BY <1>1, <2>1, NoMove
<1>3. CASE Carries(w)
  <2>1. d \in Deliveries
    BY DEF TypeInv, WorkersSound, Sound, WorkerState, ScheduleFailure
  <2>2. RowOK(old) /\ old.attempts \in Nat
    BY <1>1, <2>1, SMT DEF RowsOK, RowOK, DeliveryRow
  <2>3. delivery' = [delivery EXCEPT ![d] = row]
    BY <1>3 DEF ScheduleFailure, GivenUp
  <2>4. s \in Status \ {"processing", "absent"} /\ s # "completed" /\ b \in BOOLEAN
    BY DEF Status
  <2> HIDE DEF s, b
  <2>5. RowOK(row) /\ row.attempts = old.attempts /\ row.status = s
    BY <2>2, <2>4, GivenUpRow
  <2> HIDE DEF row
  <2>6. Moves(old, row)
    BY <2>2, <2>4, <2>5, SMT DEF Moves
  <2> QED BY <1>1, <2>1, <2>3, <2>6, OneMove
<1> QED BY <1>2, <1>3

LEMMA ReceiptMoves ==
  ASSUME RowsOK, NEW d \in Deliveries, RecordDelivery(d) PROVE RowsMove
<1> DEFINE old == delivery[d]
           row == [old EXCEPT !.status = "received"]
<1>1. RowOK(old) /\ old.attempts \in Nat /\ old.status = "absent"
  BY SMT DEF RowsOK, RowOK, DeliveryRow, RecordDelivery
<1>2. RowOK(row) /\ row.attempts = old.attempts /\ row.status = "received"
  BY <1>1, ReceivedRow
<1>3. delivery' = [delivery EXCEPT ![d] = row]
  BY DEF RecordDelivery
<1> HIDE DEF row
<1>4. Moves(old, row)
  BY <1>1, <1>2, SMT DEF Moves
<1> QED BY <1>3, <1>4, OneMove

LEMMA TickMoves ==
  ASSUME RowsOK, NEW d \in Deliveries, LeaseTick(d) PROVE RowsMove
<1> DEFINE old == delivery[d]
           row == [old EXCEPT !.ttl = old.ttl - 1]
<1>1. RowOK(old) /\ old.attempts \in Nat /\ old.ttl > 0
  BY SMT DEF RowsOK, RowOK, DeliveryRow, LeaseTick
<1>2. /\ RowOK(row) /\ row.attempts = old.attempts
      /\ row.status = old.status /\ row.files = old.files
  BY <1>1, TickedRow
<1>3. delivery' = [delivery EXCEPT ![d] = row]
  BY DEF LeaseTick
<1> HIDE DEF row
<1>4. Moves(old, row)
  BY <1>1, <1>2, SMT DEF Moves
<1> QED BY <1>3, <1>4, OneMove

LEMMA DelayMoves ==
  ASSUME RowsOK, NEW d \in Deliveries, DelayElapses(d) PROVE RowsMove
<1> DEFINE old == delivery[d]
           row == [old EXCEPT !.due = TRUE]
<1>1. RowOK(old) /\ old.attempts \in Nat
  BY SMT DEF RowsOK, RowOK, DeliveryRow
<1>2. /\ RowOK(row) /\ row.attempts = old.attempts
      /\ row.status = old.status /\ row.files = old.files
  BY <1>1, DueRow
<1>3. delivery' = [delivery EXCEPT ![d] = row]
  BY DEF DelayElapses
<1> HIDE DEF row
<1>4. Moves(old, row)
  BY <1>1, <1>2, SMT DEF Moves
<1> QED BY <1>3, <1>4, OneMove
-----------------------------------------------------------------------------
(* What a step does to the workers.                                        *)

\* A worker drops what it holds or goes on with it.
Follows(old, new) ==
  /\ Sound(new)
  /\ \/ new.delivery = NoDelivery
     \/ new.delivery = old.delivery /\ new.token = old.token

\* It is past persist_snapshot.
Submits(r) == r.pc \in {"submitting", "linking"}

LEMMA IdleSound ==
  LET polling == [Idle EXCEPT !.pc = "polling"] IN
  /\ Sound(Idle) /\ Idle.delivery = NoDelivery /\ ~Submits(Idle)
  /\ Sound(polling) /\ polling.delivery = NoDelivery /\ ~Submits(polling)
<1> DEFINE polling == [Idle EXCEPT !.pc = "polling"]
<1>1. Idle \in WorkerState
  BY Values, SMT DEF Idle, WorkerState
<1>2. polling \in WorkerState
  BY <1>1, Values, WorkerUpdate, Zenon
<1>3. /\ Idle.pc = "idle" /\ Idle.delivery = NoDelivery /\ Idle.todo = {}
      /\ polling.pc = "polling" /\ polling.delivery = NoDelivery
      /\ polling.todo = {}
  BY SMT DEF Idle
<1> HIDE DEF polling
<1>4. Sound(Idle) /\ ~Submits(Idle) /\ Sound(polling) /\ ~Submits(polling)
  BY <1>1, <1>2, <1>3 DEF Sound, Submits
<1> QED BY <1>3, <1>4 DEF polling

LEMMA ClaimedSound ==
  ASSUME NEW d \in Deliveries, NEW t \in 1..MaxAttempts
  PROVE  LET new == [Idle EXCEPT !.pc = "claimed", !.delivery = d, !.token = t]
         IN Sound(new) /\ new.delivery = d /\ new.token = t /\ ~Submits(new)
<1> DEFINE new == [Idle EXCEPT !.pc = "claimed", !.delivery = d, !.token = t]
<1>1. Idle \in WorkerState /\ t \in 0..MaxAttempts /\ d # NoDelivery
  BY IdleSound, IngestionAssumption, Values, SMT DEF Sound, IngestionAssumption
<1>2. new \in WorkerState
  BY <1>1, Values, WorkerUpdate, Zenon
<1>3. new.pc = "claimed" /\ new.delivery = d /\ new.token = t /\ new.todo = {}
  BY SMT DEF Idle
<1> HIDE DEF new
<1>4. Sound(new) /\ ~Submits(new)
  BY <1>1, <1>2, <1>3 DEF Sound, Submits
<1> QED BY <1>3, <1>4 DEF new

Failure == {"retryable", "permanent", "lease"}

LEMMA FailingSound ==
  ASSUME NEW w \in Workers, Sound(worker[w]),
         worker[w].delivery # NoDelivery, NEW f \in Failure
  PROVE  Follows(worker[w], Failing(w, f)) /\ ~Submits(Failing(w, f))
<1> DEFINE r == worker[w]
           new == [r EXCEPT !.pc = "failing", !.failure = f,
                            !.snapshot = Nothing, !.todo = {}]
<1>1. /\ r \in WorkerState /\ r.delivery # NoDelivery
      /\ f \in {"none", "retryable", "permanent", "lease"}
      /\ Nothing \in Snapshots \cup {Nothing} /\ {} \in SUBSET Files
  BY DEF Sound, Failure
<1>2. Failing(w, f) = new
  BY DEF Failing
<1> HIDE DEF r
<1>3. new \in WorkerState
  BY <1>1, Values, WorkerUpdate, Zenon
<1>4. /\ new.pc = "failing" /\ new.todo = {}
      /\ new.delivery = r.delivery /\ new.token = r.token
  BY <1>1, SMT DEF WorkerState
<1> HIDE DEF new
<1>5. Follows(r, new) /\ ~Submits(new)
  BY <1>1, <1>3, <1>4 DEF Sound, Submits, Follows
<1> QED BY <1>2, <1>5 DEF r

LEMMA FetchedSound ==
  ASSUME NEW r, Sound(r), r.pc = "claimed", NEW s \in Snapshots
  PROVE  LET new == [r EXCEPT !.pc = "fetched", !.snapshot = s]
         IN Follows(r, new) /\ ~Submits(new)
<1> DEFINE new == [r EXCEPT !.pc = "fetched", !.snapshot = s]
<1>1. r \in WorkerState /\ r.delivery # NoDelivery /\ r.todo = {}
  BY DEF Sound
<1>2. new \in WorkerState
  BY <1>1, Values, WorkerUpdate, Zenon
<1>3. /\ new.pc = "fetched" /\ new.todo = {}
      /\ new.delivery = r.delivery /\ new.token = r.token
  BY <1>1, SMT DEF WorkerState
<1> HIDE DEF new
<1>4. Follows(r, new) /\ ~Submits(new)
  BY <1>1, <1>2, <1>3 DEF Sound, Submits, Follows
<1> QED BY <1>4 DEF new

LEMMA StoredSound ==
  ASSUME NEW r, Sound(r), r.pc = "fetched"
  PROVE  LET new == [r EXCEPT !.pc = "submitting",
                              !.todo = Analyzable(r.snapshot)]
         IN /\ Follows(r, new) /\ new.delivery = r.delivery
            /\ new.pc = "submitting"
            /\ new.snapshot = r.snapshot /\ new.todo = Analyzable(r.snapshot)
<1> DEFINE F == Analyzable(r.snapshot)
           new == [r EXCEPT !.pc = "submitting", !.todo = F]
<1>1. r \in WorkerState /\ r.delivery # NoDelivery /\ F \in SUBSET Files
  BY DEF Sound, Analyzable
<1> HIDE DEF F
<1>2. new \in WorkerState
  BY <1>1, Values, WorkerUpdate, Zenon
<1>3. /\ new.pc = "submitting" /\ new.todo = F /\ new.snapshot = r.snapshot
      /\ new.delivery = r.delivery /\ new.token = r.token
  BY <1>1, SMT DEF WorkerState
<1> HIDE DEF new
<1>4. Follows(r, new)
  BY <1>1, <1>2, <1>3 DEF Sound, Follows, F
<1> QED BY <1>3, <1>4 DEF new, F

LEMMA SubmittedSound ==
  ASSUME NEW r, Sound(r), r.pc = "submitting", r.todo # {}
  PROVE  LET new == [r EXCEPT !.pc = "linking"]
         IN /\ Follows(r, new) /\ new.delivery = r.delivery
            /\ new.pc = "linking"
            /\ new.snapshot = r.snapshot /\ new.todo = r.todo
<1> DEFINE new == [r EXCEPT !.pc = "linking"]
<1>1. r \in WorkerState /\ r.delivery # NoDelivery
  BY DEF Sound
<1>2. new \in WorkerState
  BY <1>1, Values, WorkerUpdate, Zenon
<1>3. /\ new.pc = "linking" /\ new.todo = r.todo /\ new.snapshot = r.snapshot
      /\ new.delivery = r.delivery /\ new.token = r.token
  BY <1>1, SMT DEF WorkerState
<1> HIDE DEF new
<1>4. Follows(r, new)
  BY <1>1, <1>2, <1>3 DEF Sound, Follows
<1> QED BY <1>3, <1>4 DEF new

LEMMA LinkedSound ==
  ASSUME NEW r, Sound(r), r.pc = "linking", NEW f
  PROVE  LET new == [r EXCEPT !.pc = "submitting", !.todo = r.todo \ {f}]
         IN /\ Follows(r, new) /\ new.delivery = r.delivery
            /\ new.pc = "submitting"
            /\ new.snapshot = r.snapshot /\ new.todo = r.todo \ {f}
<1> DEFINE F == r.todo \ {f}
           new == [r EXCEPT !.pc = "submitting", !.todo = F]
<1>1. r \in WorkerState /\ r.delivery # NoDelivery /\ F \in SUBSET Files
      /\ F \subseteq Analyzable(r.snapshot)
  BY DEF Sound, WorkerState, Analyzable
<1> HIDE DEF F
<1>2. new \in WorkerState
  BY <1>1, Values, WorkerUpdate, Zenon
<1>3. /\ new.pc = "submitting" /\ new.todo = F /\ new.snapshot = r.snapshot
      /\ new.delivery = r.delivery /\ new.token = r.token
  BY <1>1, SMT DEF WorkerState
<1> HIDE DEF new
<1>4. Follows(r, new)
  BY <1>1, <1>2, <1>3 DEF Sound, Follows
<1> QED BY <1>3, <1>4 DEF new, F

WorkersMove ==
  /\ worker' \in [Workers -> WorkerState]
  /\ \A v \in Workers : Follows(worker[v], worker'[v])

\* No worker comes to be past persist_snapshot, or goes on there.
WorkersQuiet ==
  \A v \in Workers : worker'[v] = worker[v] \/ ~Submits(worker'[v])

LEMMA OneWorker ==
  ASSUME WorkersSound, NEW w \in Workers, NEW new, Sound(new), Becomes(w, new)
  PROVE  /\ worker' \in [Workers -> WorkerState]
         /\ worker'[w] = new
         /\ \A v \in Workers \ {w} : worker'[v] = worker[v]
<1>1. worker \in [Workers -> WorkerState] /\ new \in WorkerState
      /\ worker' = [worker EXCEPT ![w] = new]
  BY DEF WorkersSound, Sound, Becomes
<1> QED BY <1>1, Zenon

LEMMA OneMoves ==
  ASSUME WorkersSound, NEW w \in Workers, NEW new, Follows(worker[w], new),
         Becomes(w, new)
  PROVE  WorkersMove /\ (~Submits(new) => WorkersQuiet)
<1>1. \A v \in Workers : Follows(worker[v], worker[v])
  BY DEF WorkersSound, Follows
<1>2. Sound(new)
  BY DEF Follows
<1> QED BY <1>1, <1>2, OneWorker DEF WorkersMove, WorkersQuiet

LEMMA NoneMoves ==
  ASSUME WorkersSound, worker' = worker PROVE WorkersMove /\ WorkersQuiet
BY DEF WorkersSound, WorkersMove, WorkersQuiet, Follows

LEMMA IdleMoves ==
  ASSUME WorkersSound, NEW w \in Workers, Becomes(w, Idle)
  PROVE  WorkersMove /\ WorkersQuiet
<1>1. Follows(worker[w], Idle) /\ ~Submits(Idle)
  BY IdleSound DEF Follows
<1> QED BY <1>1, OneMoves

LEMMA FailingMoves ==
  ASSUME WorkersSound, NEW w \in Workers, worker[w].delivery # NoDelivery,
         NEW f \in Failure, Becomes(w, Failing(w, f))
  PROVE  WorkersMove /\ WorkersQuiet
<1>1. Follows(worker[w], Failing(w, f)) /\ ~Submits(Failing(w, f))
  BY FailingSound DEF WorkersSound
<1> QED BY <1>1, OneMoves

LEMMA Busy ==
  ASSUME WorkersSound, NEW w \in Workers, worker[w].pc \notin {"idle", "polling"}
  PROVE  worker[w].delivery \in Deliveries /\ worker[w].delivery # NoDelivery
BY DEF WorkersSound, Sound, WorkerState

\* The steps of a worker that neither claim nor write a table.
LEMMA LocalMoves ==
  ASSUME WorkersSound, NEW w \in Workers,
         \/ Poll(w) \/ FetchPullRequest(w) \/ LeaseLost(w) \/ DatabaseError(w)
         \/ ScheduleFailure(w) \/ Crash(w)
  PROVE  WorkersMove /\ WorkersQuiet
<1>1. CASE Poll(w)
  <2> DEFINE new == [Idle EXCEPT !.pc = "polling"]
  <2>1. Becomes(w, new)
    BY <1>1 DEF Poll
  <2>2. Follows(worker[w], new) /\ ~Submits(new)
    BY IdleSound DEF Follows
  <2> HIDE DEF new
  <2> QED BY <2>1, <2>2, OneMoves
<1>2. CASE FetchPullRequest(w)
  <2>1. worker[w].pc = "claimed"
    BY <1>2 DEF FetchPullRequest
  <2>2. worker[w].delivery # NoDelivery
    BY <2>1, Busy
  <2>3. ASSUME NEW s \in Snapshots,
               Becomes(w, [worker[w] EXCEPT !.pc = "fetched", !.snapshot = s])
        PROVE  WorkersMove /\ WorkersQuiet
    <3> DEFINE new == [worker[w] EXCEPT !.pc = "fetched", !.snapshot = s]
    <3>1. Follows(worker[w], new) /\ ~Submits(new)
      BY <2>1, FetchedSound DEF WorkersSound
    <3>2. Becomes(w, new)
      BY <2>3
    <3> HIDE DEF new
    <3> QED BY <3>1, <3>2, OneMoves
  <2>4. ASSUME NEW f \in {"retryable", "permanent"}, Becomes(w, Failing(w, f))
        PROVE  WorkersMove /\ WorkersQuiet
    BY <2>2, <2>4, FailingMoves DEF Failure
  <2> QED BY <1>2, <2>3, <2>4 DEF FetchPullRequest
<1>3. CASE LeaseLost(w)
  <2>1. worker[w].delivery # NoDelivery
    BY <1>3, Busy DEF LeaseLost
  <2> QED BY <1>3, <2>1, FailingMoves DEF LeaseLost, Failure
<1>4. CASE DatabaseError(w)
  <2>1. worker[w].delivery # NoDelivery
    BY <1>4, Busy DEF DatabaseError
  <2> QED BY <1>4, <2>1, FailingMoves DEF DatabaseError, Failure
<1>5. CASE ScheduleFailure(w)
  BY <1>5, IdleMoves DEF ScheduleFailure
<1>6. CASE Crash(w)
  BY <1>6, IdleMoves DEF Crash
<1> QED BY <1>1, <1>2, <1>3, <1>4, <1>5, <1>6

\* The answer of a commit arrives or is lost.
LEMMA ResponseMoves ==
  ASSUME WorkersSound, NEW w \in Workers, worker[w].delivery # NoDelivery,
         NEW new, Follows(worker[w], new), Responds(w, new)
  PROVE  WorkersMove
<1>1. CASE Becomes(w, new)
  BY <1>1, OneMoves
<1>2. CASE Becomes(w, Failing(w, "permanent"))
  BY <1>2, FailingMoves DEF Failure
<1> QED BY <1>1, <1>2 DEF Responds

LEMMA PersistMoves ==
  ASSUME WorkersSound, NEW w \in Workers, PersistSnapshot(w) PROVE WorkersMove
<1> DEFINE r == worker[w]
           new == [r EXCEPT !.pc = "submitting", !.todo = Analyzable(r.snapshot)]
<1>1. Sound(r) /\ r.pc = "fetched" /\ r.delivery # NoDelivery
  BY Busy DEF WorkersSound, PersistSnapshot
<1>2. Follows(r, new)
  BY <1>1, StoredSound
<1>3. Responds(w, new) \/ Becomes(w, Failing(w, "permanent"))
  BY DEF PersistSnapshot
<1> HIDE DEF new
<1> QED BY <1>1, <1>2, <1>3, ResponseMoves, FailingMoves DEF Failure

LEMMA SubmitMoves ==
  ASSUME WorkersSound, NEW w \in Workers, SubmitJob(w) PROVE WorkersMove
<1> DEFINE r == worker[w]
           new == [r EXCEPT !.pc = "linking"]
<1>1. Sound(r) /\ r.pc = "submitting" /\ r.todo # {} /\ r.delivery # NoDelivery
  BY Busy DEF WorkersSound, SubmitJob
<1>2. Follows(r, new)
  BY <1>1, SubmittedSound
<1>3. Responds(w, new) \/ Becomes(w, Failing(w, "permanent"))
  BY DEF SubmitJob
<1> HIDE DEF new
<1> QED BY <1>1, <1>2, <1>3, ResponseMoves, FailingMoves DEF Failure

LEMMA LinkMoves ==
  ASSUME WorkersSound, NEW w \in Workers, LinkJob(w) PROVE WorkersMove
<1> DEFINE r == worker[w]
           f == NextFile(w)
           new == [r EXCEPT !.pc = "submitting", !.todo = r.todo \ {f}]
<1>1. Sound(r) /\ r.pc = "linking" /\ r.delivery # NoDelivery
  BY Busy DEF WorkersSound, LinkJob
<1>2. Follows(r, new)
  BY <1>1, LinkedSound
<1>3. Responds(w, new)
  BY DEF LinkJob
<1> HIDE DEF new
<1> QED BY <1>1, <1>2, <1>3, ResponseMoves

LEMMA CompleteMoves ==
  ASSUME WorkersSound, NEW w \in Workers, Complete(w)
  PROVE  WorkersMove /\ WorkersQuiet
<1>1. worker[w].delivery # NoDelivery
  BY Busy DEF Complete
<1> QED BY <1>1, IdleMoves, FailingMoves DEF Complete, Responds, Failure
-----------------------------------------------------------------------------
(* What a step does, by what it may change.                                *)

RowsGrow ==
  /\ delivery' \in [Deliveries -> DeliveryRow]
  /\ \A d \in Deliveries :
       RowOK(delivery'[d]) /\ delivery'[d].attempts >= delivery[d].attempts

\* A row that is completed was so before, or is by this worker.
CompletedBy(w) ==
  \A d \in Deliveries :
    delivery'[d].status = "completed" =>
      \/ /\ delivery[d].status = "completed"
         /\ delivery'[d].files = delivery[d].files
      \/ /\ worker[w].pc = "submitting" /\ worker[w].todo = {} /\ Owned(w)
         /\ d = worker[w].delivery
         /\ delivery'[d].files = Analyzable(worker[w].snapshot)

\* A worker takes a delivery under a token of its own.
Takes(w, d) ==
  /\ worker' \in [Workers -> WorkerState]
  /\ Sound(worker'[w]) /\ ~Submits(worker'[w])
  /\ worker'[w].delivery = d
  /\ worker'[w].token = delivery[d].attempts + 1
  /\ delivery'[d].attempts = delivery[d].attempts + 1
  /\ \A v \in Workers \ {w} : worker'[v] = worker[v]

Writes(w) == PersistSnapshot(w) \/ SubmitJob(w) \/ LinkJob(w)

LEMMA RowsMoveGrow == ASSUME RowsMove PROVE RowsGrow
BY DEF RowsMove, RowsGrow, Moves

LEMMA CompleteRows ==
  ASSUME TypeInv, NEW w \in Workers, Complete(w)
  PROVE  RowsGrow /\ CompletedBy(w)
<1> DEFINE r == worker[w]
           d == r.delivery
           old == delivery[d]
           F == Analyzable(r.snapshot)
           row == CompletedWith(old, F)
<1>1. RowsOK /\ d \in Deliveries /\ r.pc = "submitting" /\ r.todo = {} /\ Owned(w)
  BY Busy DEF TypeInv, Complete
<1>2. RowOK(old) /\ old.attempts \in Nat
  BY <1>1, SMT DEF RowsOK, RowOK, DeliveryRow
<1>3. F \in SUBSET Files
  BY DEF Analyzable
<1>4. delivery' = [delivery EXCEPT ![d] = row]
  BY DEF Complete, CompletedWith
<1>5. RowOK(row) /\ row.attempts = old.attempts /\ row.files = F
  BY <1>2, <1>3, CompletedRow
<1> HIDE DEF row
<1>6. /\ delivery' \in [Deliveries -> DeliveryRow] /\ delivery'[d] = row
      /\ \A e \in Deliveries \ {d} : delivery'[e] = delivery[e]
  BY <1>1, <1>4, <1>5, OneRow
<1>7. ASSUME NEW e \in Deliveries
      PROVE  RowOK(delivery'[e]) /\ delivery'[e].attempts >= delivery[e].attempts
  <2>1. RowOK(delivery[e]) /\ delivery[e].attempts \in Nat
    BY <1>1, SMT DEF RowsOK, RowOK, DeliveryRow
  <2> QED BY <1>2, <1>5, <1>6, <2>1, SMT
<1>8. RowsGrow
  BY <1>6, <1>7 DEF RowsGrow
<1>9. CompletedBy(w)
  BY <1>1, <1>5, <1>6 DEF CompletedBy
<1> QED BY <1>8, <1>9

LEMMA ClaimTakes ==
  ASSUME TypeInv, NEW w \in Workers, ClaimNext(w)
  PROVE  /\ RowsMove
         /\ (WorkersMove /\ WorkersQuiet) \/ \E d \in Deliveries : Takes(w, d)
<1>0. RowsOK /\ WorkersSound
  BY DEF TypeInv
<1>1. CASE Becomes(w, Idle) /\ UNCHANGED delivery
  BY <1>0, <1>1, IdleMoves, NoMove
<1>2. ASSUME NEW d \in Deliveries, Claimable(delivery[d]),
             delivery' = [delivery EXCEPT ![d] = Leased(delivery[d])],
             Becomes(w, [Idle EXCEPT !.pc = "claimed", !.delivery = d,
                                     !.token = FreshToken(delivery[d])])
      PROVE  RowsMove /\ Takes(w, d)
  <2> DEFINE t == FreshToken(delivery[d])
             new == [Idle EXCEPT !.pc = "claimed", !.delivery = d, !.token = t]
  <2>1. /\ RowsMove /\ t \in 1..MaxAttempts /\ t = delivery[d].attempts + 1
        /\ delivery'[d].attempts = delivery[d].attempts + 1
    BY <1>0, <1>2, ClaimMoves
  <2>2. Becomes(w, new)
    BY <1>2
  <2> HIDE DEF t
  <2>3. Sound(new) /\ new.delivery = d /\ new.token = t /\ ~Submits(new)
    BY <2>1, ClaimedSound
  <2> HIDE DEF new
  <2>4. /\ worker' \in [Workers -> WorkerState] /\ worker'[w] = new
        /\ \A v \in Workers \ {w} : worker'[v] = worker[v]
    BY <1>0, <2>2, <2>3, OneWorker
  <2> QED BY <2>1, <2>3, <2>4 DEF Takes
<1> QED BY <1>1, <1>2 DEF ClaimNext

\* Every step, by the rows it moves, the workers and the tables.
LEMMA Effects ==
  ASSUME TypeInv, [Next]_vars
  PROVE  /\ RowsGrow
         /\ RowsMove \/ \E w \in Workers : CompletedBy(w)
         /\ WorkersMove \/ \E w \in Workers, d \in Deliveries : Takes(w, d)
         /\ (tables' = tables /\ WorkersQuiet) \/ \E w \in Workers : Writes(w)
         /\ receipt' = receipt \/ \E d \in Deliveries : RecordLifecycle(d)
<1>0. RowsOK /\ WorkersSound
  BY DEF TypeInv
<1>1. CASE UNCHANGED vars
  <2>1. delivery' = delivery /\ worker' = worker /\ tables' = tables
        /\ receipt' = receipt
    BY <1>1 DEF vars, tables, receipt
  <2> QED BY <1>0, <2>1, NoMove, NoneMoves, RowsMoveGrow
<1>2. ASSUME NEW d \in Deliveries, RecordLifecycle(d)
      PROVE  RowsMove /\ WorkersMove /\ WorkersQuiet /\ tables' = tables
  BY <1>0, <1>2, NoMove, NoneMoves DEF RecordLifecycle, tables
<1>3. ASSUME NEW d \in Deliveries,
             RecordDelivery(d) \/ LeaseTick(d) \/ DelayElapses(d)
      PROVE  /\ RowsMove /\ WorkersMove /\ WorkersQuiet /\ tables' = tables
             /\ receipt' = receipt
  <2>1. worker' = worker /\ tables' = tables /\ receipt' = receipt
    BY <1>3 DEF RecordDelivery, LeaseTick, DelayElapses, tables, receipt
  <2>2. RowsMove
    BY <1>0, <1>3, ReceiptMoves, TickMoves, DelayMoves
  <2> QED BY <1>0, <2>1, <2>2, NoneMoves
<1>4. ASSUME NEW w \in Workers,
             \/ Poll(w) \/ FetchPullRequest(w) \/ LeaseLost(w)
             \/ DatabaseError(w) \/ ScheduleFailure(w) \/ Crash(w)
      PROVE  /\ RowsMove /\ WorkersMove /\ WorkersQuiet /\ tables' = tables
             /\ receipt' = receipt
  <2>1. tables' = tables /\ receipt' = receipt
    BY <1>4 DEF Poll, FetchPullRequest, LeaseLost, DatabaseError,
                ScheduleFailure, Crash, tables, receipt
  <2>2. RowsMove
    <3>1. CASE Poll(w)
      BY <1>0, <3>1, PollMoves
    <3>2. CASE ScheduleFailure(w)
      BY <3>2, ScheduleMoves
    <3>3. CASE delivery' = delivery
      BY <1>0, <3>3, NoMove
    <3> QED BY <1>4, <3>1, <3>2, <3>3 DEF FetchPullRequest, LeaseLost,
                                          DatabaseError, Crash
  <2> QED BY <1>0, <1>4, <2>1, <2>2, LocalMoves
<1>5. ASSUME NEW w \in Workers, ClaimNext(w)
      PROVE  /\ RowsMove /\ tables' = tables /\ receipt' = receipt /\ WorkersQuiet
             /\ WorkersMove \/ \E d \in Deliveries : Takes(w, d)
  <2>1. tables' = tables /\ receipt' = receipt
    BY <1>5 DEF ClaimNext, tables, receipt
  <2>2. \A d \in Deliveries : Takes(w, d) => WorkersQuiet
    BY DEF Takes, WorkersQuiet
  <2> QED BY <1>5, <2>1, <2>2, ClaimTakes
<1>6. ASSUME NEW w \in Workers, Writes(w)
      PROVE  RowsMove /\ WorkersMove /\ receipt' = receipt
  <2>1. delivery' = delivery /\ receipt' = receipt
    BY <1>6 DEF Writes, PersistSnapshot, SubmitJob, LinkJob, receipt
  <2>2. WorkersMove
    BY <1>0, <1>6, PersistMoves, SubmitMoves, LinkMoves DEF Writes
  <2> QED BY <1>0, <2>1, <2>2, NoMove
<1>7. ASSUME NEW w \in Workers, Complete(w)
      PROVE  /\ RowsGrow /\ CompletedBy(w) /\ WorkersMove /\ WorkersQuiet
             /\ tables' = tables /\ receipt' = receipt
  <2>1. tables' = tables /\ receipt' = receipt
    BY <1>7 DEF Complete, tables, receipt
  <2> QED BY <1>0, <1>7, <2>1, CompleteRows, CompleteMoves
<1> QED
  <2>1. CASE \E d \in Deliveries :
               \/ RecordLifecycle(d) \/ RecordDelivery(d)
               \/ LeaseTick(d) \/ DelayElapses(d)
    BY <1>2, <1>3, <2>1, RowsMoveGrow
  <2>2. CASE \E w \in Workers : RunOnce(w) \/ Crash(w)
    <3>1. PICK w \in Workers : RunOnce(w) \/ Crash(w)
      BY <2>2
    <3>2. CASE Complete(w)
      BY <1>7, <3>2
    <3>3. CASE Writes(w)
      BY <1>6, <3>3, RowsMoveGrow
    <3>4. CASE ClaimNext(w)
      BY <1>5, <3>4, RowsMoveGrow
    <3>5. CASE \/ Poll(w) \/ FetchPullRequest(w) \/ LeaseLost(w)
               \/ DatabaseError(w) \/ ScheduleFailure(w) \/ Crash(w)
      BY <1>4, <3>5, RowsMoveGrow
    <3> QED BY <3>1, <3>2, <3>3, <3>4, <3>5 DEF RunOnce, Writes
  <2> QED BY <1>1, <2>1, <2>2 DEF Next
-----------------------------------------------------------------------------
(* Types.                                                                  *)

LEMMA InitTypeInv == Init => TypeInv
<1> SUFFICES ASSUME Init PROVE TypeInv
  OBVIOUS
<1>1. RowOK(AbsentDelivery)
  BY Values, SMT DEF RowOK, AbsentDelivery, DeliveryRow
<1>2. LogType
  BY DEF Init, LogType
<1>3. TablesType
  BY DEF Init, TablesType
<1>4. RowsOK
  BY <1>1 DEF Init, RowsOK, RowOK
<1>5. WorkersSound
  BY IdleSound DEF Init, WorkersSound, Sound
<1> QED BY <1>2, <1>3, <1>4, <1>5 DEF TypeInv

LEMMA LogKept ==
  ASSUME TypeInv, NEW d \in Deliveries, RecordLifecycle(d) PROVE LogType'
<1>1. received' \subseteq Deliveries
  BY DEF TypeInv, LogType, RecordLifecycle
<1>2. latest' \in [Pulls -> Deliveries \cup {NoDelivery}]
  <2>1. [latest EXCEPT ![Event[d].pull] = d]
          \in [Pulls -> Deliveries \cup {NoDelivery}]
    BY FunctionUpdate, Zenon DEF TypeInv, LogType
  <2> QED BY <2>1 DEF TypeInv, LogType, RecordLifecycle
<1> QED BY <1>1, <1>2 DEF LogType

\* The snapshot of a busy worker gives each analyzable file a diff.
LEMMA SnapshotDiffs ==
  ASSUME NEW r, Sound(r), NEW f \in Analyzable(r.snapshot)
  PROVE  f \in Files /\ r.snapshot[f] \in Diffs /\ r.snapshot[f] # "none"
<1>1. r.snapshot \in Snapshots
  <2>1. r.snapshot # Nothing
    BY NothingAnalyzable
  <2>2. r.snapshot \in Snapshots \cup {Nothing}
    BY SMT DEF Sound, WorkerState
  <2> QED BY <2>1, <2>2
<1>2. f \in Files /\ r.snapshot[f] # "skip"
  BY DEF Analyzable
<1>3. r.snapshot[f] \in Diffs \cup {"skip"}
  BY <1>1, <1>2, IngestionAssumption DEF IngestionAssumption
<1> QED BY <1>2, <1>3, IngestionAssumption DEF IngestionAssumption

LEMMA KeyType ==
  ASSUME WorkersSound, NEW w \in Workers, worker[w].delivery # NoDelivery,
         NEW f \in Files
  PROVE  /\ Key(w, f) \in Pulls \X Heads \X Files
         /\ Key(w, f)[2] = Event[worker[w].delivery].head
         /\ Key(w, f)[3] = f
         /\ worker[w].delivery \in Deliveries
         /\ Event[worker[w].delivery].head \in Heads
<1>1. worker[w].delivery \in Deliveries
  BY SMT DEF WorkersSound, Sound, WorkerState
<1>2. /\ Event[worker[w].delivery].pull \in Pulls
      /\ Event[worker[w].delivery].head \in Heads
  BY <1>1 DEF Pulls, Heads
<1> QED BY <1>1, <1>2 DEF Key

\* The file a worker is at is one of its snapshot's.
LEMMA NextFileType ==
  ASSUME WorkersSound, NEW w \in Workers, worker[w].todo # {}
  PROVE  /\ NextFile(w) \in worker[w].todo
         /\ NextFile(w) \in Analyzable(worker[w].snapshot)
         /\ NextFile(w) \in Files
<1>1. NextFile(w) \in worker[w].todo
  BY DEF NextFile
<1> QED BY <1>1 DEF WorkersSound, Sound, Analyzable

LEMMA TablesKept ==
  ASSUME TypeInv, NEW w \in Workers, Writes(w) PROVE TablesType'
<1>0. WorkersSound /\ Sound(worker[w])
  BY DEF TypeInv, WorkersSound
<1>1. CASE PersistSnapshot(w)
  <2> DEFINE s == worker[w].snapshot
             h == Event[worker[w].delivery].head
             rows == Inserted(stored[h], s)
  <2>1. UNCHANGED <<job, link>>
    BY <1>1 DEF PersistSnapshot
  <2>2. h \in Heads
    BY <1>0, <1>1, Busy DEF PersistSnapshot, Heads
  <2>3. rows \in [Files -> Diffs \cup {"none"}]
    <3>1. stored[h] \in [Files -> Diffs \cup {"none"}]
      BY <2>2 DEF TypeInv, TablesType
    <3>2. \A f \in Analyzable(s) : s[f] \in Diffs
      BY <1>0, SnapshotDiffs
    <3> QED BY <3>1, <3>2 DEF Inserted
  <2>4. stored' \in {stored, [stored EXCEPT ![h] = rows]}
    BY <1>1 DEF PersistSnapshot
  <2> HIDE DEF rows, h
  <2>5. [stored EXCEPT ![h] = rows] \in [Heads -> [Files -> Diffs \cup {"none"}]]
    BY <2>3, FunctionUpdate, Zenon DEF TypeInv, TablesType
  <2> QED BY <2>1, <2>4, <2>5 DEF TypeInv, TablesType
<1>2. CASE SubmitJob(w)
  <2> DEFINE f == NextFile(w)
             k == Key(w, f)
             diff == worker[w].snapshot[f]
  <2>1. UNCHANGED <<stored, link>> /\ job' \in {job, [job EXCEPT ![k] = diff]}
    BY <1>2 DEF SubmitJob
  <2>2. diff \in Diffs \cup {"none"}
    BY <1>0, <1>2, NextFileType, SnapshotDiffs DEF SubmitJob
  <2> HIDE DEF k, diff
  <2>3. [job EXCEPT ![k] = diff] \in [Pulls \X Heads \X Files -> Diffs \cup {"none"}]
    BY <2>2, FunctionUpdate, Zenon DEF TypeInv, TablesType
  <2> QED BY <2>1, <2>3 DEF TypeInv, TablesType
<1>3. CASE LinkJob(w)
  <2>1. worker[w].todo # {} /\ worker[w].delivery \in Deliveries
    BY <1>0, <1>3, Busy DEF Sound, LinkJob
  <2>2. NextFile(w) \in Files
    BY <1>0, <2>1, NextFileType
  <2> QED BY <1>3, <2>1, <2>2 DEF LinkJob, TypeInv, TablesType
<1> QED BY <1>1, <1>2, <1>3 DEF Writes

LEMMA NextTypeInv == TypeInv /\ [Next]_vars => TypeInv'
<1> SUFFICES ASSUME TypeInv, [Next]_vars PROVE TypeInv'
  OBVIOUS
<1>1. LogType'
  <2>1. CASE receipt' = receipt
    BY <2>1 DEF TypeInv, LogType, receipt
  <2> QED BY <2>1, Effects, LogKept
<1>2. TablesType'
  <2>1. CASE tables' = tables
    BY <2>1 DEF TypeInv, TablesType, tables
  <2> QED BY <2>1, Effects, TablesKept
<1>3. RowsOK'
  BY Effects DEF RowsGrow, RowsOK
<1>4. WorkersSound'
  <2>1. CASE WorkersMove
    BY <2>1 DEF WorkersMove, Follows, WorkersSound
  <2>2. ASSUME NEW w \in Workers, NEW d \in Deliveries, Takes(w, d)
        PROVE  WorkersSound'
    BY <2>2 DEF Takes, WorkersSound, TypeInv
  <2> QED BY <2>1, <2>2, Effects
<1> QED BY <1>1, <1>2, <1>3, <1>4 DEF TypeInv

LEMMA Typed == Spec => []TypeInv
BY InitTypeInv, NextTypeInv, PTL DEF Spec

\* The type invariant, with the constraints of migration 014.
THEOREM TypeCorrect == Spec => []TypeOK
<1>1. TypeInv => TypeOK
  BY DEF TypeInv, LogType, TablesType, RowsOK, RowOK, WorkersSound, TypeOK
<1> QED BY <1>1, Typed, PTL

-----------------------------------------------------------------------------
(* Leases.                                                                 *)

Held(w) == worker[w].delivery # NoDelivery

\* A token was issued by the delivery, and to one worker.
TokenInv ==
  /\ \A w \in Workers :
       Held(w) => worker[w].token <= delivery[worker[w].delivery].attempts
  /\ \A v, w \in Workers :
       v # w /\ Held(v) /\ worker[v].delivery = worker[w].delivery
         => worker[v].token # worker[w].token

LEMMA NextTokenInv == TypeInv /\ TokenInv /\ [Next]_vars => TokenInv'
<1> SUFFICES ASSUME TypeInv, TokenInv, [Next]_vars PROVE TokenInv'
  OBVIOUS
<1>1. /\ \A w \in Workers : Held(w) => worker[w].delivery \in Deliveries
      /\ \A w \in Workers : worker[w].token \in Nat
      /\ \A d \in Deliveries : delivery[d].attempts \in Nat
                              /\ delivery'[d].attempts \in Nat
      /\ \A d \in Deliveries : delivery'[d].attempts >= delivery[d].attempts
  <2>1. RowsGrow
    BY Effects
  <2> QED BY <2>1, SMT DEF RowsGrow, TypeInv, WorkersSound, Sound, WorkerState,
                           Held, RowsOK, RowOK, DeliveryRow
<1>2. CASE WorkersMove
  <2>1. \A w \in Workers : Held(w)' =>
          /\ Held(w) /\ worker'[w].delivery = worker[w].delivery
          /\ worker'[w].token = worker[w].token
    BY <1>2 DEF WorkersMove, Follows, Held
  <2>2. ASSUME NEW w \in Workers, Held(w)'
        PROVE  worker'[w].token <= delivery'[worker'[w].delivery].attempts
    <3>1. /\ worker[w].delivery \in Deliveries
          /\ worker[w].token <= delivery[worker[w].delivery].attempts
      BY <1>1, <2>1, <2>2 DEF TokenInv
    <3> QED BY <1>1, <2>1, <2>2, <3>1, SMT
  <2>3. ASSUME NEW v \in Workers, NEW w \in Workers, v # w, Held(v)',
               worker'[v].delivery = worker'[w].delivery
        PROVE  worker'[v].token # worker'[w].token
    BY <2>1, <2>3 DEF TokenInv, Held
  <2> QED BY <2>2, <2>3 DEF TokenInv
<1>3. ASSUME NEW u \in Workers, NEW d \in Deliveries, Takes(u, d)
      PROVE  TokenInv'
  <2>1. ASSUME NEW w \in Workers, Held(w)'
        PROVE  worker'[w].token <= delivery'[worker'[w].delivery].attempts
    <3>1. CASE w = u
      BY <1>1, <1>3, <3>1, SMT DEF Takes
    <3>2. CASE w # u
      <4>1. worker'[w] = worker[w] /\ Held(w)
        BY <1>3, <2>1, <3>2 DEF Takes, Held
      <4>2. /\ worker[w].delivery \in Deliveries
            /\ worker[w].token <= delivery[worker[w].delivery].attempts
        BY <1>1, <4>1 DEF TokenInv
      <4> QED BY <1>1, <4>1, <4>2, SMT
    <3> QED BY <3>1, <3>2
  <2>2. ASSUME NEW w \in Workers \ {u}, worker'[w].delivery = d
        PROVE  worker'[w].token # worker'[u].token
    <3>1. worker'[w] = worker[w] /\ Held(w) /\ worker[w].delivery = d
      BY <1>3, <2>2, IngestionAssumption DEF Takes, Held, IngestionAssumption
    <3>2. worker[w].token <= delivery[d].attempts
      BY <3>1 DEF TokenInv
    <3> QED BY <1>1, <1>3, <3>1, <3>2, SMT DEF Takes
  <2>3. ASSUME NEW v \in Workers, NEW w \in Workers, v # w, Held(v)',
               worker'[v].delivery = worker'[w].delivery
        PROVE  worker'[v].token # worker'[w].token
    <3>1. worker'[u].delivery = d
      BY <1>3 DEF Takes
    <3>2. CASE v = u \/ w = u
      BY <2>2, <2>3, <3>1, <3>2
    <3>3. CASE v # u /\ w # u
      BY <1>3, <2>3, <3>3 DEF Takes, TokenInv, Held
    <3> QED BY <3>2, <3>3
  <2> QED BY <2>1, <2>3 DEF TokenInv
<1> QED BY <1>2, <1>3, Effects

\* However many workers poll, and however late the loser of a lease comes
\* back: no two carry the token that a delivery accepts.
THEOREM IngestionExclusive == Spec => []OneIngestor
<1>1. Init => TokenInv
  BY DEF Init, TokenInv, Held, Idle
<1>2. TokenInv => OneIngestor
  BY DEF TokenInv, OneIngestor, Held, Carries
<1> QED BY <1>1, <1>2, NextTokenInv, Typed, PTL DEF Spec

-----------------------------------------------------------------------------
(* The projection.                                                         *)

\* A pull request without a row has no event.
LogInv ==
  /\ ProjectionIsNewest
  /\ \A p \in Pulls : latest[p] # NoDelivery =>
       latest[p] \in received /\ Event[latest[p]].pull = p

LEMMA RecordKeepsLog ==
  ASSUME TypeInv, LogInv, NEW d \in Deliveries, RecordLifecycle(d)
  PROVE  LogInv'
<1> DEFINE p == Event[d].pull
<1>1. /\ received' = received \cup {d} /\ p \in Pulls
      /\ received \subseteq Deliveries
      /\ latest \in [Pulls -> Deliveries \cup {NoDelivery}]
      /\ NoDelivery \notin Deliveries
      /\ \A e \in Deliveries : Event[e].at \in Nat /\ Event[e].pull \in Pulls
  BY IngestionAssumption DEF TypeInv, LogType, RecordLifecycle, Pulls,
                             IngestionAssumption
<1>2. CASE Current(d)
  <2>1. latest' = [latest EXCEPT ![p] = d]
    BY <1>2 DEF RecordLifecycle
  <2>2. latest'[p] = d /\ \A q \in Pulls \ {p} : latest'[q] = latest[q]
    BY <1>1, <2>1, Zenon
  <2>3. ASSUME NEW e \in received'
        PROVE  LET last == latest'[Event[e].pull] IN
               /\ last \in received' /\ Event[last].pull = Event[e].pull
               /\ Event[e].at <= Event[last].at
    <3>1. CASE e = d
      BY <1>1, <2>2, <3>1, SMT
    <3>2. CASE e # d /\ Event[e].pull # p
      BY <1>1, <2>2, <2>3, <3>2 DEF LogInv, ProjectionIsNewest
    <3>3. CASE e # d /\ Event[e].pull = p
      <4>1. /\ latest[p] \in received
            /\ Event[e].at <= Event[latest[p]].at
        BY <1>1, <2>3, <3>3 DEF LogInv, ProjectionIsNewest
      <4>2. latest[p] # NoDelivery /\ latest[p] \in Deliveries
        BY <1>1, <4>1
      <4>3. Event[latest[p]].at <= Event[d].at
        BY <1>2, <4>2 DEF Current
      <4> QED BY <1>1, <2>2, <2>3, <3>3, <4>1, <4>2, <4>3, SMT
    <3> QED BY <3>1, <3>2, <3>3
  <2>4. \A q \in Pulls : latest'[q] # NoDelivery =>
          latest'[q] \in received' /\ Event[latest'[q]].pull = q
    BY <1>1, <2>2 DEF LogInv
  <2> QED BY <2>3, <2>4 DEF LogInv, ProjectionIsNewest
<1>3. CASE ~Current(d)
  <2>1. latest' = latest
    BY <1>3 DEF RecordLifecycle
  <2>2. /\ latest[p] \in received /\ Event[latest[p]].pull = p
        /\ latest[p] # NoDelivery /\ ~(Event[latest[p]].at <= Event[d].at)
    BY <1>1, <1>3 DEF Current, LogInv
  <2>3. Event[d].at <= Event[latest[p]].at
    BY <1>1, <2>2, SMT
  <2> QED BY <1>1, <2>1, <2>2, <2>3 DEF LogInv, ProjectionIsNewest
<1> QED BY <1>2, <1>3

LEMMA NextLogInv == TypeInv /\ LogInv /\ [Next]_vars => LogInv'
<1> SUFFICES ASSUME TypeInv, LogInv, [Next]_vars PROVE LogInv'
  OBVIOUS
<1>1. CASE receipt' = receipt
  BY <1>1 DEF LogInv, ProjectionIsNewest, receipt
<1> QED BY <1>1, Effects, RecordKeepsLog

\* GitHub may deliver in any order and again: the row of a pull request is
\* the newest update that was received.
THEOREM ProjectionFollows == Spec => []ProjectionIsNewest
<1>1. Init => LogInv
  BY DEF Init, LogInv, ProjectionIsNewest
<1>2. LogInv => ProjectionIsNewest
  BY DEF LogInv
<1> QED BY <1>1, <1>2, NextLogInv, Typed, PTL DEF Spec

-----------------------------------------------------------------------------
(* The tables that grow.                                                   *)

KeyOf(r, f) == <<Event[r.delivery].pull, Event[r.delivery].head, f>>

\* What a worker past persist_snapshot relies on, of the tables s, j and l:
\* its snapshot is stored, the files it is done with have a job and a link,
\* and so far as it has submitted the one it is at, that one has a job.
Relies(r, s, j, l) ==
  Submits(r) =>
    /\ \A f \in Analyzable(r.snapshot) :
         s[Event[r.delivery].head][f] = r.snapshot[f]
    /\ \A f \in Analyzable(r.snapshot) \ r.todo :
         <<r.delivery, f>> \in l /\ j[KeyOf(r, f)] # "none"
    /\ r.pc = "linking" => j[KeyOf(r, CHOOSE f \in r.todo : TRUE)] # "none"

Reliable == \A w \in Workers : Relies(worker[w], stored, job, link)

TableInv == JobsMatchSnapshots /\ CompletedCoversFiles /\ Reliable

\* What is stored stays, as RecordsAreFinal says.
TablesGrow ==
  /\ \A h \in Heads, f \in Files :
       stored[h][f] # "none" => stored'[h][f] = stored[h][f]
  /\ \A k \in Pulls \X Heads \X Files : job[k] # "none" => job'[k] = job[k]
  /\ link \subseteq link'

LEMMA StillRelies ==
  ASSUME TypeInv, TablesGrow, NEW r, Sound(r), Relies(r, stored, job, link)
  PROVE  Relies(r, stored', job', link')
<1> SUFFICES ASSUME Submits(r)
             PROVE  Relies(r, stored', job', link')
  BY DEF Relies
<1>1. r.delivery \in Deliveries /\ r.todo \subseteq Analyzable(r.snapshot)
  BY SMT DEF Sound, WorkerState, Submits
<1>2. /\ Event[r.delivery].head \in Heads
      /\ \A f \in Files : KeyOf(r, f) \in Pulls \X Heads \X Files
  BY <1>1 DEF KeyOf, Heads, Pulls
<1>3. ASSUME NEW f \in Analyzable(r.snapshot)
      PROVE  stored'[Event[r.delivery].head][f] = r.snapshot[f]
  <2>1. f \in Files /\ r.snapshot[f] # "none"
    BY SnapshotDiffs
  <2> QED BY <1>2, <2>1 DEF Relies, TablesGrow
<1>4. ASSUME NEW f \in Files, job[KeyOf(r, f)] # "none"
      PROVE  job'[KeyOf(r, f)] # "none"
  BY <1>2, <1>4 DEF TablesGrow
<1>5. \A f \in Analyzable(r.snapshot) : f \in Files
  BY DEF Analyzable
<1>6. ASSUME NEW f \in Analyzable(r.snapshot) \ r.todo
      PROVE  <<r.delivery, f>> \in link' /\ job'[KeyOf(r, f)] # "none"
  BY <1>4, <1>5 DEF Relies, TablesGrow
<1>7. ASSUME r.pc = "linking"
      PROVE  job'[KeyOf(r, CHOOSE f \in r.todo : TRUE)] # "none"
  <2>1. r.todo # {}
    BY <1>7 DEF Sound
  <2>2. (CHOOSE f \in r.todo : TRUE) \in Files
    BY <1>1, <1>5, <2>1
  <2> QED BY <1>4, <1>7, <2>2 DEF Relies
<1> QED BY <1>3, <1>6, <1>7 DEF Relies

\* A step keeps the tables in order if it lets them grow, submits only what
\* is stored, completes only what is covered, and leaves no worker mistaken.
LEMMA TableInvKept ==
  ASSUME TypeInv, TableInv, TablesGrow,
         \A k \in Pulls \X Heads \X Files :
           job'[k] = job[k] \/ job'[k] = stored'[k[2]][k[3]],
         \A w \in Workers :
           worker'[w] = worker[w] \/ Relies(worker'[w], stored', job', link'),
         RowsMove \/ \E w \in Workers : CompletedBy(w),
         [Next]_vars
  PROVE  TableInv'
<1>1. DOMAIN job = Pulls \X Heads \X Files
  BY DEF TypeInv, TablesType
<1>2. ASSUME NEW k \in Pulls \X Heads \X Files, job'[k] # "none"
      PROVE  stored'[k[2]][k[3]] = job'[k]
  <2>1. CASE job'[k] = job[k]
    <3>1. stored[k[2]][k[3]] = job[k] /\ k[2] \in Heads /\ k[3] \in Files
      BY <1>1, <1>2, <2>1 DEF TableInv, JobsMatchSnapshots
    <3> QED BY <1>2, <2>1, <3>1 DEF TablesGrow
  <2> QED BY <2>1
<1>3. Reliable'
  <2>1. \A w \in Workers : Sound(worker[w])
    BY DEF TypeInv, WorkersSound
  <2> QED BY <2>1, StillRelies DEF TableInv, Reliable
<1>4. ASSUME NEW d \in Deliveries, delivery'[d].status = "completed",
             NEW f \in delivery'[d].files
      PROVE  /\ <<d, f>> \in link'
             /\ job'[<<Event[d].pull, Event[d].head, f>>] # "none"
  <2> DEFINE k == <<Event[d].pull, Event[d].head, f>>
  <2>1. <<d, f>> \in link /\ job[k] # "none" /\ f \in Files
    <3>1. CASE /\ delivery[d].status = "completed"
               /\ delivery'[d].files = delivery[d].files
      <4>1. delivery[d].files \subseteq Files
        BY SMT DEF TypeInv, RowsOK, DeliveryRow
      <4> QED BY <1>4, <3>1, <4>1 DEF TableInv, CompletedCoversFiles
    <3>2. CASE \E w \in Workers :
                 /\ worker[w].pc = "submitting" /\ worker[w].todo = {}
                 /\ d = worker[w].delivery
                 /\ delivery'[d].files = Analyzable(worker[w].snapshot)
      <4>1. PICK w \in Workers :
               /\ worker[w].pc = "submitting" /\ worker[w].todo = {}
               /\ d = worker[w].delivery
               /\ delivery'[d].files = Analyzable(worker[w].snapshot)
        BY <3>2
      <4>2. f \in Analyzable(worker[w].snapshot) \ worker[w].todo
        BY <1>4, <4>1
      <4>3. <<d, f>> \in link /\ job[KeyOf(worker[w], f)] # "none"
        BY <4>1, <4>2 DEF TableInv, Reliable, Relies, Submits
      <4> QED BY <4>1, <4>2, <4>3 DEF KeyOf, Analyzable
    <3>3. \/ /\ delivery[d].status = "completed"
             /\ delivery'[d].files = delivery[d].files
          \/ \E w \in Workers :
                 /\ worker[w].pc = "submitting" /\ worker[w].todo = {}
                 /\ d = worker[w].delivery
                 /\ delivery'[d].files = Analyzable(worker[w].snapshot)
      BY <1>4 DEF RowsMove, Moves, CompletedBy
    <3> QED BY <3>1, <3>2, <3>3
  <2>2. k \in Pulls \X Heads \X Files
    BY <2>1 DEF Pulls, Heads
  <2> QED BY <2>1, <2>2 DEF TablesGrow
<1>5. DOMAIN job' = Pulls \X Heads \X Files
  BY NextTypeInv DEF TypeInv, TablesType
<1> QED BY <1>2, <1>3, <1>4, <1>5 DEF TableInv, JobsMatchSnapshots,
                                       CompletedCoversFiles

LEMMA QuietKeeps ==
  ASSUME TypeInv, TableInv, [Next]_vars, tables' = tables, WorkersQuiet
  PROVE  TableInv' /\ TablesGrow
<1>1. stored' = stored /\ job' = job /\ link' = link
  BY DEF tables
<1>2. TablesGrow
  BY <1>1 DEF TablesGrow
<1>3. \A w \in Workers :
        worker'[w] = worker[w] \/ Relies(worker'[w], stored', job', link')
  BY DEF WorkersQuiet, Relies
<1> QED BY <1>1, <1>2, <1>3, Effects, TableInvKept

\* A writer's commit: what it relies on afterwards, if the answer arrives.
LEMMA WriterKeeps ==
  ASSUME TypeInv, TableInv, [Next]_vars, TablesGrow,
         \A k \in Pulls \X Heads \X Files :
           job'[k] = job[k] \/ job'[k] = stored'[k[2]][k[3]],
         NEW w \in Workers, worker[w].delivery # NoDelivery, NEW new,
         Follows(worker[w], new), Relies(new, stored', job', link'),
         Responds(w, new)
  PROVE  TableInv'
<1>1. WorkersSound
  BY DEF TypeInv
<1>2. \A v \in Workers :
        worker'[v] = worker[v] \/ Relies(worker'[v], stored', job', link')
  <2>1. CASE Becomes(w, new)
    BY <1>1, <2>1, OneWorker DEF Follows
  <2>2. CASE Becomes(w, Failing(w, "permanent"))
    BY <1>1, <2>2, FailingMoves DEF WorkersQuiet, Relies, Failure
  <2> QED BY <2>1, <2>2 DEF Responds
<1> QED BY <1>2, Effects, TableInvKept

\* It refuses: nothing is written, and the worker fails.
LEMMA RefusalKeeps ==
  ASSUME TypeInv, TableInv, [Next]_vars, tables' = tables,
         NEW w \in Workers, worker[w].delivery # NoDelivery,
         Becomes(w, Failing(w, "permanent"))
  PROVE  TableInv' /\ TablesGrow
<1>1. WorkersQuiet
  BY FailingMoves DEF TypeInv, Failure
<1> QED BY <1>1, QuietKeeps

LEMMA PersistKeeps ==
  ASSUME TypeInv, TableInv, [Next]_vars, NEW w \in Workers, PersistSnapshot(w)
  PROVE  TableInv' /\ TablesGrow
<1> DEFINE r == worker[w]
           s == r.snapshot
           h == Event[r.delivery].head
           rows == Inserted(stored[h], s)
           new == [r EXCEPT !.pc = "submitting", !.todo = Analyzable(r.snapshot)]
<1>1. /\ Sound(r) /\ r.pc = "fetched" /\ r.delivery # NoDelivery
      /\ r.delivery \in Deliveries /\ h \in Heads /\ job' = job /\ link' = link
  BY Busy DEF TypeInv, WorkersSound, PersistSnapshot, Heads
<1>2. CASE /\ \A f \in Analyzable(s) : rows[f] = s[f]
           /\ stored' = [stored EXCEPT ![h] = rows]
           /\ Responds(w, new)
  <2>1. stored'[h] = rows /\ \A g \in Heads \ {h} : stored'[g] = stored[g]
    BY <1>1, <1>2 DEF TypeInv, TablesType
  <2>2. \A f \in Files : stored[h][f] # "none" => rows[f] = stored[h][f]
    BY DEF Inserted
  <2>3. TablesGrow
    BY <1>1, <2>1, <2>2 DEF TablesGrow
  <2>4. /\ Follows(r, new) /\ new.delivery = r.delivery
        /\ new.pc = "submitting"
        /\ new.snapshot = s /\ new.todo = Analyzable(s)
    BY <1>1, StoredSound
  <2>5. Responds(w, new)
    BY <1>2
  <2> HIDE DEF rows, new
  <2>6. Relies(new, stored', job', link')
    BY <1>2, <2>1, <2>4 DEF Relies
  <2> QED BY <1>1, <2>3, <2>4, <2>5, <2>6, WriterKeeps
<1>3. CASE Becomes(w, Failing(w, "permanent")) /\ UNCHANGED stored
  BY <1>1, <1>3, RefusalKeeps DEF tables
<1> QED BY <1>2, <1>3 DEF PersistSnapshot

LEMMA SubmitKeeps ==
  ASSUME TypeInv, TableInv, [Next]_vars, NEW w \in Workers, SubmitJob(w)
  PROVE  TableInv' /\ TablesGrow
<1> DEFINE r == worker[w]
           f == NextFile(w)
           k == Key(w, f)
           diff == r.snapshot[f]
           new == [r EXCEPT !.pc = "linking"]
<1>1. /\ WorkersSound /\ Sound(r) /\ r.pc = "submitting" /\ r.todo # {}
      /\ r.delivery # NoDelivery /\ stored' = stored /\ link' = link
  BY Busy DEF TypeInv, WorkersSound, SubmitJob
<1>2. f \in r.todo /\ f \in Analyzable(r.snapshot) /\ f \in Files
  BY <1>1, NextFileType
<1>3. /\ k \in Pulls \X Heads \X Files /\ k = KeyOf(r, f)
      /\ k[2] = Event[r.delivery].head /\ k[3] = f
  BY <1>1, <1>2, KeyType DEF Key, KeyOf
<1>4. diff # "none" /\ stored[k[2]][k[3]] = diff
  BY <1>1, <1>2, <1>3, SnapshotDiffs DEF TableInv, Reliable, Relies, Submits
<1>5. CASE /\ job[k] \in {"none", diff} /\ job' = [job EXCEPT ![k] = diff]
           /\ Responds(w, new)
  <2> HIDE DEF k, diff
  <2>1. /\ job'[k] = diff
        /\ \A l \in (Pulls \X Heads \X Files) \ {k} : job'[l] = job[l]
    <3>1. job \in [Pulls \X Heads \X Files -> Diffs \cup {"none"}]
      BY DEF TypeInv, TablesType
    <3> QED BY <1>3, <1>5, <3>1, Zenon
  <2>2. TablesGrow
    BY <1>1, <1>3, <1>5, <2>1 DEF TablesGrow
  <2>3. \A l \in Pulls \X Heads \X Files :
          job'[l] = job[l] \/ job'[l] = stored'[l[2]][l[3]]
    BY <1>1, <1>4, <2>1
  <2>4. /\ Follows(r, new) /\ new.delivery = r.delivery
        /\ new.pc = "linking"
        /\ new.snapshot = r.snapshot /\ new.todo = r.todo
    BY <1>1, SubmittedSound
  <2>5. Responds(w, new)
    BY <1>5
  <2>6. Relies(r, stored', job', link')
    BY <1>1, <2>2, StillRelies DEF TableInv, Reliable
  <2> HIDE DEF new
  <2>7. Relies(new, stored', job', link')
    <3>1. KeyOf(new, CHOOSE g \in new.todo : TRUE) = k
      BY <1>3, <2>4 DEF KeyOf, NextFile
    <3>2. \A g \in Analyzable(r.snapshot) \ r.todo : KeyOf(new, g) = KeyOf(r, g)
      BY <2>4 DEF KeyOf
    <3> QED BY <1>1, <1>4, <2>1, <2>4, <2>6, <3>1, <3>2 DEF Relies, Submits
  <2> QED BY <1>1, <2>2, <2>3, <2>4, <2>5, <2>7, WriterKeeps
<1>6. CASE Becomes(w, Failing(w, "permanent")) /\ UNCHANGED job
  BY <1>1, <1>6, RefusalKeeps DEF tables
<1> QED BY <1>5, <1>6 DEF SubmitJob

LEMMA LinkKeeps ==
  ASSUME TypeInv, TableInv, [Next]_vars, NEW w \in Workers, LinkJob(w)
  PROVE  TableInv' /\ TablesGrow
<1> DEFINE r == worker[w]
           f == NextFile(w)
           new == [r EXCEPT !.pc = "submitting", !.todo = r.todo \ {f}]
<1>1. /\ WorkersSound /\ Sound(r) /\ r.pc = "linking"
      /\ r.delivery # NoDelivery /\ stored' = stored /\ job' = job
      /\ link' = link \cup {<<r.delivery, f>>} /\ Responds(w, new)
  BY Busy DEF TypeInv, WorkersSound, LinkJob
<1>2. TablesGrow
  BY <1>1 DEF TablesGrow
<1>3. job[KeyOf(r, f)] # "none"
  BY <1>1 DEF TableInv, Reliable, Relies, Submits, NextFile
<1>4. /\ Follows(r, new) /\ new.delivery = r.delivery
      /\ new.pc = "submitting"
      /\ new.snapshot = r.snapshot /\ new.todo = r.todo \ {f}
  BY <1>1, LinkedSound
<1> HIDE DEF new, f
<1>5. Relies(new, stored', job', link')
  <2>1. Relies(r, stored', job', link')
    BY <1>1, <1>2, StillRelies DEF TableInv, Reliable
  <2>2. \A g \in Files : KeyOf(new, g) = KeyOf(r, g)
    BY <1>4 DEF KeyOf
  <2>3. \A g \in Analyzable(r.snapshot) : g \in Files
    BY DEF Analyzable
  <2> QED BY <1>1, <1>3, <1>4, <2>1, <2>2, <2>3 DEF Relies, Submits
<1> QED BY <1>1, <1>2, <1>4, <1>5, WriterKeeps

LEMMA NextTableInv ==
  TypeInv /\ TableInv /\ [Next]_vars => TableInv' /\ TablesGrow
BY Effects, QuietKeeps, PersistKeeps, SubmitKeeps, LinkKeeps DEF Writes

LEMMA TablesReliable == Spec => []TableInv
<1>1. Init => TableInv
  BY IdleSound DEF Init, TableInv, JobsMatchSnapshots, CompletedCoversFiles,
                   Reliable, Relies, AbsentDelivery
<1> QED BY <1>1, NextTableInv, Typed, PTL DEF Spec

\* A job was submitted with the snapshot that is stored for its file, although
\* workers that lost their lease still submit.
THEOREM SnapshotsMatch == Spec => []JobsMatchSnapshots
<1>1. TableInv => JobsMatchSnapshots
  BY DEF TableInv
<1> QED BY <1>1, TablesReliable, PTL

\* A completed delivery covers every file it counts, whichever of its workers
\* submitted and linked the job.
THEOREM CompletionCovers == Spec => []CompletedCoversFiles
<1>1. TableInv => CompletedCoversFiles
  BY DEF TableInv
<1> QED BY <1>1, TablesReliable, PTL

-----------------------------------------------------------------------------
(* Steps.                                                                  *)

LEMMA OwnerIsLive ==
  ASSUME NEW w \in Workers, Owned(w) PROVE Live(w, worker[w].delivery)
BY DEF Owned, Carries, Live

\* A worker leaves a trace only under a lease it holds.
THEOREM OwnersRecord == Spec => OnlyOwnerRecords
<1>1. TypeInv /\ [Next]_vars =>
        [/\ \A d \in Deliveries :
              (/\ delivery[d].status # "completed"
               /\ delivery'[d].status = "completed")
              => \E w \in Workers : Live(w, d)
         /\ \A pair \in link' \ link :
              \E w \in Workers : Live(w, pair[1])
         /\ stored' # stored =>
              \E w \in Workers, d \in Deliveries :
                worker[w].pc = "fetched" /\ Live(w, d)]_vars
  <2> SUFFICES ASSUME TypeInv, [Next]_vars
      PROVE  /\ \A d \in Deliveries :
                  (/\ delivery[d].status # "completed"
                   /\ delivery'[d].status = "completed")
                  => \E w \in Workers : Live(w, d)
             /\ \A pair \in link' \ link : \E w \in Workers : Live(w, pair[1])
             /\ stored' # stored =>
                  \E w \in Workers, d \in Deliveries :
                    worker[w].pc = "fetched" /\ Live(w, d)
    OBVIOUS
  <2>1. ASSUME NEW d \in Deliveries, delivery[d].status # "completed",
               delivery'[d].status = "completed"
        PROVE  \E w \in Workers : Live(w, d)
    <3>1. CASE RowsMove
      BY <2>1, <3>1 DEF RowsMove, Moves
    <3>2. ASSUME NEW w \in Workers, CompletedBy(w)
          PROVE  \E v \in Workers : Live(v, d)
      BY <2>1, <3>2, OwnerIsLive DEF CompletedBy
    <3> QED BY <3>1, <3>2, Effects
  <2>2. ASSUME NEW pair \in link' \ link
        PROVE  \E w \in Workers : Live(w, pair[1])
    <3>1. PICK w \in Workers : Writes(w)
      BY <2>2, Effects DEF tables
    <3>2. LinkJob(w)
      BY <2>2, <3>1 DEF Writes, PersistSnapshot, SubmitJob
    <3>3. pair[1] = worker[w].delivery /\ Owned(w)
      BY <2>2, <3>2 DEF LinkJob
    <3> QED BY <3>3, OwnerIsLive
  <2>3. ASSUME stored' # stored
        PROVE  \E w \in Workers, d \in Deliveries :
                 worker[w].pc = "fetched" /\ Live(w, d)
    <3>1. PICK w \in Workers : Writes(w)
      BY <2>3, Effects DEF tables
    <3>2. PersistSnapshot(w)
      BY <2>3, <3>1 DEF Writes, LinkJob, SubmitJob
    <3>3. worker[w].pc = "fetched" /\ Owned(w) /\ worker[w].delivery \in Deliveries
      BY <3>2, Busy DEF PersistSnapshot, TypeInv
    <3> QED BY <3>3, OwnerIsLive
  <2> QED BY <2>1, <2>2, <2>3
<1> QED BY <1>1, Typed, PTL DEF Spec, OnlyOwnerRecords

\* A row that is final keeps all but its due time.
RowsFinal ==
  \A d \in Deliveries : delivery[d].status \in {"completed", "failed"} =>
    delivery'[d] = [delivery[d] EXCEPT !.due = delivery'[d].due]

LEMMA SameRow ==
  ASSUME NEW row \in DeliveryRow
  PROVE  row = [row EXCEPT !.due = row.due]
BY SMT DEF DeliveryRow

LEMMA SameRows == ASSUME RowsOK, delivery' = delivery PROVE RowsFinal
BY SameRow DEF RowsOK, RowsFinal

LEMMA UnfinishedRow ==
  ASSUME RowsOK, NEW d \in Deliveries, NEW row,
         delivery[d].status \notin {"completed", "failed"},
         delivery' = [delivery EXCEPT ![d] = row]
  PROVE  RowsFinal
<1>1. delivery \in [Deliveries -> DeliveryRow]
  BY DEF RowsOK
<1>2. \A e \in Deliveries \ {d} : delivery'[e] = delivery[e]
  BY <1>1, Zenon
<1> QED BY <1>1, <1>2, SameRow DEF RowsFinal

LEMMA NextRowsFinal == ASSUME TypeInv, Next PROVE RowsFinal
<1>0. RowsOK
  BY DEF TypeInv
<1>1. ASSUME NEW d \in Deliveries,
             RecordLifecycle(d) \/ RecordDelivery(d) \/ LeaseTick(d)
      PROVE  RowsFinal
  <2>1. CASE delivery' = delivery
    BY <1>0, <2>1, SameRows
  <2>2. CASE RecordDelivery(d)
    <3>1. delivery[d].status \notin {"completed", "failed"}
      BY <2>2 DEF RecordDelivery
    <3> QED BY <1>0, <2>2, <3>1, UnfinishedRow DEF RecordDelivery
  <2>3. CASE LeaseTick(d)
    <3>1. delivery[d].status \notin {"completed", "failed"}
      BY <2>3 DEF LeaseTick
    <3> QED BY <1>0, <2>3, <3>1, UnfinishedRow DEF LeaseTick
  <2> QED BY <1>1, <2>1, <2>2, <2>3 DEF RecordLifecycle
<1>2. ASSUME NEW d \in Deliveries, DelayElapses(d) PROVE RowsFinal
  <2>1. delivery' = [delivery EXCEPT ![d].due = TRUE]
    BY <1>2 DEF DelayElapses
  <2>2. ASSUME NEW e \in Deliveries
        PROVE  delivery'[e] = [delivery[e] EXCEPT !.due = delivery'[e].due]
    <3>1. delivery \in [Deliveries -> DeliveryRow] /\ delivery[e] \in DeliveryRow
      BY <1>0 DEF RowsOK
    <3>2. CASE e = d
      <4> DEFINE row == [delivery[d] EXCEPT !.due = TRUE]
      <4>1. delivery'[d] = row
        BY <2>1, <3>1, Zenon
      <4>2. row.due = TRUE
        BY <3>1, <3>2, SMT DEF DeliveryRow
      <4> QED BY <3>2, <4>1, <4>2
    <3>3. CASE e # d
      BY <2>1, <3>1, <3>3, SameRow
    <3> QED BY <3>2, <3>3
  <2> QED BY <2>2 DEF RowsFinal
<1>3. ASSUME NEW w \in Workers, RunOnce(w) \/ Crash(w) PROVE RowsFinal
  <2>1. CASE delivery' = delivery
    BY <1>0, <2>1, SameRows
  <2>2. CASE Poll(w)
    <3>1. \A d \in Deliveries : delivery'[d] = Recovered(delivery[d])
      BY <2>2 DEF Poll
    <3>2. \A d \in Deliveries : delivery[d].status \in {"completed", "failed"}
            => delivery'[d] = delivery[d]
      BY <3>1 DEF Recovered, Expired
    <3> QED BY <1>0, <3>2, SameRow DEF RowsFinal, RowsOK
  <2>3. ASSUME NEW d \in Deliveries, Claimable(delivery[d]),
               delivery' = [delivery EXCEPT ![d] = Leased(delivery[d])]
        PROVE  RowsFinal
    <3>1. delivery[d].status \notin {"completed", "failed"}
      BY <2>3 DEF Claimable
    <3> QED BY <1>0, <2>3, <3>1, UnfinishedRow
  <2>4. CASE Complete(w) \/ (ScheduleFailure(w) /\ Carries(w))
    <3> DEFINE d == worker[w].delivery
    <3>1. d \in Deliveries
      BY <2>4, Busy DEF TypeInv, Complete, ScheduleFailure
    <3>2. delivery[d].status = "processing"
      BY <2>4 DEF Complete, Owned, Carries
    <3>3. \E row : delivery' = [delivery EXCEPT ![d] = row]
      BY <2>4 DEF Complete, ScheduleFailure
    <3> QED BY <1>0, <3>1, <3>2, <3>3, UnfinishedRow
  <2> QED BY <1>3, <2>1, <2>2, <2>3, <2>4
          DEF RunOnce, Crash, ClaimNext, FetchPullRequest, PersistSnapshot,
              SubmitJob, LinkJob, LeaseLost, DatabaseError, ScheduleFailure
<1> QED BY <1>1, <1>2, <1>3 DEF Next

\* Nothing undoes a completion, a failure, a snapshot, a job or a link.
THEOREM RecordsStay == Spec => RecordsAreFinal
<1>1. TypeInv /\ TableInv /\ [Next]_vars =>
        [/\ \A d \in Deliveries :
              delivery[d].status \in {"completed", "failed"} =>
                delivery'[d] = [delivery[d] EXCEPT !.due = delivery'[d].due]
         /\ \A k \in DOMAIN job : job[k] # "none" => job'[k] = job[k]
         /\ \A h \in Heads, f \in Files :
              stored[h][f] # "none" => stored'[h][f] = stored[h][f]
         /\ link \subseteq link']_vars
  <2> SUFFICES ASSUME TypeInv, TableInv, Next
      PROVE  /\ RowsFinal
             /\ \A k \in DOMAIN job : job[k] # "none" => job'[k] = job[k]
             /\ \A h \in Heads, f \in Files :
                  stored[h][f] # "none" => stored'[h][f] = stored[h][f]
             /\ link \subseteq link'
    BY DEF RowsFinal
  <2>1. DOMAIN job = Pulls \X Heads \X Files
    BY DEF TypeInv, TablesType
  <2> QED BY <2>1, NextRowsFinal, NextTableInv DEF TablesGrow
<1> QED BY <1>1, Typed, TablesReliable, PTL DEF Spec, RecordsAreFinal
=============================================================================
