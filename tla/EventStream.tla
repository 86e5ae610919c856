---------------------------- MODULE EventStream ----------------------------
(***************************************************************************)
(* Watching one job.  The database trigger appends an event to the job's   *)
(* history in every transaction that changes its status.  The API streams  *)
(* the history to a client (GET /jobs/{id}/events) and derives a status    *)
(* with timings from it (GET /jobs/{id}); both read the job and its events *)
(* in transactions of their own.  The dashboard follows the stream and     *)
(* asks for the status after every chunk it reads.                         *)
(*                                                                         *)
(* The time of an event is the start of its transaction (CURRENT_TIMESTAMP)*)
(* and not its commit, so a claim or a decision that was under way while   *)
(* another transaction changed the job is dated before that change.  The   *)
(* API takes the present time from its own clock.                          *)
(*                                                                         *)
(* The transport holds one chunk.  The database's clock counts the changes *)
(* of the job.  Payloads, token usage and the review package are left out. *)
(***************************************************************************)
EXTENDS JobStates, Integers, Sequences, FiniteSetsExt

CONSTANTS MaxEvents,   \* bound: events of the job
          MaxRetries,  \* bound: retries of the job
          Pause,       \* time from the submission to the first change
          Lags,        \* how long ago a transaction may have started
          Skews        \* how far the API's clock may be behind the database's

ASSUME BoundsAssumption == MaxEvents \in Nat \ {0} /\ MaxRetries \in Nat
ASSUME ClocksAssumption ==
  Pause \in Nat \ {0} /\ Lags \subseteq Nat /\ Skews \subseteq Int

VARIABLES resume,   \* workflow_jobs.resume_state
          available,  \* workflow_jobs.available_at
          clock,    \* the database's
          log,      \* workflow_job_transitions, by transition_sequence
          server,   \* the generator behind the response of the stream
          client,   \* the reader of the stream
          shown     \* the status response the client has

vars == <<resume, available, clock, log, server, client, shown>>

\* Chunks on the wire: an event's sequence number, or one of these.
Nothing == -1
KeepAlive == 0

Closed == [pc |-> "closed", sequence |-> 0, events |-> <<>>, chunk |-> Nothing]
NotShown == [status |-> "none", completed |-> 0, events |-> 0, now |-> 0]

Init ==
  /\ resume = "analyzing"
  /\ available = 0
  /\ clock = Pause
  /\ log = <<[status |-> "queued", at |-> 0]>>
  /\ server = Closed
  /\ client = [pc |-> "idle", received |-> <<>>, job |-> NotShown]
  /\ shown = NotShown

Status == log[Len(log)].status
Retries == Cardinality({i \in DOMAIN log : log[i].status = "retry_scheduled"})

\* The time of the first event with one of the statuses.
FirstAt(events, statuses) ==
  LET found == {i \in DOMAIN events : events[i].status \in statuses}
  IN IF found = {} THEN {} ELSE {events[Min(found)].at}

-----------------------------------------------------------------------------
(* The job. *)

\* When a transaction may have started that commits now: a while ago, but after
\* the time that it finds past when it compares it with CURRENT_TIMESTAMP.
Begun(past) == {Max({past, clock - lag}) : lag \in Lags}

Logged(status, at) == Append(log, [status |-> status, at |-> at])

\* A status change written by the job repository in a transaction that started
\* at a time, with the stage it leaves to be resumed.  No job is completed
\* before it was started (workflow_jobs_time_order_ck).
Write(status, stage, at) ==
  /\ Len(log) < MaxEvents
  /\ status \in TerminalStates =>
       \A started \in FirstAt(log, ActiveStates) : started <= at
  /\ log' = Logged(status, at)
  /\ resume' = stage
  /\ available' = IF status = "retry_scheduled" THEN at ELSE available
  /\ clock' = clock + 1
  /\ UNCHANGED <<server, client, shown>>

\* A worker reports on a claim that has been committed.
CompleteStage ==
  \/ Status = "analyzing" /\ Write("queued", "generating_patch", clock)
  \/ Status = "analyzing" /\ Write("completed", resume, clock)
  \/ Status = "generating_patch" /\ Write("queued", "validating_patch", clock)
  \/ Status = "validating_patch" /\ Write("awaiting_approval", resume, clock)
  \/ Status = "creating_pr" /\ Write("completed", resume, clock)

\* Reported by the worker, or by a recovery that started after the lease of the
\* claim had run out.
FailStage ==
  /\ Status \in ActiveStates
  /\ \E at \in Begun(log[Len(log)].at + 1) :
       \/ Retries < MaxRetries /\ Write("retry_scheduled", Status, at)
       \/ Write("failed", resume, at)

\* The decision is quick, or has waited for the lock of the job.
Decide ==
  /\ Status = "awaiting_approval"
  /\ \E at \in {clock} \cup Begun(0) :
       Write("approved", "creating_pr", at) \/ Write("rejected", resume, at)

Claim ==
  \E at \in Begun(available) :
    \/ Status = "queued" /\ Write(resume, resume, at)
    \/ Status = "approved" /\ Write("creating_pr", "creating_pr", at)

\* A claim promotes the due retries first, and may take one of them in the
\* same transaction.
Promote ==
  /\ Status = "retry_scheduled"
  /\ \E at \in Begun(available) :
       \/ Write("queued", resume, at)
       \/ /\ Len(log) + 1 < MaxEvents
          /\ log' = Append(Logged("queued", at), [status |-> resume, at |-> at])
          /\ clock' = clock + 1
          /\ UNCHANGED <<resume, available, server, client, shown>>

JobStep == CompleteStage \/ FailStage \/ Decide \/ Claim \/ Promote

-----------------------------------------------------------------------------
(* The stream: list the new events, yield them, then look at the job. *)

ReadEvents ==
  /\ server.pc = "events"
  /\ server' = [server EXCEPT !.pc = "yield",
                  !.events = [i \in 1..(Len(log) - server.sequence) |->
                                server.sequence + i]]
  /\ UNCHANGED <<resume, available, clock, log, client, shown>>

\* Slip: the position in the history is not moved.
YieldInPlace ==
  /\ server.pc = "yield" /\ server.events # <<>> /\ server.chunk = Nothing
  /\ server' = [server EXCEPT !.chunk = Head(server.events),
                              !.events = Tail(server.events)]
  /\ UNCHANGED <<resume, available, clock, log, client, shown>>

Yield ==
  /\ server.pc = "yield" /\ server.events # <<>> /\ server.chunk = Nothing
  /\ server' = [server EXCEPT !.chunk = Head(server.events),
                              !.sequence = Head(server.events),
                              !.events = Tail(server.events)]
  /\ UNCHANGED <<resume, available, clock, log, client, shown>>

ReadStatus ==
  /\ server.pc = "yield" /\ server.events = <<>>
  /\ server' = [server EXCEPT
       !.pc = IF Status \in TerminalStates THEN "ended" ELSE "keep_alive"]
  /\ UNCHANGED <<resume, available, clock, log, client, shown>>

YieldKeepAlive ==
  /\ server.pc = "keep_alive" /\ server.chunk = Nothing
  /\ server' = [server EXCEPT !.chunk = KeepAlive, !.pc = "events"]
  /\ UNCHANGED <<resume, available, clock, log, client, shown>>

ServerStep == ReadEvents \/ Yield \/ ReadStatus \/ YieldKeepAlive

-----------------------------------------------------------------------------
(* The client: read a chunk, ask for the status, read the next. *)

\* A client starts over, or goes on after the last event it has.
Connect ==
  /\ client.pc \in {"idle", "gone", "done"}
  /\ \E known \in {<<>>, client.received} :
       /\ server' = [Closed EXCEPT !.pc = "events",
            !.sequence = IF known = <<>> THEN 0 ELSE known[Len(known)]]
       /\ client' = [client EXCEPT !.pc = "reading", !.received = known]
  /\ UNCHANGED <<resume, available, clock, log, shown>>

ReadChunk ==
  /\ client.pc = "reading" /\ server.chunk # Nothing
  /\ client' = [client EXCEPT !.pc = "refresh",
       !.received = IF server.chunk = KeepAlive THEN @
                    ELSE Append(@, server.chunk)]
  /\ server' = [server EXCEPT !.chunk = Nothing]
  /\ UNCHANGED <<resume, available, clock, log, shown>>

\* Slip: the end of the stream is taken for the last word.
ReadEndWithoutRefresh ==
  /\ client.pc = "reading" /\ server.pc = "ended" /\ server.chunk = Nothing
  /\ client' = [client EXCEPT !.pc = "done"]
  /\ server' = Closed
  /\ UNCHANGED <<resume, available, clock, log, shown>>

ReadEnd ==
  /\ client.pc = "reading" /\ server.pc = "ended" /\ server.chunk = Nothing
  /\ client' = [client EXCEPT !.pc = "last_refresh"]
  /\ server' = Closed
  /\ UNCHANGED <<resume, available, clock, log, shown>>

\* observe reads the job, with the time it was completed,
ObserveJob ==
  /\ client.pc \in {"refresh", "last_refresh"} /\ client.job = NotShown
  /\ client' = [client EXCEPT !.job =
       [NotShown EXCEPT !.status = Status,
          !.completed = IF Status \in TerminalStates THEN log[Len(log)].at
                        ELSE 0]]
  /\ UNCHANGED <<resume, available, clock, log, server, shown>>

\* and then its events, and takes the time from the clock of its own host.
ObserveEvents ==
  /\ client.job # NotShown
  /\ \E skew \in Skews :
       shown' = [client.job EXCEPT !.events = Len(log), !.now = clock - skew]
  /\ client' = [client EXCEPT !.job = NotShown,
       !.pc = IF @ = "refresh" THEN "reading" ELSE "done"]
  /\ UNCHANGED <<resume, available, clock, log, server>>

\* The connection breaks, a call fails, or the reader turns away.
Disconnect ==
  /\ client.pc \in {"reading", "refresh", "last_refresh"}
  /\ client' = [client EXCEPT !.pc = "gone", !.job = NotShown]
  /\ server' = Closed
  /\ UNCHANGED <<resume, available, clock, log, shown>>

ClientStep == ReadChunk \/ ReadEnd \/ ObserveJob \/ ObserveEvents

Next == JobStep \/ ServerStep \/ Connect \/ ClientStep \/ Disconnect

Spec == Init /\ [][Next]_vars

\* The event loop resumes the generator and the client reads on.
FairSpec == Spec /\ WF_vars(ServerStep) /\ WF_vars(ClientStep)

-----------------------------------------------------------------------------
(* build_observation: the metrics of the response that is shown. *)

Events == SubSeq(log, 1, shown.events)

\* _milliseconds: a duration is never negative.
Milliseconds(from, to) == IF to > from THEN to - from ELSE 0

\* completed_at is set when and only when the status is terminal.
ElapsedEnd ==
  IF shown.status \in TerminalStates THEN shown.completed ELSE shown.now

\* The job was created at time 0.
EndToEnd == Milliseconds(0, ElapsedEnd)

\* A metric that is null counts as nothing.
Span(from, to) ==
  IF from = {} \/ to = {} THEN 0 ELSE Milliseconds(Max(from), Max(to))
QueueWait == Span({0}, FirstAt(Events, ActiveStates))
HumanWait == Span(FirstAt(Events, {"awaiting_approval"}),
                  IF FirstAt(Events, {"approved"}) # {}
                    THEN FirstAt(Events, {"approved"})
                    ELSE FirstAt(Events, {"rejected"}))

\* Slip: a stage is timed to the end of the observation.
StageTimingToEnd(i) == Milliseconds(Events[i].at, ElapsedEnd)

\* The time of the next event, or the end.
Until(i) == IF i < Len(Events) THEN Events[i + 1].at ELSE ElapsedEnd

StageTiming(i) == Milliseconds(Events[i].at, Until(i))

-----------------------------------------------------------------------------
(* Properties. *)

\* Over any number of connections that break with chunks on their way, a client
\* that goes on after its last event has every event once and in order, and
\* nothing that is not in the history.
StreamIsExact ==
  /\ Len(client.received) <= Len(log)
  /\ \A i \in DOMAIN client.received : client.received[i] = i

\* The time in the stages among the first events.
StageTime[i \in 0..Len(Events)] ==
  IF i = 0 THEN 0
  ELSE StageTime[i - 1]
         + (IF Events[i].status \in ActiveStates THEN StageTiming(i) ELSE 0)

\* By how much the times of the first events and of what follows each run back.
Backward[i \in 0..Len(Events)] ==
  IF i = 0 THEN 0 ELSE Backward[i - 1] + Milliseconds(Until(i), Events[i].at)

\* The status response is one story although job and events are read apart: the
\* status is in the history, a finished job with all of it; and the waits and
\* the stages are parts of the whole time that do not overlap (docs/api.md):
\* they make more than the whole only where the times of successive events run
\* backwards, and no more than by that.
ObservationAddsUp ==
  shown # NotShown =>
    /\ \E i \in DOMAIN Events : Events[i].status = shown.status
    /\ shown.status \in TerminalStates =>
         Len(Events) = Len(log) /\ shown.completed = Events[Len(Events)].at
    /\ QueueWait + HumanWait + StageTime[Len(Events)]
         <= EndToEnd + Backward[Len(Events)]

\* Who watches a job to the end of the stream sees how it ended, although the
\* stream may end without the last event.
WatcherSeesEnd ==
  client.pc \in {"reading", "refresh", "last_refresh"}
    /\ Status \in TerminalStates
  ~> \/ client.pc = "gone"
     \/ client.pc = "done" /\ shown.status = Status

=============================================================================
