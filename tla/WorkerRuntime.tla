---------------------------- MODULE WorkerRuntime ----------------------------
(***************************************************************************)
(* The queue as it is deployed: processes of scripts/run_workers.py, each  *)
(* with one thread per worker, beside the API.  WorkerRuntime.run_cycle    *)
(* lets every worker call run_once once and waits for all of them; main    *)
(* repeats the cycle for ever.  An exception that leaves run_once ends     *)
(* main, after the other workers of the cycle have returned.  Nothing in   *)
(* the repository restarts a process that ended, and nothing recovers the  *)
(* leases of one that was killed: recover_expired_leases has no caller.    *)
(*                                                                         *)
(* A worker that finds no job waits for the end of its cycle and polls     *)
(* again in the next.  That changes nothing and is no step, so a worker    *)
(* counts as polled when it has claimed a job or raised.                   *)
(***************************************************************************)
EXTENDS WorkflowQueue

CONSTANTS
  Processes,  \* processes of scripts/run_workers.py
  ProcessOf,  \* the process a worker is a thread of
  StageOf     \* the stage it claims jobs for

ASSUME RuntimeAssumption ==
  /\ ProcessOf \in [Workers -> Processes]
  /\ StageOf \in [Workers -> ActiveStates]

VARIABLES
  process,    \* [p] is main running, waiting for its threads, or gone?
  polled      \* [p] workers that have called run_once in this cycle

runtimeVars == <<vars, process, polled>>

WorkersOf(p) == {w \in Workers : ProcessOf[w] = p}
AllIdle(p) == \A w \in WorkersOf(p) : worker[w].pc = "idle"

RuntimeInit ==
  /\ Init
  /\ process = [p \in Processes |-> "down"]
  /\ polled = [p \in Processes |-> {}]

-----------------------------------------------------------------------------
(* Workers.                                                                *)

(* A thread of a cycle that fails may still poll: all of them were started *)
(* together.                                                               *)
Poll(w) ==
  LET p == ProcessOf[w] IN
  /\ process[p] # "down"
  /\ w \notin polled[p]
  /\ IF StageOf[w] = "creating_pr" THEN ClaimPrNext(w)
     ELSE ClaimNext(w, StageOf[w])
  /\ polled' = IF worker[w] = worker'[w] THEN polled
               ELSE [polled EXCEPT ![p] = @ \cup {w}]
  /\ UNCHANGED process

(* run_once with a claimed job, until it returns.                          *)
Continue(w) == Works(w) /\ UNCHANGED <<process, polled>>

(* LeaseLostError, or any exception of claim_next or schedule_failure,     *)
(* which no handler is left for.                                           *)
Raise(w) ==
  /\ process[ProcessOf[w]] # "down"
  /\ \/ LeaseLost(w)
     \/ /\ worker[w].pc \in {"idle", "failing"}
        /\ Crash({w})
  /\ process' = [process EXCEPT ![ProcessOf[w]] = "ending"]
  /\ polled' = [polled EXCEPT ![ProcessOf[w]] = @ \cup {w}]

-----------------------------------------------------------------------------
(* Processes.                                                              *)

(* The pool has waited for all workers, and main starts the next cycle.    *)
EndCycle(p) ==
  /\ process[p] = "up"
  /\ AllIdle(p)
  /\ polled[p] # {}
  /\ polled' = [polled EXCEPT ![p] = {}]
  /\ UNCHANGED <<vars, process>>

(* The pool has waited for all workers, and the exception ends main.       *)
EndProcess(p) ==
  /\ process[p] = "ending"
  /\ AllIdle(p)
  /\ process' = [process EXCEPT ![p] = "down"]
  /\ UNCHANGED <<vars, polled>>

(* The process is killed, or its host stops.                               *)
Kill(p) ==
  /\ process[p] # "down"
  /\ Crash(WorkersOf(p))
  /\ process' = [process EXCEPT ![p] = "down"]
  /\ UNCHANGED polled

(* Someone starts the script.                                              *)
Start(p) ==
  /\ process[p] = "down"
  /\ process' = [process EXCEPT ![p] = "up"]
  /\ polled' = [polled EXCEPT ![p] = {}]
  /\ UNCHANGED vars

-----------------------------------------------------------------------------
(* The API submits and records decisions, threads renew leases, time       *)
(* passes.                                                                 *)
Elsewhere ==
  /\ \/ \E j \in Jobs : Submit(j) \/ RecordHumanDecision(j)
     \/ \E j \in Jobs : LeaseTick(j) \/ DelayElapses(j)
     \/ \E w \in Workers : Heartbeat(w)
  /\ UNCHANGED <<process, polled>>

RuntimeNext ==
  \/ \E w \in Workers : Poll(w) \/ Continue(w) \/ Raise(w)
  \/ \E p \in Processes : EndCycle(p) \/ EndProcess(p) \/ Kill(p) \/ Start(p)
  \/ Elsewhere

RuntimeSpec == RuntimeInit /\ [][RuntimeNext]_runtimeVars

(* While its process is up a worker polls in every cycle, the calls it     *)
(* makes return or raise, and the cycle ends when all have returned.  No   *)
(* one has to start a process, to submit, to decide or to renew a lease.   *)
RunsOn(w) ==
  /\ WF_runtimeVars(process[ProcessOf[w]] = "up" /\ Poll(w))
  /\ WF_runtimeVars(Continue(w) \/ (LeaseLost(w) /\ Raise(w)))

RuntimeFairSpec ==
  /\ RuntimeSpec
  /\ \A w \in Workers : RunsOn(w)
  /\ \A p \in Processes : WF_runtimeVars(EndCycle(p))
  /\ \A j \in Jobs :
       /\ WF_runtimeVars(LeaseTick(j) /\ UNCHANGED <<process, polled>>)
       /\ WF_runtimeVars(DelayElapses(j) /\ UNCHANGED <<process, polled>>)

-----------------------------------------------------------------------------
(* A process with a worker for every stage, as build_runtime makes it when *)
(* it is given a GitHub token, which is not stopped and does not fail.     *)
Complete(p) == \A s \in ActiveStates : \E w \in WorkersOf(p) : StageOf[w] = s

StaysUp(p) == Complete(p) /\ <>[](process[p] = "up")

(* Finished, or waiting for a person.                                      *)
AtRest(j) ==
  \/ Terminal(job[j])
  \/ job[j].status = "awaiting_approval"
  \/ job[j].status = "approved" /\ ~MutationApproved(j)

(* Waiting for a worker that no longer may claim it.                       *)
OutOfClaims(j) ==
  job[j].status \in {"queued", "approved"} /\ ~BudgetLeft(j, job[j])

(* Leased to a worker that is gone.  Nobody gives it back.                 *)
Abandoned(j) == Active(job[j]) /\ \A w \in Workers : ~Holds(w, j)

(* If a complete process stays up, whatever waits for a worker or is being *)
(* worked on finishes, waits for a person or is out of claims, unless an   *)
(* earlier process was stopped or failed under it.  The process may have   *)
(* to wait for retries, and each of its cycles for the slowest worker.     *)
WorkSettles ==
  (\E p \in Processes : StaysUp(p)) =>
    \A j \in Jobs :
      job[j].status \in {"queued", "retry_scheduled"} \/ Active(job[j])
        ~> AtRest(j) \/ OutOfClaims(j) \/ Abandoned(j)
=============================================================================
