---------------------------- MODULE MCWorkerRuntime ----------------------------
(* One process of scripts/run_workers.py with a worker for each stage.     *)
EXTENDS WorkerRuntime, TLC

CONSTANTS j1, j2, p1, analysis, patch_generation, patch_validation, github_pr

OneProcess == [w \in Workers |-> p1]

Stages ==
  analysis :> "analyzing" @@ patch_generation :> "generating_patch" @@
  patch_validation :> "validating_patch" @@ github_pr :> "creating_pr"

(* Enough for one job and a retry; the other has a single claim.           *)
FiveAndOne == (j1 :> 5) @@ (j2 :> 1)
=============================================================================
