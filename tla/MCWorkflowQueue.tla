--------------------------- MODULE MCWorkflowQueue ---------------------------
(***************************************************************************)
(* Instances of WorkflowQueue for TLC.  One job has the budget to reach    *)
(* its pull request with a retry to spare, the other is short of attempts. *)
(***************************************************************************)
EXTENDS WorkflowQueue, TLC

CONSTANTS j1, j2

OneAmpleOneShort == (j1 :> 5) @@ (j2 :> 2)

(* Four claims, one for each stage.                                        *)
OnePerStage == [j \in Jobs |-> 4]

(* The default of api/models.py and of migration 005.                      *)
DefaultBudget == [j \in Jobs |-> 3]

(* Workers are interchangeable.                                            *)
WorkerSymmetry == Permutations(Workers)
=============================================================================
