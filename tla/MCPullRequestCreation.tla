------------------------ MODULE MCPullRequestCreation ------------------------
(* Instances of PullRequestCreation for TLC.  Workers are interchangeable. *)
EXTENDS PullRequestCreation, TLC

CONSTANTS w1, w2

WorkerSymmetry == Permutations(Workers)
=============================================================================
