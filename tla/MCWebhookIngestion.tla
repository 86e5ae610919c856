-------------------------- MODULE MCWebhookIngestion --------------------------
(* Instances of WebhookIngestion: a pull request that is opened, and       *)
(* closed and reopened without a new head.                                 *)
EXTENDS WebhookIngestion, TLC

CONSTANTS d1, d2, p1, h1, f1, f2, x, y, w1, w2

OpenedReopened ==
  d1 :> [pull |-> p1, head |-> h1, state |-> "open", at |-> 1] @@
  d2 :> [pull |-> p1, head |-> h1, state |-> "open", at |-> 2]

(* The base moves between two downloads: one file has another diff, the    *)
(* other is no longer part of the pull request.                            *)
BaseMoves == {f1 :> x @@ f2 :> x, f1 :> y @@ f2 :> "skip"}
=============================================================================
