------------------------- MODULE MCPlaybookRetrieval -------------------------
(* One playbook with texts of two sections, of one and of none.            *)
EXTENDS PlaybookRetrieval, TLC

CONSTANTS p1, i1, i2

MCSections ==
  [t \in Texts |-> CASE t = "A" -> {"logging", "caching"}
                     [] t = "B" -> {"logging"}
                     [] t = "blank" -> {}]

MCWeights == {<<1, 1>>, <<0, 1>>}

IngestorSymmetry == Permutations(Ingestors)
=============================================================================
