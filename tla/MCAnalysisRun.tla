--------------------------- MODULE MCAnalysisRun ---------------------------
\* Two texts that differ only in case and two others; two chunks of one
\* rule and one of another, so that different chunks may name one violation.
EXTENDS AnalysisRun, TLC

MCFolded == ("q1" :> "q1") @@ ("Q1" :> "q1") @@ ("q2" :> "q2") @@ ("q3" :> "q3")
MCRuleOf == ("c1" :> "r1") @@ ("c2" :> "r1") @@ ("c3" :> "r2")
Finding(c, r, p, e) == [chunk |-> c, rule |-> r, place |-> p, exact |-> e]
MCProposable == {Finding("c1", "r1", 1, TRUE),     \* holds if c1 is found
                 Finding("c2", "r1", 1, TRUE),     \* the same violation
                 Finding("c3", "r2", 1, TRUE),     \* another rule
                 Finding("c1", "r2", 1, TRUE),     \* another chunk's rule
                 Finding("c2", "r1", 2, FALSE)}    \* not the input's text
=============================================================================
