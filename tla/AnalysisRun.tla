---------------------------- MODULE AnalysisRun ----------------------------
(***************************************************************************)
(* One analysis of one input: the bounded loop of                          *)
(* BoundedAnalysisOrchestrator.run over a reasoner and a retrieval tool    *)
(* that may answer anything their contracts accept, the deterministic      *)
(* gate between the analyst and the evaluator, and the transaction that    *)
(* stores the result.  The executor is either the AnalysisWorker of the    *)
(* job queue, which retries and is recovered, or AnalysisService, which    *)
(* does neither; both may die between any two steps and lose all that      *)
(* run() keeps in memory.                                                  *)
(*                                                                         *)
(* Texts stand for query strings and Folded for their case-folded form.    *)
(* Positions in sequences count from one where the code counts from zero.  *)
(***************************************************************************)
EXTENDS Naturals, Sequences, FiniteSets

CONSTANTS Texts,          \* query strings a reasoner may ask for
          Folded,         \* Folded[t] = casefold of t
          Chunks,         \* playbook chunks that a search may return
          RuleOf,         \* RuleOf[c] = rule key of a chunk
          Proposable,     \* the findings an analyst may propose
          MaxIterations, MaxInitial, MaxAdditional, MaxTotal, MaxEvidence,
          TopK,           \* results of one search
          MaxAnswer,      \* bound: length of one answer of the reasoner
          MaxAttempts     \* claims of the job

Unwritten == [status |-> "none"]

\* A finding cites a chunk, a rule key and a place in the input; `exact' says
\* whether path, line range and excerpt are those of the input.
ASSUME LimitsAssumption ==
  /\ {MaxIterations, MaxInitial, MaxAdditional, MaxTotal, MaxEvidence,
      TopK, MaxAnswer, MaxAttempts} \subseteq Nat \ {0}
  /\ MaxInitial <= MaxTotal
ASSUME VocabularyAssumption ==
  /\ DOMAIN Folded = Texts /\ DOMAIN RuleOf = Chunks
  /\ \A f \in Proposable :
       DOMAIN f = {"chunk", "rule", "place", "exact"} /\ f.exact \in BOOLEAN

Terminal == {"completed_clean", "review_required", "inconclusive", "failed"}
Verdict == {"supported", "unsupported"}

VARIABLES caller,      \* who runs the analysis: "worker" or "service"
          run,         \* the row of analysis_runs, and the job's attempts
          audit,       \* what persist_result stored
          pc,          \* where the executor is; "off" when none runs
          error,       \* the exception that is being handled
          pending,     \* queries of the current _retrieve still to search
          queries,     \* all_queries
          evidence,    \* evidence_by_chunk: chunk -> query that found it
          iteration,
          findings,    \* the findings that passed the gate this iteration
          rejected,    \* rejected_findings
          result       \* the AnalysisResult that run() returned

working == <<pending, queries, evidence, iteration, findings, rejected>>
vars == <<caller, run, audit, pc, error, working, result>>

-----------------------------------------------------------------------------
(* The pure parts of the loop. *)

UpTo(S, n) == UNION {[1..k -> S] : k \in 0..n}
Ran(s) == {s[i] : i \in DOMAIN s}
NoEvidence == [c \in {} |-> c]

\* The elements of s at the positions in P, in order.
Chosen(s, P) ==
  [k \in 1..Cardinality(P) |->
     s[CHOOSE i \in P : Cardinality({j \in P : j < i}) = k - 1]]

\* The first `limit' members of P.
Leading(P, limit) == {i \in P : Cardinality({j \in P : j < i}) < limit}

\* Queries whose folded text is new, each once, cut at the limit.
BoundedUnique(asked, limit, existing) ==
  LET known == {Folded[existing[i]] : i \in DOMAIN existing}
      fresh == {i \in DOMAIN asked :
                  /\ Folded[asked[i]] \notin known
                  /\ \A j \in 1..(i - 1) : Folded[asked[j]] # Folded[asked[i]]}
  IN Chosen(asked, Leading(fresh, limit))

\* Results of a search join the evidence until it is full; a chunk that is
\* known keeps the query that found it first.
Gathered(known, found, query) ==
  LET new == {i \in DOMAIN found :
                /\ found[i] \notin DOMAIN known
                /\ \A j \in 1..(i - 1) : found[j] # found[i]}
      taken == {found[i] : i \in
                  Leading(new, MaxEvidence - Cardinality(DOMAIN known))}
  IN [c \in DOMAIN known \cup taken |->
        IF c \in DOMAIN known THEN known[c] ELSE query]

\* What makes two findings one: the rule and the lines, not the chunk.
Identity(f) == <<f.rule, f.place>>

\* The citation holds: a chunk this run retrieved, its rule, the input's text.
Cited(f, known) ==
  /\ f.chunk \in DOMAIN known
  /\ f.rule = RuleOf[f.chunk]
  /\ f.exact

\* Slip: repetitions of a finding pass the gate.
AcceptedRepeats(proposal, known) ==
  {i \in DOMAIN proposal : Cited(proposal[i], known)}

\* Positions validate_findings accepts: cited, and the first of its identity.
Accepted(proposal, known) ==
  {i \in DOMAIN proposal :
     /\ Cited(proposal[i], known)
     /\ \A j \in 1..(i - 1) : Cited(proposal[j], known)
          => Identity(proposal[j]) # Identity(proposal[i])}

\* What an evaluator may return: each finding decided at most once.
Decision == [finding : 1..(MaxAnswer + 1), verdict : Verdict]
Decisions ==
  {d \in UpTo(Decision, MaxAnswer) :
     \A i, j \in DOMAIN d : d[i].finding = d[j].finding => i = j}

Decided(decisions) == {decisions[i].finding : i \in DOMAIN decisions}
Supporting(decisions) ==
  {i \in DOMAIN decisions : decisions[i].verdict = "supported"}

\* The supported findings as run() lists them: in the order of the decisions.
Supported(found, decisions) ==
  [k \in DOMAIN Chosen(decisions, Supporting(decisions)) |->
     found[Chosen(decisions, Supporting(decisions))[k].finding]]

\* The supported findings as _validate_result_consistency lists them: in the
\* order of the findings.
Expected(found, decisions) ==
  Chosen(found, {decisions[i].finding : i \in Supporting(decisions)})

Consistent(res) ==
  res.findings = IF res.status = "review_required"
                   THEN Expected(res.evaluated, res.decisions) ELSE <<>>

\* The verdict stored for the finding at position i.
Review(res, i) ==
  IF i \in Decided(res.decisions)
    THEN res.decisions[CHOOSE k \in DOMAIN res.decisions :
                         res.decisions[k].finding = i].verdict
    ELSE "undecided"

\* The rows of one persist_result.
Rows(res) ==
  [status |-> res.status, queries |-> res.queries, evidence |-> res.evidence,
   reviews |-> [i \in DOMAIN res.evaluated |->
                  [finding |-> res.evaluated[i], verdict |-> Review(res, i)]],
   violations |-> IF res.status # "review_required" THEN {}
                  ELSE {i \in DOMAIN res.evaluated :
                          Review(res, i) = "supported"},
   rejections |-> res.rejected]

-----------------------------------------------------------------------------
Idle == /\ pending = <<>> /\ queries = <<>> /\ evidence = NoEvidence
        /\ iteration = 0 /\ findings = <<>> /\ rejected = <<>>

\* Slip: the list of queries outlives the call.
ForgetAllButQueries ==
  /\ pending' = <<>> /\ evidence' = NoEvidence
  /\ iteration' = 0 /\ findings' = <<>> /\ rejected' = <<>>
  /\ UNCHANGED queries

\* The locals of run() are gone.
Forget == /\ pending' = <<>> /\ queries' = <<>> /\ evidence' = NoEvidence
          /\ iteration' = 0 /\ findings' = <<>> /\ rejected' = <<>>

Init ==
  /\ caller \in {"worker", "service"}
  /\ run = [status |-> "queued", attempt |-> 0]
  /\ audit = Unwritten
  /\ pc = "off" /\ error = "none"
  /\ Idle
  /\ result = Unwritten

\* begin_analysis under a claim; create_run inserts the row as analyzing.  After
\* a crash there is another claim only if the lease of the last was recovered.
Begin ==
  /\ pc = "off"
  /\ run.status \in {"queued", "analyzing"}
  /\ run.attempt < IF caller = "worker" THEN MaxAttempts ELSE 1
  /\ run' = [status |-> "analyzing", attempt |-> run.attempt + 1]
  /\ pc' = "plan"
  /\ UNCHANGED <<caller, audit, error, working, result>>

Raise(e) ==
  /\ pc' = "raised" /\ error' = e
  /\ Forget
  /\ UNCHANGED <<caller, run, audit>> /\ result' = Unwritten

\* plan_queries, and the bound on what it planned.
Plan ==
  /\ pc = "plan"
  /\ \E asked \in UpTo(Texts, MaxAnswer) :
       LET initial == BoundedUnique(asked, MaxInitial, <<>>) IN
         IF initial = <<>>
           THEN Raise("contract")
           ELSE /\ pending' = initial /\ pc' = "retrieve"
                /\ UNCHANGED <<caller, run, audit, error, queries, evidence,
                               iteration, findings, rejected, result>>

\* Slip: a search that finds nothing new is not recorded.
SearchUnrecorded ==
  /\ pc = "retrieve" /\ pending # <<>>
  /\ Cardinality(DOMAIN evidence) < MaxEvidence
  /\ \E found \in UpTo(Chunks, TopK) :
       /\ evidence' = Gathered(evidence, found, Head(pending))
       /\ queries' = IF Len(found) < TopK THEN queries
                                          ELSE Append(queries, Head(pending))
       /\ pending' = Tail(pending)
  /\ UNCHANGED <<caller, run, audit, pc, error, iteration, findings, rejected,
                 result>>

\* One turn of _retrieve's loop: a search, or the stop at a full evidence set.
Search ==
  /\ pc = "retrieve" /\ pending # <<>>
  /\ Cardinality(DOMAIN evidence) < MaxEvidence
  /\ \E found \in UpTo(Chunks, TopK) :
       /\ evidence' = Gathered(evidence, found, Head(pending))
       /\ queries' = Append(queries, Head(pending))
       /\ pending' = Tail(pending)
  /\ UNCHANGED <<caller, run, audit, pc, error, iteration, findings, rejected,
                 result>>

\* Slip: a round that searched nothing does not count as an iteration.
RetrievedUncounted ==
  /\ pc = "retrieve"
  /\ pending = <<>> \/ Cardinality(DOMAIN evidence) >= MaxEvidence
  /\ pending' = <<>>
  /\ iteration' = IF pending = <<>> \/ iteration = 0 THEN iteration + 1
                                                    ELSE iteration
  /\ pc' = "propose"
  /\ UNCHANGED <<caller, run, audit, error, queries, evidence, findings,
                 rejected, result>>

\* _retrieve returns, and the next iteration of run() starts.
Retrieved ==
  /\ pc = "retrieve"
  /\ pending = <<>> \/ Cardinality(DOMAIN evidence) >= MaxEvidence
  /\ pending' = <<>>
  /\ iteration' = iteration + 1
  /\ pc' = "propose"
  /\ UNCHANGED <<caller, run, audit, error, queries, evidence, findings,
                 rejected, result>>

\* run() returns: its locals are gone and the result is handed over.
Return(status, supported, evaluated, decisions, refused) ==
  /\ result' = [status |-> status, findings |-> supported,
                evaluated |-> evaluated, decisions |-> decisions,
                rejected |-> refused, evidence |-> evidence,
                queries |-> queries, iterations |-> iteration]
  /\ pc' = "persist"
  /\ Forget
  /\ UNCHANGED <<caller, run, audit, error>>

\* propose_findings and the deterministic gate.
Propose ==
  /\ pc = "propose"
  /\ \/ Return("inconclusive", <<>>, <<>>, <<>>, rejected)
     \/ \E proposal \in UpTo(Proposable, MaxAnswer) :
          LET accepted == Accepted(proposal, evidence)
              refused == rejected
                           \o Chosen(proposal, DOMAIN proposal \ accepted) IN
            IF accepted = {}
              THEN Return("completed_clean", <<>>, <<>>, <<>>, refused)
              ELSE /\ findings' = Chosen(proposal, accepted)
                   /\ rejected' = refused
                   /\ pc' = "evaluate"
                   /\ UNCHANGED <<caller, run, audit, error, pending, queries,
                                  evidence, iteration, result>>

\* Slip: the check that every finding is decided is left out.
ConcludeIncomplete ==
  /\ pc = "evaluate"
  /\ \E decisions \in Decisions :
       /\ Decided(decisions) \subseteq DOMAIN findings
       /\ LET supported == Supported(findings, decisions) IN
            Return(IF supported = <<>> THEN "completed_clean"
                                       ELSE "review_required",
                   supported, findings, decisions, rejected)

\* evaluate_findings answered with a verdict on every finding.
Conclude ==
  /\ pc = "evaluate"
  /\ \E decisions \in Decisions :
       /\ Decided(decisions) = DOMAIN findings
       /\ LET supported == Supported(findings, decisions) IN
            Return(IF supported = <<>> THEN "completed_clean"
                                       ELSE "review_required",
                   supported, findings, decisions, rejected)

\* It decided an unknown finding, or asked for nothing and left one open.
Misjudge ==
  /\ pc = "evaluate"
  /\ \E decisions \in Decisions : Decided(decisions) # DOMAIN findings
  /\ Raise("contract")

\* Slip: the limit on additional queries is taken for the limit of the run.
NextRoundUncapped(asked) ==
  IF iteration = MaxIterations \/ Len(queries) >= MaxTotal
    THEN <<>> ELSE BoundedUnique(asked, MaxAdditional, queries)

\* The queries of another round, if the limits allow one.
NextRound(asked) ==
  LET capacity == MaxTotal - Len(queries)
      limit == IF capacity < MaxAdditional THEN capacity ELSE MaxAdditional
  IN IF iteration = MaxIterations \/ Len(queries) >= MaxTotal
       THEN <<>> ELSE BoundedUnique(asked, limit, queries)

\* It asked for more context: another round, or the run is inconclusive.
AskForContext ==
  /\ pc = "evaluate"
  /\ \E decisions \in Decisions, asked \in UpTo(Texts, MaxAnswer) \ {<<>>} :
       /\ Decided(decisions) \subseteq DOMAIN findings
       /\ IF NextRound(asked) = <<>>
            THEN Return("inconclusive", <<>>, findings, decisions, rejected)
            ELSE /\ pending' = NextRound(asked) /\ pc' = "retrieve"
                 /\ findings' = <<>>
                 /\ UNCHANGED <<caller, run, audit, error, queries, evidence,
                                iteration, rejected, result>>

\* A call to the model or to retrieval raises; or its answer breaks a contract.
CallFails ==
  /\ pc \in {"plan", "retrieve", "propose", "evaluate"}
  /\ pc = "retrieve" => pending # <<>>
  /\ \E e \in {"contract", "transient", "database"} :
       /\ e = "database" => pc = "retrieve"
       /\ Raise(e)

\* persist_result with the status change, in one transaction.
Storable(res) ==
  /\ Consistent(res)
  /\ \A c \in DOMAIN res.evidence : res.evidence[c] \in Ran(res.queries)

Persist ==
  /\ pc = "persist"
  /\ Storable(result) /\ run.status = "analyzing"
  /\ run' = [run EXCEPT !.status = result.status]
  /\ audit' = Rows(result)
  /\ result' = Unwritten
  /\ \/ pc' = "off" /\ UNCHANGED error
     \/ pc' = "raised" /\ error' = "database"       \* the answer is lost
  /\ UNCHANGED <<caller, working>>

\* Nothing is written: the checks of persist_result refuse the result.
Refuse == /\ pc = "persist" /\ ~Storable(result) /\ Raise("refused")

\* Nothing is written: the database is away, now or at a heartbeat before.
PersistFails == /\ pc = "persist" /\ Raise("database")

\* classify_failure knows rate limits, timeouts and ConnectionError; an error
\* of the database driver is none of these and counts as an invalid contract.
Retryable == {"transient"}

Retries == /\ caller = "worker" /\ error \in Retryable
           /\ run.attempt < MaxAttempts

\* Slip: the status is written without a look at the present one.
HandleErrorUnguarded ==
  /\ pc = "raised"
  /\ run' = [run EXCEPT !.status = IF ~Retries THEN "failed" ELSE @]
  /\ pc' = "off" /\ error' = "none"
  /\ UNCHANGED <<caller, audit, working, result>>

\* schedule_failure, which finds the lease gone after a commit, or fail_run.
HandleError ==
  /\ pc = "raised"
  /\ run' = [run EXCEPT !.status =
               IF run.status = "analyzing" /\ ~Retries THEN "failed" ELSE @]
  /\ pc' = "off" /\ error' = "none"
  /\ UNCHANGED <<caller, audit, working, result>>

\* The process dies, or a worker finds its lease lost; nothing it held survives.
Crash ==
  /\ pc # "off"
  /\ pc' = "off" /\ error' = "none" /\ result' = Unwritten
  /\ Forget
  /\ UNCHANGED <<caller, run, audit>>

\* recover_expired_leases, should anyone call it, finds the job's last attempt
\* expired.
Recover ==
  /\ caller = "worker" /\ pc = "off"
  /\ run.status = "analyzing" /\ run.attempt = MaxAttempts
  /\ run' = [run EXCEPT !.status = "failed"]
  /\ UNCHANGED <<caller, audit, pc, error, working, result>>

Done == /\ pc = "off" /\ run.status \in Terminal /\ UNCHANGED vars
\* A run of AnalysisService whose process died stays as it was; so does one of a
\* worker, unless its lease is recovered.
Abandoned == /\ pc = "off" /\ caller = "service"
             /\ run = [status |-> "analyzing", attempt |-> 1]
             /\ UNCHANGED vars

\* What an executor does when its calls return.
Step == \/ Plan \/ Search \/ Retrieved \/ Propose
        \/ Conclude \/ Misjudge \/ AskForContext
        \/ Persist \/ Refuse \/ HandleError

Next == Begin \/ Step \/ CallFails \/ PersistFails \/ Crash \/ Recover
        \/ Done \/ Abandoned

\* Calls return, or raise.  Nobody has to claim the job, to recover its lease or
\* to start a process again.
Spec == Init /\ [][Next]_vars /\ WF_vars(Step)

-----------------------------------------------------------------------------
(* Properties. *)

Locals ==
  /\ Ran(pending) \subseteq Texts /\ Ran(queries) \subseteq Texts
  /\ DOMAIN evidence \subseteq Chunks
  /\ Ran(findings) \cup Ran(rejected) \subseteq Proposable

\* Type invariant: the row, what is stored, where the executor is and what it
\* holds; outside a call of run() it holds nothing.
TypeOK ==
  /\ caller \in {"worker", "service"}
  /\ run \in [status : {"queued", "analyzing"} \cup Terminal,
             attempt : 0..MaxAttempts]
  /\ pc \in {"off", "plan", "retrieve", "propose", "evaluate", "persist",
            "raised"}
  /\ error \in {"none", "contract", "transient", "database", "refused"}
  /\ error # "none" <=> pc = "raised"
  /\ result # Unwritten <=> pc = "persist"
  /\ pc \in {"off", "plan", "persist", "raised"} => Idle
  /\ Locals

\* Whatever the model answers, a run stays within its limits: queries are
\* pairwise different after case folding and within the total with those
\* still to search, evidence and iterations are capped, and so is what the
\* stored run says it did.
LimitsHold ==
  LET asked == queries \o pending IN
    /\ Len(asked) <= MaxTotal
    /\ \A i, j \in DOMAIN asked : Folded[asked[i]] = Folded[asked[j]] => i = j
    /\ Cardinality(DOMAIN evidence) <= MaxEvidence
    /\ iteration <= MaxIterations
    /\ audit # Unwritten =>
         /\ Len(audit.queries) \in 1..MaxTotal
         /\ Cardinality(DOMAIN audit.evidence) <= MaxEvidence

\* Every stored violation rests on stored rows: the evaluator supports it, the
\* chunk it cites was retrieved by a query of this run and carries its rule,
\* its place and excerpt are the input's, and no second violation names the
\* same rule and place.
ViolationsAreGrounded ==
  audit # Unwritten => \A i \in audit.violations :
    LET f == audit.reviews[i].finding IN
      /\ audit.reviews[i].verdict = "supported"
      /\ Cited(f, audit.evidence)
      /\ audit.evidence[f.chunk] \in Ran(audit.queries)
      /\ \A j \in audit.violations :
           Identity(audit.reviews[j].finding) = Identity(f) => i = j

\* The stored status agrees with the stored verdicts: a review is required
\* exactly when there is a violation, a clean run left nothing open or
\* supported, and a finding is left undecided only by an inconclusive run.
StatusMatchesVerdicts ==
  audit # Unwritten =>
    LET verdicts == {audit.reviews[i].verdict : i \in DOMAIN audit.reviews} IN
      /\ audit.status = "review_required" <=> audit.violations # {}
      /\ audit.status = "completed_clean" => verdicts \subseteq {"unsupported"}
      /\ "undecided" \in verdicts => audit.status = "inconclusive"

\* persist_result refuses a result of the orchestrator for one reason only:
\* the evaluator did not decide the findings in their order.
OnlyOrderIsRefused ==
  pc = "persist" /\ ~Storable(result) =>
    \E i, j \in DOMAIN result.decisions :
      /\ i < j
      /\ result.decisions[i].finding > result.decisions[j].finding

\* Audit rows appear only in the step that ends an analyzing run, and a run
\* that ended keeps its status and its rows: not even an executor whose commit
\* went through and whose answer was lost marks it failed.
EndedRunsStay ==
  [][/\ run.status \in Terminal => UNCHANGED <<run, audit>>
     /\ audit' # audit => run.status = "analyzing" /\ run'.status \in Terminal
    ]_vars

\* Whatever is asked, found and judged, an attempt ends by itself: rounds that
\* ask for more context, repeat queries or find nothing new use up a limit.
AttemptsEnd == pc # "off" ~> pc = "off"

\* docs/analysis.md: a run with a supported proposal is review_required and
\* its result is persisted.  Refused by persist_result when the evaluator
\* decides the findings in another order than they were proposed in.
SupportedNeedsReview ==
  pc = "persist" /\ result.status = "review_required" => Storable(result)

=============================================================================
