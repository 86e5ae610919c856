------------------------ MODULE AnalysisRun_proofs ------------------------
(***************************************************************************)
(* What is stored of an analysis agrees with itself, and stays, for every  *)
(* reasoner, every search and every setting of the limits.  The invariant  *)
(* IInv says of the result that run() hands over what the properties say   *)
(* of the rows: the transaction copies it, whether or not its checks hold. *)
(* A second invariant, LInv, follows queries, evidence and findings        *)
(* through the loop: the limits hold, every stored violation is grounded,  *)
(* and the one result that is refused is one with decisions out of order.  *)
(***************************************************************************)
EXTENDS AnalysisRun, FiniteSetTheorems, FunctionTheorems, SequenceTheorems,
        TLAPS

Verdicts(a) == {a.reviews[i].verdict : i \in DOMAIN a.reviews}

\* StatusMatchesVerdicts of the rows a.
Agrees(a) ==
  /\ a.status = "review_required" <=> a.violations # {}
  /\ a.status = "completed_clean" => Verdicts(a) \subseteq {"unsupported"}
  /\ "undecided" \in Verdicts(a) => a.status = "inconclusive"

Results == {"completed_clean", "review_required", "inconclusive"}

HandedOver == result.status \in Results /\ Agrees(Rows(result))

IInv ==
  /\ audit # Unwritten => Agrees(audit)
  /\ pc = "persist" => HandedOver

-----------------------------------------------------------------------------

LEMMA NoneChosen ==
  ASSUME NEW s, NEW P, IsFiniteSet(P)
  PROVE  DOMAIN Chosen(s, P) = {} <=> P = {}
<1>1. DOMAIN Chosen(s, P) = 1..Cardinality(P) /\ Cardinality(P) \in Nat
  BY FS_CardinalityType DEF Chosen
<1>2. Cardinality(P) = 0 <=> P = {}
  BY FS_EmptySet
<1> QED BY <1>1, <1>2

LEMMA FiniteAnswer ==
  ASSUME NEW S, NEW n \in Nat, NEW d \in UpTo(S, n)
  PROVE  IsFiniteSet(DOMAIN d)
<1>1. PICK k \in 0..n : d \in [1..k -> S]
  BY DEF UpTo
<1> QED BY <1>1, FS_Interval

\* The verdict of a decision is what is stored for its finding.
LEMMA Reviewed ==
  ASSUME NEW res, res.decisions \in Decisions, NEW k \in DOMAIN res.decisions
  PROVE  Review(res, res.decisions[k].finding) = res.decisions[k].verdict
<1> DEFINE d == res.decisions
           i == d[k].finding
<1>1. \A l \in DOMAIN d : d[l].finding = i => l = k
  BY DEF Decisions
<1>2. i \in Decided(d)
  BY DEF Decided
<1>3. (CHOOSE l \in DOMAIN d : d[l].finding = i) = k
  BY <1>1
<1> QED BY <1>2, <1>3 DEF Review

\* Nothing is listed as supported only if no decision supports anything.
LEMMA NoneSupported ==
  ASSUME NEW found, NEW d \in Decisions
  PROVE  Supported(found, d) = <<>> <=> Supporting(d) = {}
<1>1. IsFiniteSet(Supporting(d))
  <2>1. MaxAnswer \in Nat
    BY LimitsAssumption
  <2> QED BY <2>1, FiniteAnswer, FS_Subset DEF Decisions, Supporting
<1>2. DOMAIN Supported(found, d) = DOMAIN Chosen(d, Supporting(d))
  BY DEF Supported
<1>3. DOMAIN Supported(found, d) = {} <=> Supporting(d) = {}
  BY <1>1, <1>2, NoneChosen
<1>4. Supported(found, d) = <<>> <=> DOMAIN Supported(found, d) = {}
  BY DEF Supported
<1> QED BY <1>3, <1>4

\* When the rows of a result agree, in terms of its findings.
LEMMA RowsAgree ==
  ASSUME NEW res, res.status \in Results,
         res.status = "review_required" =>
           \E i \in DOMAIN res.evaluated : Review(res, i) = "supported",
         res.status = "completed_clean" =>
           \A i \in DOMAIN res.evaluated : Review(res, i) = "unsupported",
         res.status = "review_required" =>
           \A i \in DOMAIN res.evaluated : Review(res, i) # "undecided"
  PROVE  Agrees(Rows(res))
<1> DEFINE a == Rows(res)
<1>1. a.status = res.status
  BY DEF Rows
<1>2. Verdicts(a) = {Review(res, i) : i \in DOMAIN res.evaluated}
  BY DEF Verdicts, Rows
<1>3. a.violations = IF res.status # "review_required" THEN {}
                     ELSE {i \in DOMAIN res.evaluated :
                             Review(res, i) = "supported"}
  BY DEF Rows
<1>4. Agrees(a)
  <2> HIDE DEF a
  <2> QED BY <1>1, <1>2, <1>3 DEF Agrees, Results
<1> QED BY <1>4

LEMMA Returned ==
  ASSUME NEW status, NEW supported, NEW evaluated, NEW decisions, NEW refused,
         Return(status, supported, evaluated, decisions, refused)
  PROVE  /\ result'.status = status /\ result'.evaluated = evaluated
         /\ result'.decisions = decisions
         /\ audit' = audit /\ run' = run
BY DEF Return

-----------------------------------------------------------------------------

LEMMA ProposeKeeps == ASSUME IInv, Propose PROVE IInv'
<1>1. audit' = audit
  BY DEF Propose, Return
<1>2. CASE Return("inconclusive", <<>>, <<>>, <<>>, rejected)
  <2>1. result'.status = "inconclusive"
    BY <1>2, Returned
  <2>2. Agrees(Rows(result'))
    BY <2>1, RowsAgree DEF Results
  <2> QED BY <1>1, <2>1, <2>2 DEF IInv, HandedOver, Results
<1>3. ASSUME NEW refused,
             Return("completed_clean", <<>>, <<>>, <<>>, refused)
      PROVE  IInv'
  <2>1. result'.status = "completed_clean" /\ result'.evaluated = <<>>
    BY <1>3, Returned
  <2>2. Agrees(Rows(result'))
    BY <2>1, RowsAgree DEF Results
  <2> QED BY <1>1, <2>1, <2>2 DEF IInv, HandedOver, Results
<1>4. CASE pc' = "evaluate"
  BY <1>1, <1>4 DEF IInv
<1> QED BY <1>2, <1>3, <1>4 DEF Propose

LEMMA ConcludeKeeps == ASSUME IInv, Conclude PROVE IInv'
<1>1. PICK d \in Decisions :
        /\ Decided(d) = DOMAIN findings
        /\ Return(IF Supported(findings, d) = <<>> THEN "completed_clean"
                                                   ELSE "review_required",
                  Supported(findings, d), findings, d, rejected)
  BY DEF Conclude
<1>2. /\ result'.status = IF Supported(findings, d) = <<>>
                            THEN "completed_clean" ELSE "review_required"
      /\ result'.evaluated = findings /\ result'.decisions = d
      /\ audit' = audit
  BY <1>1, Returned
<1>3. \A k \in DOMAIN d : Review(result', d[k].finding) = d[k].verdict
  BY <1>2, Reviewed
<1>4. \A i \in DOMAIN findings : \E k \in DOMAIN d : d[k].finding = i
  BY <1>1 DEF Decided
<1>5. \A k \in DOMAIN d : d[k].verdict \in Verdict /\ d[k].finding \in Decided(d)
  BY DEF Decisions, UpTo, Decision, Decided
<1>6. Supported(findings, d) = <<>> <=> Supporting(d) = {}
  BY NoneSupported
<1>7. CASE Supporting(d) = {}
  <2>1. \A i \in DOMAIN findings : Review(result', i) = "unsupported"
    BY <1>3, <1>4, <1>5, <1>7 DEF Supporting, Verdict
  <2>2. result'.status = "completed_clean"
    BY <1>2, <1>6, <1>7
  <2>3. Agrees(Rows(result'))
    BY <1>2, <2>1, <2>2, RowsAgree DEF Results
  <2> QED BY <1>2, <2>2, <2>3 DEF IInv, HandedOver, Results
<1>8. CASE Supporting(d) # {}
  <2>1. PICK k \in DOMAIN d : d[k].verdict = "supported"
    BY <1>8 DEF Supporting
  <2>2. d[k].finding \in DOMAIN findings
        /\ Review(result', d[k].finding) = "supported"
    BY <1>1, <1>3, <1>5, <2>1
  <2>3. \A i \in DOMAIN findings : Review(result', i) # "undecided"
    BY <1>3, <1>4, <1>5 DEF Verdict
  <2>4. result'.status = "review_required"
    BY <1>2, <1>6, <1>8
  <2>5. Agrees(Rows(result'))
    BY <1>2, <2>2, <2>3, <2>4, RowsAgree DEF Results
  <2> QED BY <1>2, <2>4, <2>5 DEF IInv, HandedOver, Results
<1> QED BY <1>7, <1>8

LEMMA AskKeeps == ASSUME IInv, AskForContext PROVE IInv'
<1>1. audit' = audit
  BY DEF AskForContext, Return
<1>2. ASSUME NEW d, Return("inconclusive", <<>>, findings, d, rejected)
      PROVE  IInv'
  <2>1. result'.status = "inconclusive"
    BY <1>2, Returned
  <2>2. Agrees(Rows(result'))
    BY <2>1, RowsAgree DEF Results
  <2> QED BY <1>1, <2>1, <2>2 DEF IInv, HandedOver, Results
<1>3. CASE pc' = "retrieve"
  BY <1>1, <1>3 DEF IInv
<1> QED BY <1>2, <1>3 DEF AskForContext

LEMMA PersistKeeps == ASSUME IInv, Persist PROVE IInv'
<1>1. audit' = Rows(result) /\ pc' # "persist"
  BY DEF Persist
<1>2. Agrees(Rows(result))
  BY DEF IInv, HandedOver, Persist
<1> QED BY <1>1, <1>2 DEF IInv

\* Every other step stores nothing and hands nothing over.
LEMMA OtherStepsKeep ==
  ASSUME IInv, \/ Begin \/ Plan \/ Search \/ Retrieved \/ Misjudge
               \/ CallFails \/ Refuse \/ PersistFails \/ HandleError
               \/ Crash \/ Recover \/ UNCHANGED vars
  PROVE  IInv'
<1>1. audit' = audit
  BY DEF Begin, Plan, Search, Retrieved, Misjudge, CallFails, Refuse,
         PersistFails, HandleError, Crash, Recover, Raise, vars
<1>2. pc' # "persist" \/ (pc' = pc /\ result' = result)
  BY DEF Begin, Plan, Search, Retrieved, Misjudge, CallFails, Refuse,
         PersistFails, HandleError, Crash, Recover, Raise, vars
<1> QED BY <1>1, <1>2 DEF IInv, HandedOver

LEMMA InitIInv == Init => IInv
BY DEF Init, IInv

LEMMA NextIInv == IInv /\ [Next]_vars => IInv'
BY ProposeKeeps, ConcludeKeeps, AskKeeps, PersistKeeps, OtherStepsKeep
   DEF Next, Step, Done, Abandoned

LEMMA Invariance == Spec => []IInv
BY InitIInv, NextIInv, PTL DEF Spec

\* The status of a stored run agrees with the stored verdicts, whatever the
\* evaluator decided and in whatever order.
THEOREM AuditAgrees == Spec => []StatusMatchesVerdicts
<1>1. IInv => StatusMatchesVerdicts
  BY DEF IInv, Agrees, Verdicts, StatusMatchesVerdicts
<1> QED BY <1>1, Invariance, PTL

LEMMA OthersStoreNothing == ASSUME Next, ~Persist PROVE audit' = audit
BY DEF Next, Step, Begin, Plan, Search, Retrieved, Propose, Conclude, Misjudge,
       AskForContext, Refuse, HandleError, Recover, CallFails, PersistFails,
       Crash, Done, Abandoned, Raise, Return, vars

\* The row of the run, as far as it matters that a write of the status it has
\* changes nothing.
Row == run \in [status : {"queued", "analyzing"} \cup Terminal, attempt : Nat]

LEMMA StatusWritten ==
  ASSUME Row, NEW s \in {"queued", "analyzing"} \cup Terminal,
         run' = [run EXCEPT !.status = s]
  PROVE  Row' /\ (s = run.status => run' = run)
BY DEF Row

LEMMA NextRow == ASSUME IInv, Row, [Next]_vars PROVE Row'
<1>1. CASE Begin
  BY <1>1 DEF Begin, Row
<1>2. CASE Persist
  <2>1. result.status \in Terminal
    BY <1>2 DEF IInv, HandedOver, Results, Terminal, Persist
  <2> QED BY <1>2, <2>1, StatusWritten DEF Persist
<1>3. CASE HandleError
  <2> DEFINE s == IF run.status = "analyzing" /\ ~Retries THEN "failed"
                                                         ELSE run.status
  <2>1. s \in {"queued", "analyzing"} \cup Terminal
    BY DEF Row, Terminal
  <2>2. run' = [run EXCEPT !.status = s]
    BY <1>3 DEF HandleError
  <2> QED BY <2>1, <2>2, StatusWritten
<1>4. CASE Recover
  BY <1>4, StatusWritten DEF Recover, Terminal
<1>5. CASE ~(Begin \/ Persist \/ HandleError \/ Recover)
  <2>1. run' = run
    BY <1>5 DEF Next, Step, Plan, Search, Retrieved, Propose, Conclude,
       Misjudge, AskForContext, Refuse, CallFails, PersistFails, Crash, Done,
       Abandoned, Raise, Return, vars
  <2> QED BY <2>1 DEF Row
<1> QED BY <1>1, <1>2, <1>3, <1>4, <1>5

LEMMA RowStays == Spec => []Row
<1>1. Init => Row
  BY DEF Init, Row
<1>2. IInv /\ Row /\ [Next]_vars => Row'
  BY NextRow
<1> QED BY <1>1, <1>2, Invariance, PTL DEF Spec

LEMMA PersistEnds ==
  ASSUME IInv, Row, Persist
  PROVE  run.status = "analyzing" /\ run'.status \in Terminal
<1>1. result.status \in Terminal
  BY DEF IInv, HandedOver, Results, Terminal, Persist
<1>2. run' = [run EXCEPT !.status = result.status] /\ run.status = "analyzing"
  BY DEF Persist
<1> QED BY <1>1, <1>2 DEF Row

LEMMA EndedIsNotWritten ==
  ASSUME Row, Next, ~Persist, run.status \in Terminal
  PROVE  run' = run
<1>1. CASE HandleError
  <2>1. run' = [run EXCEPT !.status = run.status]
    BY <1>1 DEF HandleError, Terminal
  <2> QED BY <2>1, StatusWritten DEF Row
<1>2. CASE ~HandleError
  BY <1>2 DEF Next, Step, Begin, Plan, Search, Retrieved, Propose, Conclude,
     Misjudge, AskForContext, Refuse, Recover, CallFails, PersistFails, Crash,
     Done, Abandoned, Raise, Return, vars, Terminal
<1> QED BY <1>1, <1>2

\* A run that ended keeps its status and its rows, although a commit's answer
\* may be lost, the executor may die, and recovery may meet the run later.
THEOREM EndedStay == Spec => EndedRunsStay
<1>1. IInv /\ Row /\ [Next]_vars =>
        [/\ run.status \in Terminal => UNCHANGED <<run, audit>>
         /\ audit' # audit => run.status = "analyzing" /\ run'.status \in Terminal
        ]_vars
  <2> SUFFICES ASSUME IInv, Row, Next
               PROVE  /\ run.status \in Terminal => UNCHANGED <<run, audit>>
                      /\ audit' # audit =>
                           run.status = "analyzing" /\ run'.status \in Terminal
    OBVIOUS
  <2>1. CASE Persist
    <3>1. run.status = "analyzing" /\ run'.status \in Terminal
      BY <2>1, PersistEnds
    <3> QED BY <3>1 DEF Terminal
  <2>2. CASE ~Persist
    <3>1. audit' = audit
      BY <2>2, OthersStoreNothing
    <3>2. run.status \in Terminal => run' = run
      BY <2>2, EndedIsNotWritten
    <3> QED BY <3>1, <3>2
  <2> QED BY <2>1, <2>2
<1> QED BY <1>1, Invariance, RowStays, PTL DEF Spec, EndedRunsStay

-----------------------------------------------------------------------------
(* Positions in order: what Chosen and Leading count.                      *)

Below(P, i) == Cardinality({j \in P : j < i})

LEMMA BelowGrows ==
  ASSUME NEW P \in SUBSET Nat, IsFiniteSet(P), NEW i \in P
  PROVE  /\ Below(P, i) \in 0..(Cardinality(P) - 1)
         /\ \A j \in P : i < j => Below(P, i) < Below(P, j)
<1>1. ASSUME NEW S \in SUBSET P
      PROVE  /\ IsFiniteSet(S) /\ Cardinality(S) \in Nat
             /\ Cardinality(S) <= Cardinality(P) /\ Cardinality(P) \in Nat
             /\ S # P => Cardinality(S) < Cardinality(P)
  <2>1. /\ IsFiniteSet(S) /\ Cardinality(S) <= Cardinality(P)
        /\ Cardinality(S) = Cardinality(P) => S = P
    BY <1>1, FS_Subset
  <2>2. Cardinality(S) \in Nat /\ Cardinality(P) \in Nat
    BY <2>1, FS_CardinalityType
  <2> QED BY <2>1, <2>2
<1>2. Below(P, i) \in 0..(Cardinality(P) - 1)
  <2>1. {j \in P : j < i} \in SUBSET P /\ {j \in P : j < i} # P
    OBVIOUS
  <2> QED BY <1>1, <2>1 DEF Below
<1>3. ASSUME NEW j \in P, i < j
      PROVE  Below(P, i) < Below(P, j)
  <2> DEFINE A == {k \in P : k < i}
             B == {k \in P : k < j}
  <2>1. A \in SUBSET B /\ A # B /\ B \in SUBSET P
    <3>1. i \in Nat /\ j \in Nat /\ \A k \in P : k \in Nat
      OBVIOUS
    <3>2. \A k \in P : k < i => k < j
      BY <1>3, <3>1
    <3>3. i \in B /\ i \notin A
      BY <1>3, <3>1
    <3> QED BY <3>2, <3>3
  <2>2. IsFiniteSet(B) /\ Cardinality(B) \in Nat
    BY <1>1, <2>1
  <2>3. /\ Cardinality(A) <= Cardinality(B) /\ IsFiniteSet(A)
        /\ Cardinality(A) = Cardinality(B) => B = A
    <3> HIDE DEF A, B
    <3> QED BY <2>1, <2>2, FS_Subset
  <2>4. Cardinality(A) \in Nat
    BY <2>3, FS_CardinalityType
  <2>5. Cardinality(A) < Cardinality(B)
    BY <2>1, <2>2, <2>3, <2>4
  <2> QED BY <2>5 DEF Below
<1> QED BY <1>2, <1>3

\* The position in P that has k - 1 positions of P before it.
Place(P, k) == CHOOSE i \in P : Below(P, i) = k - 1

LEMMA PlaceExists ==
  ASSUME NEW P \in SUBSET Nat, IsFiniteSet(P)
  PROVE  /\ \A k \in 1..Cardinality(P) :
              Place(P, k) \in P /\ Below(P, Place(P, k)) = k - 1
         /\ \A i \in P : /\ Below(P, i) + 1 \in 1..Cardinality(P)
                         /\ Place(P, Below(P, i) + 1) = i
         /\ Cardinality(P) \in Nat
<1> DEFINE n == Cardinality(P)
           T == 0..(n - 1)
           f == [i \in P |-> Below(P, i)]
<1>1. n \in Nat
  BY FS_CardinalityType
<1>2. \A i \in P : Below(P, i) \in T
  BY BelowGrows
<1>3. \A i, j \in P : Below(P, i) = Below(P, j) => i = j
  <2> SUFFICES ASSUME NEW i \in P, NEW j \in P, i < j
               PROVE  Below(P, i) # Below(P, j)
    OBVIOUS
  <2>1. Below(P, i) < Below(P, j)
    BY BelowGrows
  <2>2. Below(P, i) \in Nat /\ Below(P, j) \in Nat
    BY <1>1, <1>2
  <2> QED BY <2>1, <2>2
<1>4. IsFiniteSet(T) /\ Cardinality(T) = n
  <2>1. 0 \in Int /\ n - 1 \in Int
    BY <1>1
  <2>2. IsFiniteSet(T) /\ Cardinality(T) = IF 0 > n - 1 THEN 0 ELSE n - 1 - 0 + 1
    BY <2>1, FS_Interval
  <2> HIDE DEF T
  <2> QED BY <1>1, <2>2
<1> HIDE DEF T
<1>5. f \in [P -> T] /\ \A i, j \in P : f[i] = f[j] => i = j
  BY <1>2, <1>3
<1>6. f \in Injection(P, T)
  <2> HIDE DEF f
  <2> QED BY <1>5, Fun_IsInj
<1>7. f \in Surjection(P, T)
  <2> HIDE DEF f
  <2> QED BY <1>4, <1>6, FS_Injection
<1>8. \A t \in T : \E i \in P : f[i] = t
  <2> HIDE DEF f
  <2> QED BY <1>7, Fun_SurjectionProperties
<1>9. \A k \in 1..n : \E i \in P : Below(P, i) = k - 1
  <2> TAKE k \in 1..n
  <2>1. k - 1 \in T
    BY <1>1 DEF T
  <2> QED BY <1>8, <2>1
<1>10. \A k \in 1..n : Place(P, k) \in P /\ Below(P, Place(P, k)) = k - 1
  BY <1>9 DEF Place
<1>11. ASSUME NEW i \in P
       PROVE  Below(P, i) + 1 \in 1..n /\ Place(P, Below(P, i) + 1) = i
  <2>1. Below(P, i) \in Nat /\ Below(P, i) + 1 \in 1..n
    BY <1>1, <1>2 DEF T
  <2>2. /\ Place(P, Below(P, i) + 1) \in P
        /\ Below(P, Place(P, Below(P, i) + 1)) = Below(P, i)
    BY <1>10, <2>1
  <2> QED BY <1>3, <2>1, <2>2
<1> QED BY <1>1, <1>10, <1>11

\* What Chosen lists: the elements at the places of P, in their order.
LEMMA ChosenInOrder ==
  ASSUME NEW P \in SUBSET Nat, IsFiniteSet(P), NEW s
  PROVE  /\ Chosen(s, P) = [k \in 1..Cardinality(P) |-> s[Place(P, k)]]
         /\ Cardinality(P) \in Nat
         /\ \A k \in 1..Cardinality(P) : Place(P, k) \in P
         /\ \A k, l \in 1..Cardinality(P) :
              k < l => Place(P, k) < Place(P, l)
<1>1. Chosen(s, P) = [k \in 1..Cardinality(P) |-> s[Place(P, k)]]
  BY DEF Chosen, Place, Below
<1>2. ASSUME NEW k \in 1..Cardinality(P), NEW l \in 1..Cardinality(P), k < l
      PROVE  Place(P, k) < Place(P, l)
  <2> DEFINE i == Place(P, k)
             j == Place(P, l)
  <2>1. i \in P /\ j \in P /\ Below(P, i) = k - 1 /\ Below(P, j) = l - 1
    BY PlaceExists
  <2>2. j < i => Below(P, j) < Below(P, i)
    BY <2>1, BelowGrows
  <2>3. i \in Nat /\ j \in Nat /\ k \in Nat /\ l \in Nat
    <3>1. Cardinality(P) \in Nat
      BY FS_CardinalityType
    <3>2. k \in Nat /\ l \in Nat
      BY <3>1
    <3> QED BY <2>1, <3>2
  <2> HIDE DEF i, j
  <2>4. i < j
    BY <1>2, <2>1, <2>2, <2>3
  <2> QED BY <2>4 DEF i, j
<1> QED BY <1>1, <1>2, PlaceExists

LEMMA ChosenSeq ==
  ASSUME NEW P \in SUBSET Nat, IsFiniteSet(P), NEW S, NEW s,
         \A i \in P : s[i] \in S
  PROVE  /\ Chosen(s, P) \in Seq(S) /\ Len(Chosen(s, P)) = Cardinality(P)
         /\ Ran(Chosen(s, P)) = {s[i] : i \in P}
<1> DEFINE n == Cardinality(P)
           c == Chosen(s, P)
<1>1. n \in Nat /\ c = [k \in 1..n |-> s[Place(P, k)]]
      /\ \A k \in 1..n : Place(P, k) \in P
  BY ChosenInOrder
<1>2. \A i \in P : \E k \in 1..n : Place(P, k) = i
  BY PlaceExists
<1> HIDE DEF n
<1> HIDE DEF c
<1>3. c \in Seq(S) /\ Len(c) = n
  <2>1. c \in [1..n -> S]
    BY <1>1
  <2> QED BY <1>1, <2>1
<1>4. Ran(c) = {s[i] : i \in P}
  <2>1. DOMAIN c = 1..n /\ \A k \in 1..n : c[k] = s[Place(P, k)]
    BY <1>1
  <2>2. \A x : x \in Ran(c) <=> \E k \in 1..n : x = c[k]
    BY <2>1 DEF Ran
  <2>3. \A x : x \in Ran(c) <=> \E i \in P : x = s[i]
    BY <1>1, <1>2, <2>1, <2>2
  <2> QED BY <2>3
<1> QED BY <1>3, <1>4 DEF n, c

\* No more than the limit, and all of P if it has no more.
LEMMA LeadingBounded ==
  ASSUME NEW P \in SUBSET Nat, IsFiniteSet(P), NEW limit \in Nat
  PROVE  /\ Leading(P, limit) \subseteq P /\ IsFiniteSet(Leading(P, limit))
         /\ Cardinality(Leading(P, limit)) \in 0..limit
<1> DEFINE L == Leading(P, limit)
           T == 0..(limit - 1)
           f == [i \in L |-> Below(P, i)]
<1>1. L \subseteq P /\ \A i \in L : Below(P, i) < limit
  BY DEF Leading, Below
<1>2. IsFiniteSet(L) /\ Cardinality(L) \in Nat
  <2> HIDE DEF L
  <2> QED BY <1>1, FS_Subset, FS_CardinalityType
<1>3. \A i \in P : Below(P, i) \in Nat
  <2>1. Cardinality(P) \in Nat
    BY FS_CardinalityType
  <2> QED BY <2>1, BelowGrows
<1>4. IsFiniteSet(T) /\ Cardinality(T) = limit
  BY FS_Interval
<1>5. \A i, j \in P : Below(P, i) = Below(P, j) => i = j
  BY PlaceExists, Zenon
<1>6. f \in [L -> T] /\ \A i, j \in L : f[i] = f[j] => i = j
  <2> HIDE DEF L
  <2> QED BY <1>1, <1>3, <1>5
<1>7. f \in Injection(L, T)
  <2> HIDE DEF f, L, T
  <2> QED BY <1>6, Fun_IsInj
<1>8. Cardinality(L) <= limit
  <2> HIDE DEF f, L, T
  <2> QED BY <1>4, <1>7, FS_Injection
<1> QED BY <1>1, <1>2, <1>8

-----------------------------------------------------------------------------
(* Limits and grounds.  An inductive invariant: what run() holds is within  *)
(* the limits and every piece of it rests on an earlier one, what it hands  *)
(* over is as good, and so is what is stored.                               *)

\* No two queries have the same folded text.
Distinct(s) == \A i, j \in DOMAIN s : Folded[s[i]] = Folded[s[j]] => i = j

\* The type invariant, but for the locals.
Control ==
  /\ caller \in {"worker", "service"}
  /\ run \in [status : {"queued", "analyzing"} \cup Terminal,
             attempt : 0..MaxAttempts]
  /\ pc \in {"off", "plan", "retrieve", "propose", "evaluate", "persist",
            "raised"}
  /\ error \in {"none", "contract", "transient", "database", "refused"}
  /\ error # "none" <=> pc = "raised"
  /\ result # Unwritten <=> pc = "persist"
  /\ pc \in {"off", "plan", "persist", "raised"} => Idle

\* Every chunk was found by a query that was made.
Traced(known, made) ==
  /\ IsFiniteSet(DOMAIN known) /\ Cardinality(DOMAIN known) <= MaxEvidence
  /\ \A c \in DOMAIN known : known[c] \in Ran(made)

Held ==
  /\ pending \in Seq(Texts) /\ queries \in Seq(Texts)
  /\ findings \in Seq(Proposable) /\ rejected \in Seq(Proposable)
  /\ DOMAIN evidence \subseteq Chunks /\ Traced(evidence, queries)
  /\ iteration \in 0..MaxIterations

\* Queries still to search are counted with those that were: no turn of the
\* loop can then exceed the total.  A round starts with a query to search.
Budgeted ==
  /\ Len(queries) + Len(pending) <= MaxTotal /\ Distinct(queries \o pending)
  /\ pc = "retrieve" =>
       iteration < MaxIterations /\ (pending # <<>> \/ queries # <<>>)
  /\ pc \in {"propose", "evaluate"} => pending = <<>> /\ queries # <<>>

\* What the gate lets through: the citations hold, and no two findings name the
\* same rule and place.
Gated(found, known) ==
  /\ \A i \in DOMAIN found : Cited(found[i], known)
  /\ \A i, j \in DOMAIN found : Identity(found[i]) = Identity(found[j]) => i = j

\* The result that run() hands over.
Sound(res) ==
  /\ res.status \in Results /\ res.decisions \in Decisions
  /\ Len(res.queries) \in 1..MaxTotal /\ Traced(res.evidence, res.queries)
  /\ Gated(res.evaluated, res.evidence)
  /\ res.findings = IF res.status = "review_required"
                      THEN Supported(res.evaluated, res.decisions) ELSE <<>>

\* The rows that are stored.
Grounded(a) ==
  /\ Len(a.queries) \in 1..MaxTotal /\ Traced(a.evidence, a.queries)
  /\ \A i \in a.violations : /\ i \in DOMAIN a.reviews
                             /\ a.reviews[i].verdict = "supported"
  /\ \A i \in DOMAIN a.reviews : Cited(a.reviews[i].finding, a.evidence)
  /\ \A i, j \in DOMAIN a.reviews :
       Identity(a.reviews[i].finding) = Identity(a.reviews[j].finding) => i = j

LInv ==
  /\ Control /\ Held /\ Budgeted
  /\ pc = "evaluate" => Gated(findings, evidence)
  /\ pc = "persist" => Sound(result)
  /\ audit # Unwritten => Grounded(audit)

-----------------------------------------------------------------------------
(* The pure parts of the loop.                                             *)

LEMMA Answers ==
  ASSUME NEW S, NEW n \in Nat, NEW d \in UpTo(S, n)
  PROVE  /\ d \in Seq(S) /\ Len(d) \in 0..n /\ DOMAIN d = 1..Len(d)
         /\ DOMAIN d \in SUBSET Nat /\ IsFiniteSet(DOMAIN d)
         /\ \A i \in DOMAIN d : d[i] \in S
<1>1. PICK k \in 0..n : d \in [1..k -> S]
  BY DEF UpTo
<1>2. k \in Nat /\ d \in Seq(S) /\ Len(d) = k
  BY <1>1
<1>3. IsFiniteSet(1..k)
  BY <1>2, FS_Interval
<1> QED BY <1>1, <1>2, <1>3

\* The positions of an enumeration keep what tells elements of s apart.
LEMMA ChosenApart ==
  ASSUME NEW P \in SUBSET Nat, IsFiniteSet(P), NEW s, NEW F,
         \A i, j \in P : i < j => F[s[i]] # F[s[j]]
  PROVE  LET c == Chosen(s, P) IN
           \A k, l \in DOMAIN c : F[c[k]] = F[c[l]] => k = l
<1> DEFINE n == Cardinality(P)
           c == Chosen(s, P)
<1>1. /\ c = [k \in 1..n |-> s[Place(P, k)]] /\ n \in Nat
      /\ \A k \in 1..n : Place(P, k) \in P
      /\ \A k, l \in 1..n : k < l => Place(P, k) < Place(P, l)
  BY ChosenInOrder
<1> HIDE DEF c, n
<1>2. ASSUME NEW k \in 1..n, NEW l \in 1..n, k < l
      PROVE  F[c[k]] # F[c[l]]
  BY <1>1, <1>2
<1>3. \A k, l \in 1..n : F[c[k]] = F[c[l]] => k = l
  <2> SUFFICES ASSUME NEW k \in 1..n, NEW l \in 1..n, k # l
               PROVE  F[c[k]] # F[c[l]]
    OBVIOUS
  <2>1. k < l \/ l < k
    BY <1>1
  <2> QED BY <1>2, <2>1
<1>4. DOMAIN c = 1..n
  BY <1>1
<1> QED BY <1>3, <1>4 DEF c

\* What _bounded_unique_queries returns.
LEMMA QueriesAreNew ==
  ASSUME NEW asked \in UpTo(Texts, MaxAnswer), NEW limit \in Nat,
         NEW existing \in Seq(Texts)
  PROVE  LET b == BoundedUnique(asked, limit, existing) IN
           /\ b \in Seq(Texts) /\ Len(b) \in 0..limit /\ Distinct(b)
           /\ \A i \in DOMAIN b, j \in DOMAIN existing :
                Folded[b[i]] # Folded[existing[j]]
<1> DEFINE known == {Folded[existing[i]] : i \in DOMAIN existing}
           fresh == {i \in DOMAIN asked :
                       /\ Folded[asked[i]] \notin known
                       /\ \A j \in 1..(i - 1) :
                            Folded[asked[j]] # Folded[asked[i]]}
           L == Leading(fresh, limit)
           b == Chosen(asked, L)
<1>1. MaxAnswer \in Nat
  BY LimitsAssumption
<1>2. /\ DOMAIN asked \in SUBSET Nat /\ IsFiniteSet(DOMAIN asked)
      /\ DOMAIN asked = 1..Len(asked) /\ Len(asked) \in Nat
      /\ \A i \in DOMAIN asked : asked[i] \in Texts
  BY <1>1, Answers
<1>3. fresh \in SUBSET Nat /\ IsFiniteSet(fresh)
  <2>1. fresh \in SUBSET (DOMAIN asked)
    OBVIOUS
  <2> HIDE DEF fresh
  <2> QED BY <1>2, <2>1, FS_Subset
<1>4. L \subseteq fresh /\ IsFiniteSet(L) /\ Cardinality(L) \in 0..limit
  <2> HIDE DEF fresh
  <2> QED BY <1>3, LeadingBounded
<1>5. b \in Seq(Texts) /\ Len(b) = Cardinality(L)
      /\ Ran(b) = {asked[i] : i \in L}
  <2>1. L \in SUBSET Nat /\ \A i \in L : asked[i] \in Texts
    BY <1>2, <1>3, <1>4
  <2> HIDE DEF L
  <2> QED BY <1>4, <2>1, ChosenSeq
<1>6. Distinct(b)
  <2>1. ASSUME NEW i \in L, NEW j \in L, i < j
        PROVE  Folded[asked[i]] # Folded[asked[j]]
    <3>1. i \in fresh /\ j \in fresh /\ i \in DOMAIN asked /\ j \in DOMAIN asked
      BY <1>4
    <3>2. i \in 1..(j - 1)
      BY <1>2, <2>1, <3>1
    <3> QED BY <3>1, <3>2
  <2>2. L \in SUBSET Nat
    BY <1>3, <1>4
  <2> HIDE DEF L
  <2>3. \A k, l \in DOMAIN b : Folded[b[k]] = Folded[b[l]] => k = l
    BY <1>4, <2>1, <2>2, ChosenApart
  <2> QED BY <2>3 DEF Distinct
<1>7. ASSUME NEW i \in DOMAIN b, NEW j \in DOMAIN existing
      PROVE  Folded[b[i]] # Folded[existing[j]]
  <2>1. b[i] \in Ran(b)
    BY DEF Ran
  <2>2. PICK k \in L : b[i] = asked[k]
    <3> HIDE DEF L, b
    <3> QED BY <1>5, <2>1
  <2>3. Folded[asked[k]] \notin known
    BY <1>4
  <2>4. Folded[existing[j]] \in known
    OBVIOUS
  <2> HIDE DEF known, b
  <2> QED BY <2>2, <2>3, <2>4
<1>8. BoundedUnique(asked, limit, existing) = b
  BY DEF BoundedUnique
<1>9. Len(b) \in 0..limit
  BY <1>4, <1>5
<1> HIDE DEF b
<1> QED BY <1>5, <1>6, <1>7, <1>8, <1>9

LEMMA RanAppend ==
  ASSUME NEW S, NEW s \in Seq(S), NEW x \in S
  PROVE  Ran(Append(s, x)) = Ran(s) \cup {x}
<1>1. /\ DOMAIN Append(s, x) = 1..(Len(s) + 1) /\ DOMAIN s = 1..Len(s)
      /\ Len(s) \in Nat /\ Append(s, x)[Len(s) + 1] = x
      /\ \A i \in 1..Len(s) : Append(s, x)[i] = s[i]
  OBVIOUS
<1>2. Ran(Append(s, x)) \subseteq Ran(s) \cup {x}
  BY <1>1 DEF Ran
<1>3. Ran(s) \subseteq Ran(Append(s, x))
  BY <1>1 DEF Ran
<1>4. x \in Ran(Append(s, x))
  BY <1>1 DEF Ran
<1> QED BY <1>2, <1>3, <1>4

\* A search adds no more than there is room for, and each chunk with its query.
LEMMA GatheredTraced ==
  ASSUME NEW known, NEW made \in Seq(Texts), NEW q \in Texts,
         NEW found \in UpTo(Chunks, TopK),
         DOMAIN known \subseteq Chunks, Traced(known, made)
  PROVE  LET g == Gathered(known, found, q) IN
           DOMAIN g \subseteq Chunks /\ Traced(g, Append(made, q))
<1> DEFINE D == DOMAIN known
           room == MaxEvidence - Cardinality(D)
           new == {i \in DOMAIN found :
                     /\ found[i] \notin D
                     /\ \A j \in 1..(i - 1) : found[j] # found[i]}
           L == Leading(new, room)
           taken == {found[i] : i \in L}
           g == Gathered(known, found, q)
<1>1. TopK \in Nat /\ MaxEvidence \in Nat
  BY LimitsAssumption
<1>2. IsFiniteSet(D) /\ Cardinality(D) \in Nat /\ room \in Nat
      /\ Cardinality(D) <= MaxEvidence
  BY <1>1, FS_CardinalityType DEF Traced
<1>3. /\ DOMAIN found \in SUBSET Nat /\ IsFiniteSet(DOMAIN found)
      /\ \A i \in DOMAIN found : found[i] \in Chunks
  BY <1>1, Answers
<1>4. new \in SUBSET (DOMAIN found)
  OBVIOUS
<1>5. L \subseteq new /\ IsFiniteSet(L) /\ Cardinality(L) \in 0..room
  <2> HIDE DEF new, room
  <2>1. IsFiniteSet(new) /\ new \in SUBSET Nat
    BY <1>3, <1>4, FS_Subset
  <2> QED BY <1>2, <2>1, LeadingBounded
<1>6. IsFiniteSet(taken) /\ Cardinality(taken) <= Cardinality(L)
      /\ Cardinality(taken) \in Nat
  <2> DEFINE f == [i \in L |-> found[i]]
  <2>1. f \in [L -> taken] /\ \A t \in taken : \E i \in L : f[i] = t
    OBVIOUS
  <2>2. f \in Surjection(L, taken)
    <3> HIDE DEF f, L, taken
    <3> QED BY <2>1, Fun_IsSurj
  <2> HIDE DEF f, L, taken
  <2>3. IsFiniteSet(taken) /\ Cardinality(taken) <= Cardinality(L)
    BY <1>5, <2>2, FS_Surjection
  <2> QED BY <2>3, FS_CardinalityType
<1>7. taken \subseteq Chunks
  BY <1>3, <1>4, <1>5
<1>8. /\ DOMAIN g = D \cup taken
      /\ \A c \in D : g[c] = known[c]
      /\ \A c \in taken : c \notin D => g[c] = q
  <2>1. g = [c \in D \cup taken |-> IF c \in D THEN known[c] ELSE q]
    BY DEF Gathered
  <2> HIDE DEF g, D, taken
  <2> QED BY <2>1
<1>9. IsFiniteSet(DOMAIN g) /\ Cardinality(DOMAIN g) <= MaxEvidence
  <2>1. /\ IsFiniteSet(D \cup taken)
        /\ Cardinality(D \cup taken)
             = Cardinality(D) + Cardinality(taken) - Cardinality(D \cap taken)
    <3> HIDE DEF taken, D
    <3> QED BY <1>2, <1>6, FS_Union
  <2>2. Cardinality(D \cap taken) \in Nat
    <3> HIDE DEF taken, D
    <3> QED BY <1>2, FS_Intersection, FS_CardinalityType
  <2>3. Cardinality(taken) <= room
    <3> HIDE DEF room, L, taken
    <3> QED BY <1>2, <1>5, <1>6
  <2> HIDE DEF taken, D, g
  <2> QED BY <1>1, <1>2, <1>6, <1>8, <2>1, <2>2, <2>3
<1>10. \A c \in DOMAIN g : g[c] \in Ran(Append(made, q))
  <2>1. Ran(Append(made, q)) = Ran(made) \cup {q}
    BY RanAppend
  <2>2. \A c \in D : known[c] \in Ran(made)
    BY DEF Traced
  <2> HIDE DEF taken, D, g
  <2> QED BY <1>8, <2>1, <2>2
<1>11. DOMAIN g \subseteq Chunks
  <2> HIDE DEF taken, g
  <2> QED BY <1>7, <1>8
<1> HIDE DEF g
<1> QED BY <1>9, <1>10, <1>11 DEF Traced, g

LEMMA DistinctConcat ==
  ASSUME NEW s \in Seq(Texts), NEW t \in Seq(Texts),
         Distinct(s), Distinct(t),
         \A i \in DOMAIN t, j \in DOMAIN s : Folded[t[i]] # Folded[s[j]]
  PROVE  Distinct(s \o t)
<1> DEFINE a == s \o t
           m == Len(s)
           n == Len(t)
<1>1. /\ m \in Nat /\ n \in Nat /\ DOMAIN s = 1..m /\ DOMAIN t = 1..n
      /\ DOMAIN a = 1..(m + n)
      /\ \A i \in 1..(m + n) : a[i] = IF i <= m THEN s[i] ELSE t[i - m]
  OBVIOUS
<1> HIDE DEF a, m, n
<1>2. \A i \in 1..(m + n) : i <= m => i \in DOMAIN s /\ a[i] = s[i]
  BY <1>1
<1>3. \A i \in 1..(m + n) : ~(i <= m) => i - m \in DOMAIN t /\ a[i] = t[i - m]
  BY <1>1
<1>4. ASSUME NEW i \in 1..(m + n), NEW j \in 1..(m + n),
             Folded[a[i]] = Folded[a[j]]
      PROVE  i = j
  <2>1. CASE i <= m /\ j <= m
    BY <1>2, <1>4, <2>1 DEF Distinct
  <2>2. CASE ~(i <= m) /\ ~(j <= m)
    <3>1. i - m = j - m
      BY <1>3, <1>4, <2>2 DEF Distinct
    <3> QED BY <1>1, <3>1
  <2>3. CASE i <= m /\ ~(j <= m)
    BY <1>2, <1>3, <1>4, <2>3
  <2>4. CASE ~(i <= m) /\ j <= m
    BY <1>2, <1>3, <1>4, <2>4
  <2> QED BY <2>1, <2>2, <2>3, <2>4
<1> QED BY <1>1, <1>4 DEF Distinct, a

LEMMA DistinctPrefix ==
  ASSUME NEW s \in Seq(Texts), NEW t \in Seq(Texts), Distinct(s \o t)
  PROVE  Distinct(s)
<1>1. /\ DOMAIN s \subseteq DOMAIN (s \o t)
      /\ \A i \in DOMAIN s : (s \o t)[i] = s[i]
  OBVIOUS
<1> QED BY <1>1 DEF Distinct

\* A query that was searched moves from one list to the other.
LEMMA Moved ==
  ASSUME NEW s \in Seq(Texts), NEW t \in Seq(Texts), t # <<>>
  PROVE  /\ Append(s, Head(t)) \o Tail(t) = s \o t
         /\ Append(s, Head(t)) \in Seq(Texts) /\ Tail(t) \in Seq(Texts)
         /\ Head(t) \in Texts
         /\ Len(Append(s, Head(t))) + Len(Tail(t)) = Len(s) + Len(t)
         /\ Append(s, Head(t)) # <<>>
<1> DEFINE a == Append(s, Head(t))
           b == Tail(t)
<1>1. Head(t) \in Texts /\ b \in Seq(Texts) /\ Len(b) = Len(t) - 1
      /\ \A i \in 1..Len(b) : b[i] = t[i + 1]
      /\ Head(t) = t[1] /\ Len(t) \in Nat /\ Len(s) \in Nat
  BY HeadTailProperties, LenProperties
<1>2. a \in Seq(Texts) /\ Len(a) = Len(s) + 1 /\ a[Len(s) + 1] = t[1]
      /\ \A i \in 1..Len(s) : a[i] = s[i]
  BY <1>1
<1> HIDE DEF a, b
<1>3. /\ a \o b \in Seq(Texts) /\ Len(a \o b) = Len(a) + Len(b)
      /\ \A i \in 1..(Len(a) + Len(b)) :
           (a \o b)[i] = IF i <= Len(a) THEN a[i] ELSE b[i - Len(a)]
  BY <1>1, <1>2, ConcatProperties
<1>4. /\ s \o t \in Seq(Texts) /\ Len(s \o t) = Len(s) + Len(t)
      /\ \A i \in 1..(Len(s) + Len(t)) :
           (s \o t)[i] = IF i <= Len(s) THEN s[i] ELSE t[i - Len(s)]
  BY ConcatProperties
<1>5. Len(a) + Len(b) = Len(s) + Len(t)
  BY <1>1, <1>2
<1>6. ASSUME NEW i \in 1..(Len(s) + Len(t))
      PROVE  (a \o b)[i] = (s \o t)[i]
  <2>1. CASE i <= Len(s)
    <3>1. (a \o b)[i] = a[i] /\ (s \o t)[i] = s[i] /\ a[i] = s[i]
      BY <1>1, <1>2, <1>3, <1>4, <1>5, <2>1
    <3> QED BY <3>1
  <2>2. CASE i = Len(s) + 1
    <3>1. (a \o b)[i] = a[i] /\ a[i] = t[1]
      BY <1>1, <1>2, <1>3, <1>5, <2>2
    <3>2. (s \o t)[i] = t[1]
      BY <1>1, <1>4, <2>2
    <3> QED BY <3>1, <3>2
  <2>3. CASE i > Len(s) + 1
    <3>1. (a \o b)[i] = b[i - Len(a)]
      BY <1>1, <1>2, <1>3, <1>5, <2>3
    <3>2. (s \o t)[i] = t[i - Len(s)]
      BY <1>1, <1>4, <2>3
    <3>3. i - Len(a) \in 1..Len(b) /\ (i - Len(a)) + 1 = i - Len(s)
      BY <1>1, <1>2, <2>3
    <3> QED BY <1>1, <3>1, <3>2, <3>3
  <2>4. i <= Len(s) \/ i = Len(s) + 1 \/ i > Len(s) + 1
    <3>1. i \in Int /\ Len(s) \in Int
      BY <1>1
    <3> QED BY <3>1
  <2> QED BY <2>1, <2>2, <2>3, <2>4
<1>7. a \o b = s \o t
  BY <1>3, <1>4, <1>5, <1>6, SeqEqual
<1> QED BY <1>1, <1>2, <1>5, <1>7 DEF a, b

\* validate_findings: what passes is cited, and each identity once.
LEMMA GateHolds ==
  ASSUME NEW proposal \in UpTo(Proposable, MaxAnswer), NEW known
  PROVE  LET P == Accepted(proposal, known)
             found == Chosen(proposal, P)
             refused == Chosen(proposal, DOMAIN proposal \ P)
         IN /\ found \in Seq(Proposable) /\ refused \in Seq(Proposable)
            /\ Gated(found, known)
<1> DEFINE P == Accepted(proposal, known)
           R == DOMAIN proposal \ P
           found == Chosen(proposal, P)
<1>1. MaxAnswer \in Nat
  BY LimitsAssumption
<1>2. /\ DOMAIN proposal \in SUBSET Nat /\ IsFiniteSet(DOMAIN proposal)
      /\ DOMAIN proposal = 1..Len(proposal) /\ Len(proposal) \in Nat
      /\ \A i \in DOMAIN proposal : proposal[i] \in Proposable
  BY <1>1, Answers
<1>3. /\ P \subseteq DOMAIN proposal
      /\ \A i \in P : Cited(proposal[i], known)
      /\ \A i \in P : \A j \in 1..(i - 1) :
           Cited(proposal[j], known)
             => Identity(proposal[j]) # Identity(proposal[i])
  BY DEF Accepted
<1> HIDE DEF P
<1>4. P \in SUBSET Nat /\ IsFiniteSet(P) /\ R \in SUBSET Nat /\ IsFiniteSet(R)
      /\ \A i \in P \cup R : proposal[i] \in Proposable
  BY <1>2, <1>3, FS_Subset
<1> HIDE DEF R
<1>5. /\ found \in Seq(Proposable) /\ Ran(found) = {proposal[i] : i \in P}
      /\ Chosen(proposal, R) \in Seq(Proposable)
  BY <1>4, ChosenSeq
<1>6. \A i \in DOMAIN found : Cited(found[i], known)
  <2> TAKE i \in DOMAIN found
  <2>1. found[i] \in Ran(found)
    BY DEF Ran
  <2> HIDE DEF found
  <2> QED BY <1>3, <1>5, <2>1
<1>7. \A k, l \in DOMAIN found : Identity(found[k]) = Identity(found[l]) => k = l
  <2> DEFINE F == [f \in Proposable |-> Identity(f)]
  <2>1. \A f \in Proposable : F[f] = Identity(f)
    OBVIOUS
  <2>2. ASSUME NEW i \in P, NEW j \in P, i < j
        PROVE  F[proposal[i]] # F[proposal[j]]
    <3>1. i \in 1..(j - 1) /\ proposal[i] \in Proposable
          /\ proposal[j] \in Proposable
      BY <1>2, <1>3, <1>4, <2>2
    <3> HIDE DEF F
    <3> QED BY <1>3, <2>1, <3>1
  <2> HIDE DEF F
  <2>3. \A k, l \in DOMAIN found : F[found[k]] = F[found[l]] => k = l
    BY <1>4, <2>2, ChosenApart
  <2>4. \A k \in DOMAIN found : found[k] \in Proposable
    <3> HIDE DEF found
    <3> QED BY <1>5
  <2> QED BY <2>1, <2>3, <2>4
<1> HIDE DEF found
<1>8. Gated(found, known)
  BY <1>6, <1>7 DEF Gated
<1> QED BY <1>5, <1>8 DEF found, P, R

LEMMA NoDecisions == <<>> \in Decisions
<1>1. MaxAnswer \in Nat
  BY LimitsAssumption
<1>2. <<>> \in UpTo(Decision, MaxAnswer)
  <2>1. <<>> \in [1..0 -> Decision] /\ 0 \in 0..MaxAnswer
    BY <1>1
  <2> QED BY <2>1 DEF UpTo
<1> QED BY <1>2 DEF Decisions

-----------------------------------------------------------------------------
(* The steps.                                                              *)

LEMMA EmptyHands ==
  Idle /\ pc \in {"off", "plan", "persist", "raised"} => Held /\ Budgeted
<1> SUFFICES ASSUME Idle, pc \in {"off", "plan", "persist", "raised"}
             PROVE  Held /\ Budgeted
  OBVIOUS
<1>1. MaxTotal \in Nat /\ MaxIterations \in Nat /\ MaxEvidence \in Nat
  BY LimitsAssumption
<1>2. DOMAIN evidence = {}
  BY DEF Idle, NoEvidence
<1>3. Traced(evidence, queries) /\ DOMAIN evidence \subseteq Chunks
  <2>1. IsFiniteSet({}) /\ Cardinality({}) = 0
    BY FS_EmptySet
  <2> QED BY <1>1, <1>2, <2>1 DEF Traced
<1>4. Held
  BY <1>1, <1>3 DEF Idle, Held
<1>5. Len(<<>>) = 0 /\ DOMAIN (<<>> \o <<>>) = {}
  OBVIOUS
<1>6. Budgeted
  BY <1>1, <1>5 DEF Idle, Budgeted, Distinct
<1> QED BY <1>4, <1>6

LEMMA Forgotten ==
  ASSUME Forget, pc' \in {"off", "plan", "persist", "raised"}
  PROVE  Idle' /\ Held' /\ Budgeted'
<1>1. Idle'
  BY DEF Forget, Idle
<1>2. (Idle /\ pc \in {"off", "plan", "persist", "raised"} => Held /\ Budgeted)'
  BY EmptyHands, PTL
<1> QED BY <1>1, <1>2

LEMMA RaiseKeeps ==
  ASSUME LInv, NEW e \in {"contract", "transient", "database", "refused"},
         Raise(e)
  PROVE  LInv'
<1>1. /\ pc' = "raised" /\ error' = e /\ Forget /\ result' = Unwritten
      /\ caller' = caller /\ run' = run /\ audit' = audit
  BY DEF Raise
<1>2. Idle' /\ Held' /\ Budgeted'
  BY <1>1, Forgotten
<1>3. Control'
  BY <1>1, <1>2 DEF LInv, Control
<1> QED BY <1>1, <1>2, <1>3 DEF LInv

\* What run() returns rests on what it held.
LEMMA ReturnKeeps ==
  ASSUME LInv, pc \in {"propose", "evaluate"},
         NEW status \in Results, NEW supported, NEW evaluated,
         NEW decisions \in Decisions, NEW refused,
         Return(status, supported, evaluated, decisions, refused),
         Gated(evaluated, evidence),
         supported = IF status = "review_required"
                       THEN Supported(evaluated, decisions) ELSE <<>>
  PROVE  LInv'
<1>1. /\ result'.status = status /\ result'.findings = supported
      /\ result'.evaluated = evaluated /\ result'.decisions = decisions
      /\ result'.evidence = evidence /\ result'.queries = queries
      /\ pc' = "persist" /\ Forget
      /\ caller' = caller /\ run' = run /\ audit' = audit /\ error' = error
  BY DEF Return
<1>2. Idle' /\ Held' /\ Budgeted'
  BY <1>1, Forgotten
<1>3. result' # Unwritten
  BY <1>1 DEF Results, Unwritten
<1>4. Control'
  BY <1>1, <1>2, <1>3 DEF LInv, Control
<1>5. Len(queries) \in 1..MaxTotal
  <2>1. /\ queries \in Seq(Texts) /\ queries # <<>> /\ pending = <<>>
        /\ Len(queries) + Len(pending) <= MaxTotal
    BY DEF LInv, Budgeted, Held
  <2>2. Len(queries) \in Nat \ {0} /\ Len(pending) = 0
    BY <2>1, EmptySeq
  <2>3. MaxTotal \in Nat
    BY LimitsAssumption
  <2> QED BY <2>1, <2>2, <2>3
<1>6. Sound(result')
  BY <1>1, <1>5 DEF Sound, LInv, Held
<1> QED BY <1>1, <1>2, <1>4, <1>6 DEF LInv

LEMMA BeginKeepsLimits == ASSUME LInv, Begin PROVE LInv'
<1>1. /\ pc = "off" /\ pc' = "plan" /\ caller' = caller /\ audit' = audit
      /\ error' = error /\ result' = result /\ working' = working
      /\ run' = [status |-> "analyzing", attempt |-> run.attempt + 1]
      /\ run.attempt < IF caller = "worker" THEN MaxAttempts ELSE 1
  BY DEF Begin
<1>2. Idle'
  BY <1>1 DEF LInv, Control, Idle, working
<1>3. Held' /\ Budgeted'
  <2>1. (Idle /\ pc \in {"off", "plan", "persist", "raised"}
           => Held /\ Budgeted)'
    BY EmptyHands, PTL
  <2> QED BY <1>1, <1>2, <2>1
<1>4. run' \in [status : {"queued", "analyzing"} \cup Terminal,
                attempt : 0..MaxAttempts]
  <2>1. MaxAttempts \in Nat \ {0}
    BY LimitsAssumption
  <2>2. run.attempt \in 0..MaxAttempts
    BY DEF LInv, Control
  <2>3. run.attempt + 1 \in 0..MaxAttempts
    BY <1>1, <2>1, <2>2
  <2> QED BY <1>1, <2>3
<1>5. Control'
  BY <1>1, <1>2, <1>4 DEF LInv, Control
<1> QED BY <1>1, <1>3, <1>5 DEF LInv

LEMMA PlanKeepsLimits == ASSUME LInv, Plan PROVE LInv'
<1>1. PICK asked \in UpTo(Texts, MaxAnswer) :
        LET initial == BoundedUnique(asked, MaxInitial, <<>>) IN
          IF initial = <<>>
            THEN Raise("contract")
            ELSE /\ pending' = initial /\ pc' = "retrieve"
                 /\ UNCHANGED <<caller, run, audit, error, queries, evidence,
                                iteration, findings, rejected, result>>
  BY DEF Plan
<1> DEFINE initial == BoundedUnique(asked, MaxInitial, <<>>)
<1>2. pc = "plan" /\ Idle
  BY DEF Plan, LInv, Control
<1>3. CASE initial = <<>>
  BY <1>1, <1>3, RaiseKeeps
<1>4. CASE initial # <<>>
  <2>1. /\ pending' = initial /\ pc' = "retrieve" /\ queries' = <<>>
        /\ caller' = caller /\ run' = run /\ audit' = audit /\ error' = error
        /\ evidence' = evidence /\ findings' = findings /\ iteration' = 0
        /\ rejected' = rejected /\ result' = result
    BY <1>1, <1>2, <1>4 DEF Idle
  <2>2. /\ initial \in Seq(Texts) /\ Len(initial) \in 0..MaxInitial
        /\ Distinct(initial)
    <3>1. MaxInitial \in Nat /\ <<>> \in Seq(Texts)
      BY LimitsAssumption
    <3> QED BY <3>1, QueriesAreNew
  <2> HIDE DEF initial
  <2>3. Control'
    BY <1>2, <2>1 DEF LInv, Control
  <2>4. Held'
    BY <1>2, <2>1, <2>2 DEF LInv, Held, Idle
  <2>5. Budgeted'
    <3>1. MaxTotal \in Nat /\ MaxInitial \in Nat /\ MaxInitial <= MaxTotal
          /\ MaxIterations \in Nat \ {0}
      BY LimitsAssumption
    <3>2. <<>> \o initial = initial /\ Len(<<>>) = 0 /\ Len(initial) \in Nat
      BY <2>2, ConcatEmptySeq
    <3>3. Len(queries') + Len(pending') <= MaxTotal
      BY <2>1, <2>2, <3>1, <3>2
    <3>4. 0 < MaxIterations
      BY <3>1
    <3> QED BY <1>4, <2>1, <2>2, <3>2, <3>3, <3>4 DEF Budgeted, Distinct
  <2> QED BY <1>2, <2>1, <2>3, <2>4, <2>5 DEF LInv
<1> QED BY <1>3, <1>4

LEMMA SearchKeepsLimits == ASSUME LInv, Search PROVE LInv'
<1>1. PICK found \in UpTo(Chunks, TopK) :
        /\ evidence' = Gathered(evidence, found, Head(pending))
        /\ queries' = Append(queries, Head(pending))
        /\ pending' = Tail(pending)
  BY DEF Search
<1>2. /\ pc = "retrieve" /\ pc' = pc /\ pending # <<>> /\ caller' = caller
      /\ run' = run /\ audit' = audit /\ error' = error
      /\ iteration' = iteration /\ findings' = findings
      /\ rejected' = rejected /\ result' = result
  BY DEF Search
<1>3. pending \in Seq(Texts) /\ queries \in Seq(Texts)
      /\ DOMAIN evidence \subseteq Chunks /\ Traced(evidence, queries)
  BY DEF LInv, Held
<1>4. /\ queries' \o pending' = queries \o pending
      /\ queries' \in Seq(Texts) /\ pending' \in Seq(Texts)
      /\ Head(pending) \in Texts /\ queries' # <<>>
      /\ Len(queries') + Len(pending') = Len(queries) + Len(pending)
  BY <1>1, <1>2, <1>3, Moved
<1>5. DOMAIN evidence' \subseteq Chunks /\ Traced(evidence', queries')
  BY <1>1, <1>3, <1>4, GatheredTraced
<1>6. Control'
  BY <1>2 DEF LInv, Control
<1>7. Held'
  BY <1>2, <1>4, <1>5 DEF LInv, Held
<1>8. Budgeted'
  BY <1>2, <1>4 DEF LInv, Budgeted, Distinct
<1> QED BY <1>2, <1>6, <1>7, <1>8 DEF LInv

LEMMA RetrievedKeepsLimits == ASSUME LInv, Retrieved PROVE LInv'
<1>1. /\ pc = "retrieve" /\ pc' = "propose" /\ pending' = <<>>
      /\ iteration' = iteration + 1
      /\ caller' = caller /\ run' = run /\ audit' = audit /\ error' = error
      /\ queries' = queries /\ evidence' = evidence /\ findings' = findings
      /\ rejected' = rejected /\ result' = result
      /\ pending = <<>> \/ Cardinality(DOMAIN evidence) >= MaxEvidence
  BY DEF Retrieved
<1>2. /\ pending \in Seq(Texts) /\ queries \in Seq(Texts)
      /\ Traced(evidence, queries) /\ iteration \in 0..MaxIterations
      /\ Len(queries) + Len(pending) <= MaxTotal /\ Distinct(queries \o pending)
      /\ iteration < MaxIterations
  BY <1>1 DEF LInv, Held, Budgeted
<1>3. queries # <<>>
  <2>1. CASE pending = <<>>
    BY <1>1, <1>2, <2>1 DEF LInv, Budgeted
  <2>2. CASE Cardinality(DOMAIN evidence) >= MaxEvidence
    <3>1. MaxEvidence \in Nat \ {0} /\ Cardinality({}) = 0
      BY LimitsAssumption, FS_EmptySet
    <3>2. DOMAIN evidence # {}
      BY <2>2, <3>1
    <3>3. Ran(queries) # {}
      BY <1>2, <3>2 DEF Traced
    <3> QED BY <3>3 DEF Ran
  <2> QED BY <1>1, <2>1, <2>2
<1>4. iteration + 1 \in 0..MaxIterations
  <2>1. MaxIterations \in Nat /\ iteration < MaxIterations
    BY <1>1, LimitsAssumption DEF LInv, Budgeted
  <2> QED BY <1>2, <2>1
<1>5. Control'
  BY <1>1 DEF LInv, Control
<1>6. Held'
  BY <1>1, <1>4 DEF LInv, Held
<1>7. Budgeted'
  <2>1. Distinct(queries) /\ queries \o <<>> = queries
    BY <1>2, DistinctPrefix, ConcatEmptySeq
  <2>2. Len(queries) + Len(<<>>) <= MaxTotal
    <3>1. Len(queries) \in Nat /\ Len(pending) \in Nat /\ Len(<<>>) = 0
          /\ MaxTotal \in Nat
      BY <1>2, LimitsAssumption
    <3> QED BY <1>2, <3>1
  <2> QED BY <1>1, <1>3, <2>1, <2>2 DEF Budgeted, Distinct
<1> QED BY <1>1, <1>5, <1>6, <1>7 DEF LInv

LEMMA ProposeKeepsLimits == ASSUME LInv, Propose PROVE LInv'
<1>1. pc = "propose" /\ Gated(<<>>, evidence) /\ <<>> \in Decisions
  BY NoDecisions DEF Propose, Gated
<1>2. ASSUME NEW status \in {"inconclusive", "completed_clean"}, NEW refused,
             Return(status, <<>>, <<>>, <<>>, refused)
      PROVE  LInv'
  <2>1. status \in Results /\ status # "review_required"
    BY DEF Results
  <2> QED BY <1>1, <1>2, <2>1, ReturnKeeps
<1>3. ASSUME NEW proposal \in UpTo(Proposable, MaxAnswer),
             LET accepted == Accepted(proposal, evidence)
                 refused == rejected
                              \o Chosen(proposal, DOMAIN proposal \ accepted) IN
               /\ findings' = Chosen(proposal, accepted)
               /\ rejected' = refused
               /\ pc' = "evaluate"
               /\ UNCHANGED <<caller, run, audit, error, pending, queries,
                              evidence, iteration, result>>
      PROVE  LInv'
  <2> DEFINE accepted == Accepted(proposal, evidence)
             passed == Chosen(proposal, accepted)
             stopped == Chosen(proposal, DOMAIN proposal \ accepted)
  <2>1. /\ passed \in Seq(Proposable) /\ stopped \in Seq(Proposable)
        /\ Gated(passed, evidence)
    BY GateHolds
  <2>2. /\ findings' = passed /\ rejected' = rejected \o stopped
        /\ pc' = "evaluate" /\ caller' = caller /\ run' = run /\ audit' = audit
        /\ error' = error /\ pending' = pending /\ queries' = queries
        /\ evidence' = evidence /\ iteration' = iteration /\ result' = result
    BY <1>3
  <2> HIDE DEF passed, stopped
  <2>3. rejected' \in Seq(Proposable)
    <3>1. rejected \in Seq(Proposable)
      BY DEF LInv, Held
    <3> QED BY <2>1, <2>2, <3>1, ConcatProperties
  <2>4. Control'
    BY <1>1, <2>2 DEF LInv, Control
  <2>5. Held'
    BY <2>1, <2>2, <2>3 DEF LInv, Held
  <2>6. Budgeted'
    BY <1>1, <2>2 DEF LInv, Budgeted, Distinct
  <2> QED BY <2>1, <2>2, <2>4, <2>5, <2>6 DEF LInv
<1> QED BY <1>2, <1>3 DEF Propose

LEMMA ConcludeKeepsLimits == ASSUME LInv, Conclude PROVE LInv'
<1>1. PICK d \in Decisions :
        Return(IF Supported(findings, d) = <<>> THEN "completed_clean"
                                                ELSE "review_required",
               Supported(findings, d), findings, d, rejected)
  BY DEF Conclude
<1> DEFINE status == IF Supported(findings, d) = <<>> THEN "completed_clean"
                                                    ELSE "review_required"
<1>2. pc = "evaluate" /\ Gated(findings, evidence)
  BY DEF Conclude, LInv
<1>3. status \in Results
      /\ Supported(findings, d) = IF status = "review_required"
                                    THEN Supported(findings, d) ELSE <<>>
  BY DEF Results
<1> HIDE DEF status
<1>4. Return(status, Supported(findings, d), findings, d, rejected)
  BY <1>1 DEF status
<1> QED BY <1>2, <1>3, <1>4, ReturnKeeps

\* The queries of another round fit into what the limits have left.
LEMMA NextRoundFits ==
  ASSUME NEW asked \in UpTo(Texts, MaxAnswer), queries \in Seq(Texts),
         NextRound(asked) # <<>>
  PROVE  LET b == NextRound(asked) IN
           /\ iteration # MaxIterations
           /\ b \in Seq(Texts) /\ Len(queries) + Len(b) <= MaxTotal
           /\ Distinct(b)
           /\ \A i \in DOMAIN b, j \in DOMAIN queries :
                Folded[b[i]] # Folded[queries[j]]
<1> DEFINE capacity == MaxTotal - Len(queries)
           limit == IF capacity < MaxAdditional THEN capacity ELSE MaxAdditional
           b == BoundedUnique(asked, limit, queries)
<1>1. /\ iteration # MaxIterations /\ ~(Len(queries) >= MaxTotal)
      /\ NextRound(asked) = b
  BY DEF NextRound
<1>2. MaxTotal \in Nat /\ MaxAdditional \in Nat /\ Len(queries) \in Nat
  BY LimitsAssumption
<1>3. limit \in Nat /\ limit <= MaxTotal - Len(queries)
  BY <1>1, <1>2
<1> HIDE DEF limit
<1>4. /\ b \in Seq(Texts) /\ Len(b) \in 0..limit /\ Distinct(b)
      /\ \A i \in DOMAIN b, j \in DOMAIN queries :
           Folded[b[i]] # Folded[queries[j]]
  BY <1>3, QueriesAreNew
<1> HIDE DEF b
<1>5. Len(queries) + Len(b) <= MaxTotal
  BY <1>2, <1>3, <1>4
<1> QED BY <1>1, <1>4, <1>5

LEMMA AskKeepsLimits == ASSUME LInv, AskForContext PROVE LInv'
<1>1. PICK d \in Decisions, asked \in UpTo(Texts, MaxAnswer) \ {<<>>} :
        IF NextRound(asked) = <<>>
          THEN Return("inconclusive", <<>>, findings, d, rejected)
          ELSE /\ pending' = NextRound(asked) /\ pc' = "retrieve"
               /\ findings' = <<>>
               /\ UNCHANGED <<caller, run, audit, error, queries, evidence,
                              iteration, rejected, result>>
  BY DEF AskForContext
<1>2. /\ pc = "evaluate" /\ Gated(findings, evidence) /\ pending = <<>>
      /\ queries \in Seq(Texts) /\ queries # <<>> /\ Distinct(queries)
      /\ iteration \in 0..MaxIterations
  <2>1. /\ pc = "evaluate" /\ Gated(findings, evidence)
        /\ pending = <<>> /\ queries # <<>>
    BY DEF AskForContext, LInv, Budgeted
  <2>2. queries \in Seq(Texts) /\ Distinct(queries \o pending)
        /\ iteration \in 0..MaxIterations
    BY DEF LInv, Held, Budgeted
  <2>3. queries \o pending = queries
    BY <2>1, <2>2, ConcatEmptySeq
  <2> QED BY <2>1, <2>2, <2>3
<1>3. CASE NextRound(asked) = <<>>
  <2>1. "inconclusive" \in Results /\ "inconclusive" # "review_required"
    BY DEF Results
  <2>2. Return("inconclusive", <<>>, findings, d, rejected)
    BY <1>1, <1>3
  <2> QED BY <1>2, <2>1, <2>2, ReturnKeeps
<1>4. CASE NextRound(asked) # <<>>
  <2> DEFINE b == NextRound(asked)
  <2>1. /\ pending' = b /\ pc' = "retrieve" /\ findings' = <<>>
        /\ caller' = caller /\ run' = run /\ audit' = audit /\ error' = error
        /\ queries' = queries /\ evidence' = evidence
        /\ iteration' = iteration /\ rejected' = rejected /\ result' = result
    BY <1>1, <1>4
  <2>2. /\ iteration # MaxIterations
        /\ b \in Seq(Texts) /\ Len(queries) + Len(b) <= MaxTotal
        /\ Distinct(b)
        /\ \A i \in DOMAIN b, j \in DOMAIN queries :
             Folded[b[i]] # Folded[queries[j]]
    BY <1>2, <1>4, NextRoundFits
  <2> HIDE DEF b
  <2>3. Distinct(queries \o b)
    BY <1>2, <2>2, DistinctConcat
  <2>4. iteration < MaxIterations
    <3>1. MaxIterations \in Nat
      BY LimitsAssumption
    <3> QED BY <1>2, <2>2, <3>1
  <2>5. Control'
    BY <1>2, <2>1 DEF LInv, Control
  <2>6. Held'
    BY <2>1, <2>2 DEF LInv, Held
  <2>7. Budgeted'
    BY <1>2, <2>1, <2>2, <2>3, <2>4 DEF Budgeted, Distinct
  <2> QED BY <1>2, <2>1, <2>5, <2>6, <2>7 DEF LInv
<1> QED BY <1>3, <1>4

\* The transaction stores what was handed over.
LEMMA RowsGrounded ==
  ASSUME NEW res, Sound(res)
  PROVE  Grounded(Rows(res)) /\ res.status \in Terminal
<1> DEFINE a == Rows(res)
<1>1. /\ a.queries = res.queries /\ a.evidence = res.evidence
      /\ a.reviews = [i \in DOMAIN res.evaluated |->
           [finding |-> res.evaluated[i], verdict |-> Review(res, i)]]
      /\ a.violations = IF res.status # "review_required" THEN {}
                        ELSE {i \in DOMAIN res.evaluated :
                                Review(res, i) = "supported"}
  BY DEF Rows
<1> HIDE DEF a
<1>2. /\ DOMAIN a.reviews = DOMAIN res.evaluated
      /\ \A i \in DOMAIN res.evaluated :
           /\ a.reviews[i].finding = res.evaluated[i]
           /\ a.reviews[i].verdict = Review(res, i)
  BY <1>1
<1>3. \A i \in a.violations : /\ i \in DOMAIN a.reviews
                              /\ a.reviews[i].verdict = "supported"
  BY <1>1, <1>2
<1>4. Grounded(a)
  BY <1>1, <1>2, <1>3 DEF Grounded, Sound, Gated
<1>5. res.status \in Terminal
  BY DEF Sound, Results, Terminal
<1> QED BY <1>4, <1>5 DEF a

LEMMA StatusChange ==
  ASSUME LInv, NEW s \in {"queued", "analyzing"} \cup Terminal,
         run' = [run EXCEPT !.status = s]
  PROVE  run' \in [status : {"queued", "analyzing"} \cup Terminal,
                   attempt : 0..MaxAttempts]
<1>1. run \in [status : {"queued", "analyzing"} \cup Terminal,
               attempt : 0..MaxAttempts]
  BY DEF LInv, Control
<1> QED BY <1>1

\* Steps that leave the locals alone outside a call of run().
LEMMA AtRest ==
  ASSUME LInv, working' = working, pc \in {"off", "plan", "persist", "raised"},
         pc' \in {"off", "plan", "persist", "raised"}
  PROVE  Idle' /\ Held' /\ Budgeted'
<1>1. Idle'
  BY DEF LInv, Control, Idle, working
<1>2. (Idle /\ pc \in {"off", "plan", "persist", "raised"}
         => Held /\ Budgeted)'
  BY EmptyHands, PTL
<1> QED BY <1>1, <1>2

LEMMA PersistKeepsLimits == ASSUME LInv, Persist PROVE LInv'
<1>1. /\ pc = "persist" /\ run' = [run EXCEPT !.status = result.status]
      /\ audit' = Rows(result) /\ result' = Unwritten
      /\ caller' = caller /\ working' = working
      /\ \/ pc' = "off" /\ error' = error
         \/ pc' = "raised" /\ error' = "database"
  BY DEF Persist
<1>2. Grounded(audit') /\ result.status \in Terminal
  BY <1>1, RowsGrounded DEF LInv
<1>3. run' \in [status : {"queued", "analyzing"} \cup Terminal,
                attempt : 0..MaxAttempts]
  BY <1>1, <1>2, StatusChange
<1>4. Idle' /\ Held' /\ Budgeted'
  BY <1>1, AtRest
<1>5. Control'
  BY <1>1, <1>3, <1>4 DEF LInv, Control
<1> QED BY <1>1, <1>2, <1>4, <1>5 DEF LInv

LEMMA HandleErrorKeepsLimits == ASSUME LInv, HandleError PROVE LInv'
<1> DEFINE s == IF run.status = "analyzing" /\ ~Retries THEN "failed"
                                                       ELSE run.status
<1>1. /\ pc = "raised" /\ run' = [run EXCEPT !.status = s]
      /\ pc' = "off" /\ error' = "none" /\ caller' = caller
      /\ audit' = audit /\ working' = working /\ result' = result
  BY DEF HandleError
<1>2. s \in {"queued", "analyzing"} \cup Terminal
  BY DEF LInv, Control, Terminal
<1> HIDE DEF s
<1>3. run' \in [status : {"queued", "analyzing"} \cup Terminal,
                attempt : 0..MaxAttempts]
  BY <1>1, <1>2, StatusChange
<1>4. Idle' /\ Held' /\ Budgeted'
  BY <1>1, AtRest
<1>5. Control'
  BY <1>1, <1>3, <1>4 DEF LInv, Control
<1> QED BY <1>1, <1>4, <1>5 DEF LInv

LEMMA RecoverKeepsLimits == ASSUME LInv, Recover PROVE LInv'
<1>1. /\ pc = "off" /\ run' = [run EXCEPT !.status = "failed"]
      /\ pc' = pc /\ error' = error /\ caller' = caller
      /\ audit' = audit /\ working' = working /\ result' = result
  BY DEF Recover
<1>2. run' \in [status : {"queued", "analyzing"} \cup Terminal,
                attempt : 0..MaxAttempts]
  BY <1>1, StatusChange DEF Terminal
<1>3. Idle' /\ Held' /\ Budgeted'
  BY <1>1, AtRest
<1>4. Control'
  BY <1>1, <1>2, <1>3 DEF LInv, Control
<1> QED BY <1>1, <1>3, <1>4 DEF LInv

LEMMA CrashKeepsLimits == ASSUME LInv, Crash PROVE LInv'
<1>1. /\ pc' = "off" /\ error' = "none" /\ result' = Unwritten /\ Forget
      /\ caller' = caller /\ run' = run /\ audit' = audit
  BY DEF Crash
<1>2. Idle' /\ Held' /\ Budgeted'
  BY <1>1, Forgotten
<1>3. Control'
  BY <1>1, <1>2 DEF LInv, Control
<1> QED BY <1>1, <1>2, <1>3 DEF LInv

LEMMA StutterKeepsLimits == ASSUME LInv, UNCHANGED vars PROVE LInv'
<1>1. /\ caller' = caller /\ run' = run /\ audit' = audit /\ pc' = pc
      /\ error' = error /\ result' = result /\ pending' = pending
      /\ queries' = queries /\ evidence' = evidence /\ iteration' = iteration
      /\ findings' = findings /\ rejected' = rejected
  BY DEF vars, working
<1>2. Control'
  BY <1>1 DEF LInv, Control, Idle
<1>3. Held'
  BY <1>1 DEF LInv, Held
<1>4. Budgeted'
  BY <1>1 DEF LInv, Budgeted, Distinct
<1> QED BY <1>1, <1>2, <1>3, <1>4 DEF LInv

LEMMA InitLInv == Init => LInv
<1> SUFFICES ASSUME Init PROVE LInv
  OBVIOUS
<1>1. Idle /\ pc = "off" /\ error = "none" /\ result = Unwritten
      /\ audit = Unwritten /\ caller \in {"worker", "service"}
      /\ run = [status |-> "queued", attempt |-> 0]
  BY DEF Init
<1>2. Held /\ Budgeted
  BY <1>1, EmptyHands
<1>3. run \in [status : {"queued", "analyzing"} \cup Terminal,
               attempt : 0..MaxAttempts]
  <2>1. 0 \in 0..MaxAttempts
    BY LimitsAssumption
  <2> QED BY <1>1, <2>1
<1>4. Control
  BY <1>1, <1>3 DEF Control
<1> QED BY <1>1, <1>2, <1>4 DEF LInv

LEMMA NextLInv == LInv /\ [Next]_vars => LInv'
<1> SUFFICES ASSUME LInv, [Next]_vars PROVE LInv'
  OBVIOUS
<1>1. CASE Misjudge \/ CallFails \/ Refuse \/ PersistFails
  <2>1. PICK e \in {"contract", "transient", "database", "refused"} : Raise(e)
    BY <1>1 DEF Misjudge, CallFails, Refuse, PersistFails
  <2> QED BY <2>1, RaiseKeeps
<1>2. CASE Begin
  BY <1>2, BeginKeepsLimits
<1>3. CASE Plan
  BY <1>3, PlanKeepsLimits
<1>4. CASE Search
  BY <1>4, SearchKeepsLimits
<1>5. CASE Retrieved
  BY <1>5, RetrievedKeepsLimits
<1>6. CASE Propose
  BY <1>6, ProposeKeepsLimits
<1>7. CASE Conclude
  BY <1>7, ConcludeKeepsLimits
<1>8. CASE AskForContext
  BY <1>8, AskKeepsLimits
<1>9. CASE Persist
  BY <1>9, PersistKeepsLimits
<1>10. CASE HandleError
  BY <1>10, HandleErrorKeepsLimits
<1>11. CASE Recover
  BY <1>11, RecoverKeepsLimits
<1>12. CASE Crash
  BY <1>12, CrashKeepsLimits
<1>13. CASE UNCHANGED vars
  BY <1>13, StutterKeepsLimits
<1> QED BY <1>1, <1>2, <1>3, <1>4, <1>5, <1>6, <1>7, <1>8, <1>9, <1>10,
           <1>11, <1>12, <1>13 DEF Next, Step, Done, Abandoned

LEMMA LimitsInvariance == Spec => []LInv
BY InitLInv, NextLInv, PTL DEF Spec

-----------------------------------------------------------------------------
(* The order of decisions.                                                 *)

LEMMA ImageCount ==
  ASSUME NEW A, IsFiniteSet(A), NEW g,
         \A i, j \in A : g[i] = g[j] => i = j
  PROVE  LET T == {g[i] : i \in A} IN
           IsFiniteSet(T) /\ Cardinality(T) = Cardinality(A)
<1> DEFINE T == {g[i] : i \in A}
           f == [i \in A |-> g[i]]
<1>1. /\ f \in [A -> T] /\ \A t \in T : \E i \in A : f[i] = t
      /\ \A i, j \in A : f[i] = f[j] => i = j
  OBVIOUS
<1> HIDE DEF f, T
<1>2. f \in Surjection(A, T) /\ f \in Injection(A, T)
  BY <1>1, Fun_IsSurj, Fun_IsInj
<1>3. IsFiniteSet(T) /\ Cardinality(T) = Cardinality(A)
  BY <1>2, FS_Surjection
<1> QED BY <1>3 DEF T

\* An increasing function takes the places of P to those of its image.
LEMMA IncreasingPlaces ==
  ASSUME NEW P \in SUBSET Nat, IsFiniteSet(P), NEW g,
         \A i \in P : g[i] \in Nat,
         \A i, j \in P : i < j => g[i] < g[j]
  PROVE  LET Q == {g[i] : i \in P} IN
           /\ Q \in SUBSET Nat /\ IsFiniteSet(Q)
           /\ Cardinality(Q) = Cardinality(P)
           /\ \A k \in 1..Cardinality(P) : Place(Q, k) = g[Place(P, k)]
<1> DEFINE Q == {g[i] : i \in P}
<1>1. \A i, j \in P : i < j \/ i = j \/ j < i
  OBVIOUS
<1>2. \A i, j \in P : g[i] = g[j] => i = j
  <2> SUFFICES ASSUME NEW i \in P, NEW j \in P, i # j
               PROVE  g[i] # g[j]
    OBVIOUS
  <2>1. g[i] < g[j] \/ g[j] < g[i]
    BY <1>1
  <2> QED BY <2>1
<1>3. Q \in SUBSET Nat /\ IsFiniteSet(Q) /\ Cardinality(Q) = Cardinality(P)
  BY <1>2, ImageCount
<1>4. ASSUME NEW k \in 1..Cardinality(P)
      PROVE  Place(Q, k) = g[Place(P, k)]
  <2> DEFINE p == Place(P, k)
             A == {j \in P : j < p}
  <2>1. p \in P /\ Below(P, p) = k - 1
    BY PlaceExists
  <2>2. {q \in Q : q < g[p]} = {g[j] : j \in A}
    <3>1. ASSUME NEW j \in P
          PROVE  g[j] < g[p] <=> j < p
      <4>1. j < p => g[j] < g[p]
        BY <2>1
      <4>2. p < j => g[p] < g[j]
        BY <2>1
      <4>3. g[j] \in Nat /\ g[p] \in Nat /\ j \in Nat /\ p \in Nat
        BY <2>1
      <4>4. j = p => g[j] = g[p]
        OBVIOUS
      <4> HIDE DEF p
      <4> QED BY <4>1, <4>2, <4>3, <4>4
    <3> HIDE DEF p
    <3> QED BY <2>1, <3>1
  <2>3. IsFiniteSet(A)
    <3>1. A \in SUBSET P
      OBVIOUS
    <3> HIDE DEF A
    <3> QED BY <3>1, FS_Subset
  <2>4. Cardinality({g[j] : j \in A}) = Cardinality(A)
    <3>1. \A i, j \in A : g[i] = g[j] => i = j
      BY <1>2
    <3> HIDE DEF A
    <3> QED BY <2>3, <3>1, ImageCount
  <2>5. Below(Q, g[p]) = k - 1
    BY <2>1, <2>2, <2>4 DEF Below
  <2>6. g[p] \in Q
    BY <2>1
  <2> HIDE DEF Q, p
  <2>7. Place(Q, Below(Q, g[p]) + 1) = g[p]
    BY <1>3, <2>6, PlaceExists
  <2>8. (k - 1) + 1 = k
    <3>1. Cardinality(P) \in Nat
      BY FS_CardinalityType
    <3> QED BY <3>1
  <2> QED BY <2>5, <2>7, <2>8 DEF p
<1> HIDE DEF Q
<1> QED BY <1>3, <1>4 DEF Q

\* Decisions in the order of the findings: both lists are the same.
LEMMA InOrderIsExpected ==
  ASSUME NEW found, NEW d \in Decisions,
         \A i, j \in DOMAIN d : i < j => ~(d[i].finding > d[j].finding)
  PROVE  Supported(found, d) = Expected(found, d)
<1> DEFINE S == Supporting(d)
           g == [i \in S |-> d[i].finding]
           F == {d[i].finding : i \in S}
           n == Cardinality(S)
           c == Chosen(d, S)
<1>1. /\ DOMAIN d \in SUBSET Nat /\ IsFiniteSet(DOMAIN d)
      /\ \A i \in DOMAIN d : d[i] \in Decision
      /\ \A i, j \in DOMAIN d : d[i].finding = d[j].finding => i = j
  <2>1. MaxAnswer \in Nat
    BY LimitsAssumption
  <2>2. d \in UpTo(Decision, MaxAnswer)
    BY DEF Decisions
  <2>3. \A i, j \in DOMAIN d : d[i].finding = d[j].finding => i = j
    BY DEF Decisions
  <2> QED BY <2>1, <2>2, <2>3, Answers
<1>2. \A i \in DOMAIN d : d[i].finding \in Nat
  <2>1. MaxAnswer \in Nat
    BY LimitsAssumption
  <2> QED BY <1>1, <2>1 DEF Decision
<1>3. S \in SUBSET Nat /\ IsFiniteSet(S) /\ S \subseteq DOMAIN d
  <2>1. S \in SUBSET (DOMAIN d)
    BY DEF Supporting
  <2> QED BY <1>1, <2>1, FS_Subset
<1> HIDE DEF S
<1>4. ASSUME NEW i \in S, NEW j \in S, i < j
      PROVE  g[i] < g[j]
  <2>1. i \in DOMAIN d /\ j \in DOMAIN d /\ i # j
    BY <1>3, <1>4
  <2>2. d[i].finding # d[j].finding /\ ~(d[i].finding > d[j].finding)
    BY <1>1, <1>4, <2>1
  <2>3. d[i].finding \in Nat /\ d[j].finding \in Nat
    BY <1>2, <2>1
  <2>4. d[i].finding < d[j].finding
    BY <2>2, <2>3
  <2> QED BY <2>4
<1>5. (\A i \in S : g[i] \in Nat) /\ F = {g[i] : i \in S}
  BY <1>2, <1>3
<1>6. /\ F \in SUBSET Nat /\ IsFiniteSet(F) /\ Cardinality(F) = n
      /\ \A k \in 1..n : Place(F, k) = g[Place(S, k)]
  <2> HIDE DEF g, F
  <2> QED BY <1>3, <1>4, <1>5, IncreasingPlaces
<1>7. /\ c = [k \in 1..n |-> d[Place(S, k)]]
      /\ n \in Nat /\ \A k \in 1..n : Place(S, k) \in S
  BY <1>3, ChosenInOrder
<1>8. Chosen(found, F) = [k \in 1..n |-> found[Place(F, k)]]
  <2> HIDE DEF F
  <2>1. Chosen(found, F) = [k \in 1..Cardinality(F) |-> found[Place(F, k)]]
    BY <1>6, ChosenInOrder
  <2> QED BY <1>6, <2>1
<1>9. Supported(found, d) = [k \in 1..n |-> found[d[Place(S, k)].finding]]
  <2>1. Supported(found, d) = [k \in DOMAIN c |-> found[c[k].finding]]
    BY DEF Supported, S
  <2> HIDE DEF c
  <2>2. DOMAIN c = 1..n /\ \A k \in 1..n : c[k] = d[Place(S, k)]
    BY <1>7
  <2> QED BY <2>1, <2>2
<1>10. \A k \in 1..n : Place(F, k) = d[Place(S, k)].finding
  BY <1>6, <1>7
<1>11. Expected(found, d) = Chosen(found, F)
  BY DEF Expected, S
<1> HIDE DEF F
<1> QED BY <1>8, <1>9, <1>10, <1>11

\* Type correctness: where the executor is, what it holds there, and that it
\* holds nothing outside a call of run().
THEOREM TypeCorrect == Spec => []TypeOK
<1>1. LInv => TypeOK
  <2> SUFFICES ASSUME LInv PROVE TypeOK
    OBVIOUS
  <2>1. \A S : \A s \in Seq(S) : Ran(s) \subseteq S
    BY DEF Ran
  <2>2. Locals
    BY <2>1 DEF LInv, Held, Locals
  <2> QED BY <2>2 DEF LInv, Control, TypeOK
<1> QED BY <1>1, LimitsInvariance, PTL

\* Whatever the reasoner and the search answer, no run exceeds its limits,
\* asks two queries of one folded text or stores more than it may.
THEOREM LimitsRespected == Spec => []LimitsHold
<1>1. LInv => LimitsHold
  <2> SUFFICES ASSUME LInv PROVE LimitsHold
    OBVIOUS
  <2>1. Len(queries \o pending) <= MaxTotal
    <3>1. Len(queries \o pending) = Len(queries) + Len(pending)
      BY ConcatProperties DEF LInv, Held
    <3> QED BY <3>1 DEF LInv, Budgeted
  <2>2. Distinct(queries \o pending)
    BY DEF LInv, Budgeted
  <2>3. /\ Cardinality(DOMAIN evidence) <= MaxEvidence
        /\ iteration <= MaxIterations
    <3>1. MaxIterations \in Nat /\ iteration \in 0..MaxIterations
      BY LimitsAssumption DEF LInv, Held
    <3> QED BY <3>1 DEF LInv, Held, Traced
  <2>4. audit # Unwritten =>
          /\ Len(audit.queries) \in 1..MaxTotal
          /\ Cardinality(DOMAIN audit.evidence) <= MaxEvidence
    BY DEF LInv, Grounded, Traced
  <2> QED BY <2>1, <2>2, <2>3, <2>4 DEF LimitsHold, Distinct
<1> QED BY <1>1, LimitsInvariance, PTL

\* Every stored violation has a supporting verdict, a citation that holds and
\* a query that found it, and none is stored twice.
THEOREM ViolationsGrounded == Spec => []ViolationsAreGrounded
<1>1. LInv => ViolationsAreGrounded
  <2> SUFFICES ASSUME LInv, audit # Unwritten, NEW i \in audit.violations
               PROVE  LET f == audit.reviews[i].finding IN
                        /\ audit.reviews[i].verdict = "supported"
                        /\ Cited(f, audit.evidence)
                        /\ audit.evidence[f.chunk] \in Ran(audit.queries)
                        /\ \A j \in audit.violations :
                             Identity(audit.reviews[j].finding) = Identity(f)
                               => i = j
    BY DEF ViolationsAreGrounded
  <2>1. Grounded(audit)
    BY DEF LInv
  <2>2. \A j \in audit.violations : j \in DOMAIN audit.reviews
    BY <2>1 DEF Grounded
  <2>3. /\ audit.reviews[i].verdict = "supported"
        /\ Cited(audit.reviews[i].finding, audit.evidence)
    BY <2>1, <2>2 DEF Grounded
  <2>4. audit.evidence[audit.reviews[i].finding.chunk] \in Ran(audit.queries)
    BY <2>1, <2>3 DEF Grounded, Traced, Cited
  <2>5. \A j \in audit.violations :
          Identity(audit.reviews[j].finding) = Identity(audit.reviews[i].finding)
            => i = j
    BY <2>1, <2>2 DEF Grounded
  <2> QED BY <2>3, <2>4, <2>5
<1> QED BY <1>1, LimitsInvariance, PTL

\* The only result of run() that persist_result refuses is one whose findings
\* the evaluator decided out of order.
THEOREM OrderAloneIsRefused == Spec => []OnlyOrderIsRefused
<1>1. LInv => OnlyOrderIsRefused
  <2> SUFFICES ASSUME LInv, pc = "persist",
                      \A i, j \in DOMAIN result.decisions :
                        i < j => ~(result.decisions[i].finding
                                     > result.decisions[j].finding)
               PROVE  Storable(result)
    BY DEF OnlyOrderIsRefused
  <2>1. Sound(result)
    BY DEF LInv
  <2>2. Supported(result.evaluated, result.decisions)
          = Expected(result.evaluated, result.decisions)
    BY <2>1, InOrderIsExpected DEF Sound
  <2>3. Consistent(result)
    BY <2>1, <2>2 DEF Sound, Consistent
  <2> QED BY <2>1, <2>3 DEF Sound, Traced, Storable
<1> QED BY <1>1, LimitsInvariance, PTL
=============================================================================
