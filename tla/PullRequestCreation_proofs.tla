---------------------- MODULE PullRequestCreation_proofs ----------------------
(***************************************************************************)
(* Theorems about PullRequestCreation for any number of workers, attempts  *)
(* and commits of reviewers, and for any number of requests on their way.  *)
(*                                                                         *)
(* That a job opens one pull request has two reasons, one for each world.  *)
(* When requests arrive late, nobody closes the pull request, and GitHub   *)
(* refuses a second open one.  When people close it, attempts follow each  *)
(* other, so nothing is created between the search and the request.        *)
(***************************************************************************)
EXTENDS PullRequestCreation, SequenceTheorems, TLAPS

Authors == {"base", "worker", "reviewer"}

CommitRecord == [text : Texts, parent : Nat, by : Authors]

PullRecord == [state : {"open", "closed", "merged"}, head : Nat, at : Nat]

AttemptRecord ==
  [pc : {"idle", "claimed", "find", "ref", "create", "contents", "put",
         "search", "open", "complete", "failing"},
   token : Nat, existing : Nat, seen : Nat, sha : Nat,
   text : Texts \cup {"none"}, failure : Failures]

(* The head of the branch is the approved result.                          *)
OnResult == branch # 0 /\ commit[branch].text = "result"

GitHubType ==
  /\ world \in Worlds
  /\ commit \in Seq(CommitRecord)
  /\ Len(commit) > 0
  /\ branch \in 0..Len(commit)
  /\ pull \in Seq(PullRecord)
  /\ Len(pull) <= 1

(* What the commits and the pull request of a job are.                     *)
History ==
  /\ \A c \in 1..Len(commit) :
       /\ commit[c].parent < c
       /\ commit[c].by = "worker" =>
            commit[c].parent # 0 /\ commit[commit[c].parent].text = "original"
  /\ \A p \in 1..Len(pull) :
       /\ pull[p].head <= Len(commit)
       /\ pull[p].at \in 1..Len(commit)
       /\ commit[pull[p].at].text = "result"
       /\ pull[p].state = "open" => branch # 0
       /\ world = "late" => pull[p].state = "open" /\ OnResult

GitHubInv == GitHubType /\ History

(* Whoever looked for a pull request has seen the result on the branch.    *)
Shown == Len(pull) = 0 => OnResult

Requests ==
  /\ \A q \in late : q = RefRequest \/ q = PullRequest
                       \/ q = PutRequest("original")
  /\ PullRequest \in late => Shown

Fits(r) ==
  /\ r \in AttemptRecord
  /\ r.token <= MaxAttempts
  /\ r.pc = "put" => r.text = "original"
  /\ r.pc = "complete" => r.existing # 0

Knows(r) ==
  /\ r.existing <= Len(pull)
  /\ r.seen <= Len(commit) /\ r.sha <= Len(commit)
  /\ r.pc \in {"search", "open"} => Shown

WorkersInv ==
  /\ worker = [w \in Workers |-> worker[w]]
  /\ \A w \in Workers : Fits(worker[w]) /\ Knows(worker[w])

JobRecord ==
  [status : {"approved", "creating_pr", "retry_scheduled", "completed", "failed"},
   attempts : Nat, token : Nat, live : BOOLEAN,
   failure : Failures \cup {"lease_expired"}]

JobInv ==
  /\ job \in JobRecord
  /\ job.token <= job.attempts /\ job.attempts <= MaxAttempts
  /\ job.status = "creating_pr" <=> job.token # 0
  /\ job.status = "completed" => Len(pull) # 0

OperationInv ==
  /\ operation \in [status : {"absent", "pending", "completed"},
                    commit : Nat, pull : Nat]
  /\ operation.commit <= Len(commit) /\ operation.pull <= Len(pull)

(* Attempts follow each other in the world of the reviewers.               *)
Working(w) ==
  /\ job.status = "creating_pr" /\ job.live /\ worker[w].token = job.token
  /\ \A v \in Workers : worker[v].pc # "idle" => v = w
  /\ worker[w].pc = "open" => Len(pull) = 0

Sequential ==
  world = "reviewed" =>
    /\ late = {}
    /\ \A w \in Workers : worker[w].pc # "idle" => Working(w)

IInv == /\ GitHubInv /\ Requests /\ WorkersInv
        /\ JobInv /\ OperationInv /\ Sequential

-----------------------------------------------------------------------------
(* What a step does at GitHub.                                             *)

IsRef == branch = 0 /\ branch' = 1 /\ UNCHANGED <<commit, pull>>

Appends(text, by) ==
  /\ commit' = Append(commit, [text |-> text, parent |-> branch, by |-> by])
  /\ branch' = Len(commit) + 1
  /\ pull' = pull

IsPut ==
  /\ branch # 0 /\ commit[branch].text = "original"
  /\ Appends("result", "worker")

IsPull ==
  /\ Len(pull) = 0 /\ OnResult
  /\ pull' = Append(pull, [state |-> "open", head |-> branch, at |-> branch])
  /\ UNCHANGED <<branch, commit>>

IsPush ==
  /\ world = "reviewed" /\ Len(pull) # 0 /\ branch # 0
  /\ \E text \in Texts : Appends(text, "reviewer")

IsClose ==
  /\ world = "reviewed"
  /\ \E p \in 1..Len(pull), state \in {"closed", "merged"} :
       pull' = [pull EXCEPT ![p] = [@ EXCEPT !.state = state, !.head = branch]]
  /\ UNCHANGED <<branch, commit>>

IsDelete ==
  /\ world = "reviewed" /\ Len(pull) # 0 /\ NoOpenPull
  /\ branch' = 0 /\ UNCHANGED <<commit, pull>>

GitHubMove ==
  /\ world' = world
  /\ \/ UNCHANGED <<branch, commit, pull>>
     \/ IsRef \/ IsPut \/ IsPull \/ IsPush \/ IsClose \/ IsDelete

(* Nothing is forgotten, and a result that was shown remains.              *)
Grows ==
  /\ Len(commit) <= Len(commit') /\ Len(pull) <= Len(pull')
  /\ Shown => Shown'

LEMMA Extended ==
  ASSUME NEW S, NEW s \in Seq(S), NEW e \in S
  PROVE  /\ Append(s, e) \in Seq(S)
         /\ Len(Append(s, e)) = Len(s) + 1
         /\ \A i \in 1..Len(s) : Append(s, e)[i] = s[i]
         /\ Append(s, e)[Len(s) + 1] = e
         /\ Len(s) \in Nat
         /\ \A i \in 1..Len(s) : s[i] \in S
BY AppendProperties, LenProperties, ElementOfSeq

LEMMA AppendsKeeps ==
  ASSUME GitHubInv, world' = world, NEW text \in Texts, NEW by \in Authors,
         Appends(text, by),
         by = "worker" => branch # 0 /\ commit[branch].text = "original",
         world = "late" => Len(pull) = 0,
         text = "result" \/ Len(pull) # 0
  PROVE  GitHubInv' /\ Grows
<1> DEFINE e == [text |-> text, parent |-> branch, by |-> by]
           n == Len(commit)
<1>1. e \in CommitRecord /\ commit \in Seq(CommitRecord) /\ pull \in Seq(PullRecord)
  BY SMT DEF CommitRecord, GitHubInv, GitHubType
<1>2. /\ commit' \in Seq(CommitRecord) /\ Len(commit') = n + 1
      /\ \A i \in 1..n : commit'[i] = commit[i]
      /\ commit'[n + 1] = e /\ n \in Nat
  BY <1>1, Extended DEF Appends
<1>3. branch' = n + 1 /\ pull' = pull
  BY DEF Appends
<1>4. e.text = text /\ e.parent = branch /\ e.by = by
  OBVIOUS
<1> HIDE DEF e
<1>5. GitHubType'
  BY <1>2, <1>3, SMT DEF GitHubInv, GitHubType
<1>6. \A c \in 1..Len(commit') :
        /\ commit'[c].parent < c
        /\ commit'[c].by = "worker" =>
             /\ commit'[c].parent # 0
             /\ commit'[commit'[c].parent].text = "original"
  <2>1. ASSUME NEW c \in 1..n
        PROVE  /\ commit'[c].parent < c
               /\ commit'[c].by = "worker" =>
                    /\ commit'[c].parent # 0
                    /\ commit'[commit'[c].parent].text = "original"
    <3>1. /\ commit[c].parent < c /\ commit[c] \in CommitRecord
          /\ commit[c].by = "worker" =>
               commit[c].parent # 0 /\ commit[commit[c].parent].text = "original"
      BY <1>1, Extended DEF GitHubInv, History
    <3>2. commit[c].parent \in Nat
      BY <3>1 DEF CommitRecord
    <3> QED BY <1>2, <3>1, <3>2, SMT
  <2>2. CASE by = "worker"
    BY <1>2, <1>4, <2>1, <2>2, SMT DEF GitHubInv, GitHubType
  <2>3. CASE by # "worker"
    BY <1>2, <1>4, <2>1, <2>3, SMT DEF GitHubInv, GitHubType
  <2> QED BY <2>2, <2>3
<1>7. \A p \in 1..Len(pull') :
        /\ pull'[p].head <= Len(commit')
        /\ pull'[p].at \in 1..Len(commit')
        /\ commit'[pull'[p].at].text = "result"
        /\ pull'[p].state = "open" => branch' # 0
        /\ world' = "late" => pull'[p].state = "open" /\ OnResult'
  <2>1. ASSUME NEW p \in 1..Len(pull)
        PROVE  pull[p].head \in Nat
    <3>1. pull[p] \in PullRecord
      BY <1>1, Extended
    <3> QED BY <3>1 DEF PullRecord
  <2> QED BY <1>1, <1>2, <1>3, <2>1, Extended, SMT DEF GitHubInv, History
<1>8. Grows
  <2>1. Shown'
    <3>1. CASE text = "result"
      <4>1. branch' # 0 /\ commit'[branch'].text = "result"
        BY <1>2, <1>3, <1>4, <3>1
      <4> QED BY <4>1 DEF Shown, OnResult
    <3>2. CASE Len(pull) # 0
      BY <1>3, <3>2 DEF Shown
    <3> QED BY <3>1, <3>2
  <2> QED BY <1>2, <1>3, <2>1, SMT DEF Grows
<1> QED BY <1>5, <1>6, <1>7, <1>8 DEF GitHubInv, History

LEMMA PullKeeps ==
  ASSUME GitHubInv, world' = world, IsPull
  PROVE  GitHubInv' /\ Grows
<1> DEFINE e == [state |-> "open", head |-> branch, at |-> branch]
<1>1. /\ e \in PullRecord /\ pull \in Seq(PullRecord) /\ Len(pull) = 0
      /\ branch \in 1..Len(commit) /\ commit[branch].text = "result"
      /\ UNCHANGED <<branch, commit>>
  BY LenProperties, SMT
     DEF PullRecord, GitHubInv, GitHubType, IsPull, OnResult, CommitRecord
<1>2. /\ pull' \in Seq(PullRecord) /\ Len(pull') = 1 /\ pull'[1] = e
  BY <1>1, Extended DEF IsPull
<1>3. e.state = "open" /\ e.head = branch /\ e.at = branch
  OBVIOUS
<1> HIDE DEF e
<1>4. OnResult'
  BY <1>1 DEF IsPull, OnResult
<1>5. GitHubType'
  BY <1>1, <1>2 DEF GitHubInv, GitHubType
<1>6. History'
  <2>1. \A p \in 1..Len(pull') : p = 1
    BY <1>2
  <2>2. \A c \in 1..Len(commit) :
          /\ commit[c].parent < c
          /\ commit[c].by = "worker" =>
               commit[c].parent # 0 /\ commit[commit[c].parent].text = "original"
    BY DEF GitHubInv, History
  <2>3. branch <= Len(commit)
    BY <1>1
  <2> QED BY <1>1, <1>2, <1>3, <1>4, <2>1, <2>2, <2>3 DEF History
<1>7. Grows
  BY <1>1, <1>2, <1>4, LenProperties, SMT DEF Grows, Shown, GitHubInv, GitHubType
<1> QED BY <1>5, <1>6, <1>7 DEF GitHubInv

LEMMA PullUpdate ==
  ASSUME NEW r \in PullRecord
  PROVE  /\ \A st \in {"open", "closed", "merged"} :
              [r EXCEPT !.state = st] \in PullRecord
         /\ \A n \in Nat : [r EXCEPT !.head = n] \in PullRecord
BY SMT DEF PullRecord

EndStates == {"closed", "merged"}

Ended(r, state, b) == [r EXCEPT !.state = state, !.head = b]

LEMMA EndedPull ==
  ASSUME NEW r \in PullRecord, NEW state \in EndStates,
         NEW b \in Nat
  PROVE  /\ Ended(r, state, b) \in PullRecord
         /\ Ended(r, state, b).state = state
         /\ Ended(r, state, b).head = b
         /\ Ended(r, state, b).at = r.at
<1> DEFINE e == [r EXCEPT !.state = state, !.head = b]
<1>1. e \in PullRecord
  <2>1. [r EXCEPT !.state = state] \in PullRecord
    BY PullUpdate DEF EndStates
  <2> QED BY <2>1, PullUpdate, Zenon
<1>2. e.state = state
  BY SMT DEF PullRecord
<1>3. e.head = b
  BY SMT DEF PullRecord
<1>4. e.at = r.at
  BY SMT DEF PullRecord
<1> QED BY <1>1, <1>2, <1>3, <1>4 DEF Ended

LEMMA CloseKeeps ==
  ASSUME GitHubInv, world' = world, IsClose
  PROVE  GitHubInv' /\ Grows
<1>1. PICK p \in 1..Len(pull), state \in EndStates :
        pull' = [pull EXCEPT ![p] = [@ EXCEPT !.state = state, !.head = branch]]
  BY Zenon DEF IsClose, EndStates
<1> DEFINE e == Ended(pull[p], state, branch)
<1>2. /\ pull \in Seq(PullRecord) /\ pull[p] \in PullRecord
      /\ branch \in 0..Len(commit) /\ Len(commit) \in Nat
  BY Extended DEF GitHubInv, GitHubType
<1>3. /\ e \in PullRecord /\ e.state = state /\ e.head = branch
      /\ e.at = pull[p].at
  <2>1. branch \in Nat
    BY <1>2
  <2>2. PICK r \in PullRecord : r = pull[p]
    BY <1>2
  <2>3. /\ Ended(r, state, branch) \in PullRecord
        /\ Ended(r, state, branch).state = state
        /\ Ended(r, state, branch).head = branch
        /\ Ended(r, state, branch).at = r.at
    BY <2>1, EndedPull
  <2> QED BY <2>2, <2>3
<1> HIDE DEF e
<1>4. /\ pull' \in Seq(PullRecord) /\ Len(pull') = Len(pull)
      /\ \A i \in 1..Len(pull) : pull'[i] = IF i = p THEN e ELSE pull[i]
  <2>1. pull' = [pull EXCEPT ![p] = e]
    BY <1>1 DEF e, Ended
  <2> QED BY <1>2, <1>3, <2>1, ExceptSeq, Extended
<1>5. /\ world = "reviewed" /\ UNCHANGED <<branch, commit>>
  BY DEF IsClose
<1>6. GitHubType'
  BY <1>4, <1>5 DEF GitHubInv, GitHubType
<1>7. History'
  BY <1>2, <1>3, <1>4, <1>5, SMT DEF GitHubInv, History, EndStates
<1>8. Grows
  BY <1>2, <1>4, <1>5, Extended DEF Grows, Shown, OnResult
<1> QED BY <1>6, <1>7, <1>8 DEF GitHubInv

LEMMA MoveKeeps ==
  ASSUME GitHubInv, GitHubMove
  PROVE  GitHubInv' /\ Grows
<1>1. /\ world' = world
      /\ commit \in Seq(CommitRecord) /\ pull \in Seq(PullRecord)
      /\ Len(commit) \in Nat /\ Len(pull) \in Nat
      /\ Len(commit) > 0
  BY LenProperties DEF GitHubMove, GitHubInv, GitHubType
<1>2. CASE UNCHANGED <<branch, commit, pull>>
  <2>1. GitHubInv'
    BY <1>1, <1>2 DEF GitHubInv, GitHubType, History, OnResult
  <2> QED BY <1>1, <1>2, <2>1 DEF Grows, Shown, OnResult
<1>3. CASE IsRef
  <2>1. GitHubType'
    BY <1>1, <1>3, SMT DEF IsRef, GitHubInv, GitHubType
  <2>2. History'
    BY <1>1, <1>3 DEF IsRef, GitHubInv, History, OnResult
  <2> QED BY <1>1, <1>3, <2>1, <2>2 DEF IsRef, Grows, Shown, OnResult, GitHubInv
<1>4. CASE IsPut
  <2>1. world = "late" => Len(pull) = 0
    <3>1. CASE world = "late" /\ Len(pull) # 0
      <4>1. OnResult
        BY <1>1, <3>1 DEF GitHubInv, History
      <4> QED BY <1>4, <4>1 DEF IsPut, OnResult
    <3> QED BY <3>1
  <2>2. "result" \in Texts /\ "worker" \in Authors
    BY DEF Texts, Authors
  <2> QED BY <1>1, <1>4, <2>1, <2>2, AppendsKeeps DEF IsPut
<1>5. CASE IsPush
  <2>1. PICK text \in Texts : Appends(text, "reviewer")
    BY <1>5 DEF IsPush
  <2>2. "reviewer" \in Authors
    BY DEF Authors
  <2> QED BY <1>1, <1>5, <2>1, <2>2, AppendsKeeps DEF IsPush
<1>6. CASE IsDelete
  <2>1. \A p \in 1..Len(pull) : pull[p].state # "open"
    BY <1>1, <1>6, LenProperties DEF IsDelete, NoOpenPull
  <2>2. GitHubType'
    BY <1>1, <1>6, SMT DEF IsDelete, GitHubInv, GitHubType
  <2>3. History'
    BY <1>1, <1>6, <2>1 DEF IsDelete, GitHubInv, History
  <2> QED BY <1>1, <1>6, <2>2, <2>3 DEF IsDelete, Grows, Shown, GitHubInv
<1> QED BY <1>1, <1>2, <1>3, <1>4, <1>5, <1>6, PullKeeps, CloseKeeps
        DEF GitHubMove

-----------------------------------------------------------------------------
(* What a worker's step leaves, when the local state it reaches is known.  *)

LEMMA Fields ==
  ASSUME NEW r \in AttemptRecord
  PROVE  /\ r.token \in Nat /\ r.existing \in Nat /\ r.seen \in Nat
         /\ r.sha \in Nat /\ r.text \in Texts \cup {"none"}
         /\ r.failure \in Failures
BY DEF AttemptRecord

LEMMA OperationKept ==
  ASSUME OperationInv, Grows, UNCHANGED operation,
         Len(commit) \in Nat, Len(pull) \in Nat,
         Len(commit') \in Nat, Len(pull') \in Nat
  PROVE  OperationInv'
<1>1. operation.commit \in Nat /\ operation.pull \in Nat
  BY DEF OperationInv
<1> QED BY <1>1, SMT DEF OperationInv, Grows

LEMMA Lengths ==
  ASSUME GitHubInv
  PROVE  Len(commit) \in Nat /\ Len(pull) \in Nat
BY LenProperties DEF GitHubInv, GitHubType

LEMMA RequestsKept ==
  ASSUME Requests, Grows, late' \subseteq late
  PROVE  Requests'
BY DEF Requests, Grows

(* What a new local state must satisfy, after the step.                    *)
Suits(e, shown, commits, pulls) ==
  /\ Fits(e)
  /\ e.existing <= pulls /\ e.seen <= commits /\ e.sha <= commits
  /\ e.pc \in {"search", "open"} => shown

LEMMA WorkersKept ==
  ASSUME WorkersInv, Grows,
         Len(commit) \in Nat, Len(pull) \in Nat,
         Len(commit') \in Nat, Len(pull') \in Nat,
         NEW w \in Workers, NEW e, Becomes(w, e),
         Suits(e, Shown', Len(commit'), Len(pull'))
  PROVE  /\ WorkersInv'
         /\ \A v \in Workers : worker'[v] = IF v = w THEN e ELSE worker[v]
<1>1. /\ worker' = [v \in Workers |-> worker'[v]]
      /\ \A v \in Workers : worker'[v] = IF v = w THEN e ELSE worker[v]
  BY DEF WorkersInv, Becomes
<1>2. ASSUME NEW v \in Workers
      PROVE  (Fits(worker[v]) /\ Knows(worker[v]))'
  <2>1. CASE v = w
    BY <1>1, <2>1 DEF Suits, Knows, Fits
  <2>2. CASE v # w
    <3>1. Fits(worker[v]) /\ Knows(worker[v]) /\ worker'[v] = worker[v]
      BY <1>1, <2>2 DEF WorkersInv
    <3>2. /\ worker[v].existing \in Nat /\ worker[v].seen \in Nat
          /\ worker[v].sha \in Nat
      BY <3>1, Fields DEF Fits
    <3>3. Fits(worker[v])'
      BY <3>1 DEF Fits
    <3>4. Knows(worker[v])'
      BY <3>1, <3>2, SMT DEF Knows, Grows
    <3> QED BY <3>3, <3>4
  <2> QED BY <2>1, <2>2
<1> QED BY <1>1, <1>2 DEF WorkersInv

LEMMA WorkersStay ==
  ASSUME WorkersInv, Grows, UNCHANGED worker,
         Len(commit) \in Nat, Len(pull) \in Nat,
         Len(commit') \in Nat, Len(pull') \in Nat
  PROVE  WorkersInv'
<1>1. ASSUME NEW v \in Workers
      PROVE  (Fits(worker[v]) /\ Knows(worker[v]))'
  <2>1. Fits(worker[v]) /\ Knows(worker[v])
    BY DEF WorkersInv
  <2>2. /\ worker[v].existing \in Nat /\ worker[v].seen \in Nat
        /\ worker[v].sha \in Nat
    BY <2>1, Fields DEF Fits
  <2> QED BY <2>1, <2>2, SMT DEF Fits, Knows, Grows
<1> QED BY <1>1 DEF WorkersInv

(* A step in the middle of an attempt.                                     *)
LEMMA AttemptGoesOn ==
  ASSUME IInv, GitHubMove, NEW w \in Workers, NEW e, Becomes(w, e),
         Suits(e, Shown', Len(commit'), Len(pull')),
         worker[w].pc # "idle",
         e.pc = "idle" \/ e.token = worker[w].token,
         e.pc = "open" => Len(pull') = 0,
         job' = job, OperationInv', Requests',
         world = "reviewed" => late' = late
  PROVE  IInv'
<1>1. GitHubInv' /\ Grows
  BY MoveKeeps DEF IInv
<1>2. /\ Len(commit) \in Nat /\ Len(pull) \in Nat
      /\ Len(commit') \in Nat /\ Len(pull') \in Nat
  BY <1>1, Lengths DEF IInv
<1>3. /\ WorkersInv'
      /\ \A v \in Workers : worker'[v] = IF v = w THEN e ELSE worker[v]
  BY <1>1, <1>2, WorkersKept DEF IInv
<1>4. JobInv'
  BY <1>1, <1>2, SMT DEF IInv, JobInv, JobRecord, Grows
<1>5. Sequential'
  <2> SUFFICES ASSUME world' = "reviewed"
               PROVE  /\ late' = {}
                      /\ \A v \in Workers : worker'[v].pc # "idle" => Working(v)'
    BY DEF Sequential
  <2>1. world = "reviewed" /\ late' = {} /\ Working(w)
    BY DEF GitHubMove, IInv, Sequential
  <2>2. ASSUME NEW v \in Workers, worker'[v].pc # "idle"
        PROVE  Working(v)'
    <3>1. v = w /\ worker'[w] = e
      BY <1>3, <2>1, <2>2 DEF Working
    <3>2. \A u \in Workers : worker'[u].pc # "idle" => u = w
      BY <1>3, <2>1 DEF Working
    <3> QED BY <2>1, <2>2, <3>1, <3>2 DEF Working
  <2> QED BY <2>1, <2>2
<1> QED BY <1>1, <1>3, <1>4, <1>5 DEF IInv

(* A step that only changes the local state of a worker.                   *)
LEMMA LocalStep ==
  ASSUME IInv, NEW w \in Workers, NEW e, Becomes(w, e),
         Suits(e, Shown, Len(commit), Len(pull)),
         worker[w].pc # "idle",
         e.pc = "idle" \/ e.token = worker[w].token,
         e.pc = "open" => Len(pull) = 0,
         UNCHANGED <<world, github, database>>
  PROVE  IInv'
<1>1. /\ UNCHANGED <<world, branch, commit, pull, late>>
      /\ UNCHANGED <<job, operation>>
  BY DEF github, database
<1>2. GitHubMove
  BY <1>1 DEF GitHubMove
<1>3. Shown' = Shown
  BY <1>1 DEF Shown, OnResult
<1>4. OperationInv' /\ Requests'
  BY <1>1, <1>3 DEF IInv, OperationInv, Requests
<1> QED BY <1>1, <1>2, <1>3, <1>4, AttemptGoesOn

-----------------------------------------------------------------------------
(* The local states a step of an attempt leads to.                         *)

Pcs == {"idle", "claimed", "find", "ref", "create", "contents", "put",
        "search", "open", "complete", "failing"}

LEMMA AttemptUpdate ==
  ASSUME NEW r \in AttemptRecord
  PROVE  /\ \A c \in Pcs : [r EXCEPT !.pc = c] \in AttemptRecord
         /\ \A n \in Nat : [r EXCEPT !.token = n] \in AttemptRecord
         /\ \A n \in Nat : [r EXCEPT !.existing = n] \in AttemptRecord
         /\ \A n \in Nat : [r EXCEPT !.seen = n] \in AttemptRecord
         /\ \A n \in Nat : [r EXCEPT !.sha = n] \in AttemptRecord
         /\ \A t \in Texts : [r EXCEPT !.text = t] \in AttemptRecord
         /\ \A f \in Failures : [r EXCEPT !.failure = f] \in AttemptRecord
BY SMT DEF AttemptRecord, Pcs

LEMMA IdleRecord ==
  Idle \in AttemptRecord /\ Idle.pc = "idle" /\ Idle.token = 0
    /\ Idle.existing = 0 /\ Idle.seen = 0 /\ Idle.sha = 0
BY DEF Idle, AttemptRecord, Texts, Failures

Goes(r, c) ==
  [r EXCEPT !.pc = c]

LEMMA GoesRecord ==
  ASSUME NEW r \in AttemptRecord, NEW c \in Pcs
  PROVE  /\ Goes(r, c) \in AttemptRecord
         /\ Goes(r, c).pc = c
         /\ Goes(r, c).token = r.token
         /\ Goes(r, c).existing = r.existing
         /\ Goes(r, c).seen = r.seen
         /\ Goes(r, c).sha = r.sha
         /\ Goes(r, c).text = r.text
<1> DEFINE e == Goes(r, c)
<1>1. e \in AttemptRecord
  BY AttemptUpdate DEF Pcs, Goes
<1>2. e.pc = c
  BY SMT DEF Goes, AttemptRecord
<1>3. e.token = r.token
  BY SMT DEF Goes, AttemptRecord
<1>4. e.existing = r.existing
  BY SMT DEF Goes, AttemptRecord
<1>5. e.seen = r.seen
  BY SMT DEF Goes, AttemptRecord
<1>6. e.sha = r.sha
  BY SMT DEF Goes, AttemptRecord
<1>7. e.text = r.text
  BY SMT DEF Goes, AttemptRecord
<1> QED BY <1>1, <1>2, <1>3, <1>4, <1>5, <1>6, <1>7

Failed(r, f) ==
  [r EXCEPT !.pc = "failing", !.failure = f]

LEMMA FailedRecord ==
  ASSUME NEW r \in AttemptRecord, NEW f \in Failures
  PROVE  /\ Failed(r, f) \in AttemptRecord
         /\ Failed(r, f).pc = "failing"
         /\ Failed(r, f).token = r.token
         /\ Failed(r, f).existing = r.existing
         /\ Failed(r, f).seen = r.seen
         /\ Failed(r, f).sha = r.sha
         /\ Failed(r, f).text = r.text
<1> DEFINE e == Failed(r, f)
<1>1. e \in AttemptRecord
  <2>1. [r EXCEPT !.pc = "failing"] \in AttemptRecord
    BY AttemptUpdate DEF Pcs
  <2> QED BY <2>1, AttemptUpdate, Zenon DEF Pcs, Failed
<1>2. e.pc = "failing"
  BY SMT DEF Failed, AttemptRecord
<1>3. e.token = r.token
  BY SMT DEF Failed, AttemptRecord
<1>4. e.existing = r.existing
  BY SMT DEF Failed, AttemptRecord
<1>5. e.seen = r.seen
  BY SMT DEF Failed, AttemptRecord
<1>6. e.sha = r.sha
  BY SMT DEF Failed, AttemptRecord
<1>7. e.text = r.text
  BY SMT DEF Failed, AttemptRecord
<1> QED BY <1>1, <1>2, <1>3, <1>4, <1>5, <1>6, <1>7

Looked(r, n, m) ==
  [r EXCEPT !.pc = "ref", !.existing = n, !.seen = m]

LEMMA LookedRecord ==
  ASSUME NEW r \in AttemptRecord, NEW n \in Nat, NEW m \in Nat
  PROVE  /\ Looked(r, n, m) \in AttemptRecord
         /\ Looked(r, n, m).pc = "ref"
         /\ Looked(r, n, m).token = r.token
         /\ Looked(r, n, m).existing = n
         /\ Looked(r, n, m).seen = m
         /\ Looked(r, n, m).sha = r.sha
         /\ Looked(r, n, m).text = r.text
<1> DEFINE e == Looked(r, n, m)
<1>1. e \in AttemptRecord
  <2>1. [r EXCEPT !.pc = "ref"] \in AttemptRecord
    BY AttemptUpdate DEF Pcs
  <2>2. [r EXCEPT !.pc = "ref", !.existing = n] \in AttemptRecord
    BY <2>1, AttemptUpdate, Zenon DEF Pcs
  <2> QED BY <2>2, AttemptUpdate, Zenon DEF Pcs, Looked
<1>2. e.pc = "ref"
  BY SMT DEF Looked, AttemptRecord
<1>3. e.token = r.token
  BY SMT DEF Looked, AttemptRecord
<1>4. e.existing = n
  BY SMT DEF Looked, AttemptRecord
<1>5. e.seen = m
  BY SMT DEF Looked, AttemptRecord
<1>6. e.sha = r.sha
  BY SMT DEF Looked, AttemptRecord
<1>7. e.text = r.text
  BY SMT DEF Looked, AttemptRecord
<1> QED BY <1>1, <1>2, <1>3, <1>4, <1>5, <1>6, <1>7

AtCommit(r, c, n) ==
  [r EXCEPT !.pc = c, !.sha = n]

LEMMA AtCommitRecord ==
  ASSUME NEW r \in AttemptRecord, NEW c \in Pcs, NEW n \in Nat
  PROVE  /\ AtCommit(r, c, n) \in AttemptRecord
         /\ AtCommit(r, c, n).pc = c
         /\ AtCommit(r, c, n).token = r.token
         /\ AtCommit(r, c, n).existing = r.existing
         /\ AtCommit(r, c, n).seen = r.seen
         /\ AtCommit(r, c, n).sha = n
         /\ AtCommit(r, c, n).text = r.text
<1> DEFINE e == AtCommit(r, c, n)
<1>1. e \in AttemptRecord
  <2>1. [r EXCEPT !.pc = c] \in AttemptRecord
    BY AttemptUpdate DEF Pcs
  <2> QED BY <2>1, AttemptUpdate, Zenon DEF Pcs, AtCommit
<1>2. e.pc = c
  BY SMT DEF AtCommit, AttemptRecord
<1>3. e.token = r.token
  BY SMT DEF AtCommit, AttemptRecord
<1>4. e.existing = r.existing
  BY SMT DEF AtCommit, AttemptRecord
<1>5. e.seen = r.seen
  BY SMT DEF AtCommit, AttemptRecord
<1>6. e.sha = n
  BY SMT DEF AtCommit, AttemptRecord
<1>7. e.text = r.text
  BY SMT DEF AtCommit, AttemptRecord
<1> QED BY <1>1, <1>2, <1>3, <1>4, <1>5, <1>6, <1>7

Read(r, t) ==
  [r EXCEPT !.pc = "put", !.text = t]

LEMMA ReadRecord ==
  ASSUME NEW r \in AttemptRecord, NEW t \in Texts
  PROVE  /\ Read(r, t) \in AttemptRecord
         /\ Read(r, t).pc = "put"
         /\ Read(r, t).token = r.token
         /\ Read(r, t).existing = r.existing
         /\ Read(r, t).seen = r.seen
         /\ Read(r, t).sha = r.sha
         /\ Read(r, t).text = t
<1> DEFINE e == Read(r, t)
<1>1. e \in AttemptRecord
  <2>1. [r EXCEPT !.pc = "put"] \in AttemptRecord
    BY AttemptUpdate DEF Pcs
  <2> QED BY <2>1, AttemptUpdate, Zenon DEF Pcs, Read
<1>2. e.pc = "put"
  BY SMT DEF Read, AttemptRecord
<1>3. e.token = r.token
  BY SMT DEF Read, AttemptRecord
<1>4. e.existing = r.existing
  BY SMT DEF Read, AttemptRecord
<1>5. e.seen = r.seen
  BY SMT DEF Read, AttemptRecord
<1>6. e.sha = r.sha
  BY SMT DEF Read, AttemptRecord
<1>7. e.text = t
  BY SMT DEF Read, AttemptRecord
<1> QED BY <1>1, <1>2, <1>3, <1>4, <1>5, <1>6, <1>7

Decided(r, c, n) ==
  [r EXCEPT !.existing = n, !.pc = c]

LEMMA DecidedRecord ==
  ASSUME NEW r \in AttemptRecord, NEW c \in Pcs, NEW n \in Nat
  PROVE  /\ Decided(r, c, n) \in AttemptRecord
         /\ Decided(r, c, n).pc = c
         /\ Decided(r, c, n).token = r.token
         /\ Decided(r, c, n).existing = n
         /\ Decided(r, c, n).seen = r.seen
         /\ Decided(r, c, n).sha = r.sha
         /\ Decided(r, c, n).text = r.text
<1> DEFINE e == Decided(r, c, n)
<1>1. e \in AttemptRecord
  <2>1. [r EXCEPT !.existing = n] \in AttemptRecord
    BY AttemptUpdate DEF Pcs
  <2> QED BY <2>1, AttemptUpdate, Zenon DEF Pcs, Decided
<1>2. e.pc = c
  BY SMT DEF Decided, AttemptRecord
<1>3. e.token = r.token
  BY SMT DEF Decided, AttemptRecord
<1>4. e.existing = n
  BY SMT DEF Decided, AttemptRecord
<1>5. e.seen = r.seen
  BY SMT DEF Decided, AttemptRecord
<1>6. e.sha = r.sha
  BY SMT DEF Decided, AttemptRecord
<1>7. e.text = r.text
  BY SMT DEF Decided, AttemptRecord
<1> QED BY <1>1, <1>2, <1>3, <1>4, <1>5, <1>6, <1>7

Opened(r, n) ==
  [r EXCEPT !.pc = "complete", !.existing = n]

LEMMA OpenedRecord ==
  ASSUME NEW r \in AttemptRecord, NEW n \in Nat
  PROVE  /\ Opened(r, n) \in AttemptRecord
         /\ Opened(r, n).pc = "complete"
         /\ Opened(r, n).token = r.token
         /\ Opened(r, n).existing = n
         /\ Opened(r, n).seen = r.seen
         /\ Opened(r, n).sha = r.sha
         /\ Opened(r, n).text = r.text
<1> DEFINE e == Opened(r, n)
<1>1. e \in AttemptRecord
  <2>1. [r EXCEPT !.pc = "complete"] \in AttemptRecord
    BY AttemptUpdate DEF Pcs
  <2> QED BY <2>1, AttemptUpdate, Zenon DEF Pcs, Opened
<1>2. e.pc = "complete"
  BY SMT DEF Opened, AttemptRecord
<1>3. e.token = r.token
  BY SMT DEF Opened, AttemptRecord
<1>4. e.existing = n
  BY SMT DEF Opened, AttemptRecord
<1>5. e.seen = r.seen
  BY SMT DEF Opened, AttemptRecord
<1>6. e.sha = r.sha
  BY SMT DEF Opened, AttemptRecord
<1>7. e.text = r.text
  BY SMT DEF Opened, AttemptRecord
<1> QED BY <1>1, <1>2, <1>3, <1>4, <1>5, <1>6, <1>7

Claimed(r, n) ==
  [r EXCEPT !.pc = "claimed", !.token = n]

LEMMA ClaimedRecord ==
  ASSUME NEW r \in AttemptRecord, NEW n \in Nat
  PROVE  /\ Claimed(r, n) \in AttemptRecord
         /\ Claimed(r, n).pc = "claimed"
         /\ Claimed(r, n).token = n
         /\ Claimed(r, n).existing = r.existing
         /\ Claimed(r, n).seen = r.seen
         /\ Claimed(r, n).sha = r.sha
         /\ Claimed(r, n).text = r.text
<1> DEFINE e == Claimed(r, n)
<1>1. e \in AttemptRecord
  <2>1. [r EXCEPT !.pc = "claimed"] \in AttemptRecord
    BY AttemptUpdate DEF Pcs
  <2> QED BY <2>1, AttemptUpdate, Zenon DEF Pcs, Claimed
<1>2. e.pc = "claimed"
  BY SMT DEF Claimed, AttemptRecord
<1>3. e.token = n
  BY SMT DEF Claimed, AttemptRecord
<1>4. e.existing = r.existing
  BY SMT DEF Claimed, AttemptRecord
<1>5. e.seen = r.seen
  BY SMT DEF Claimed, AttemptRecord
<1>6. e.sha = r.sha
  BY SMT DEF Claimed, AttemptRecord
<1>7. e.text = r.text
  BY SMT DEF Claimed, AttemptRecord
<1> QED BY <1>1, <1>2, <1>3, <1>4, <1>5, <1>6, <1>7

-----------------------------------------------------------------------------
(* The steps of an attempt.                                                *)

LEMMA Bounds ==
  ASSUME IInv, NEW w \in Workers
  PROVE  /\ worker[w] \in AttemptRecord /\ Fits(worker[w]) /\ Knows(worker[w])
         /\ worker[w].token \in Nat /\ worker[w].existing \in Nat
         /\ worker[w].seen \in Nat /\ worker[w].sha \in Nat
         /\ Len(commit) \in Nat /\ Len(pull) \in Nat /\ Len(commit) > 0
         /\ branch \in Nat /\ branch <= Len(commit)
<1>1. Fits(worker[w]) /\ Knows(worker[w])
  BY DEF IInv, WorkersInv
<1>2. worker[w] \in AttemptRecord
  BY <1>1 DEF Fits
<1>3. branch \in 0..Len(commit) /\ Len(commit) > 0
  BY DEF IInv, GitHubInv, GitHubType
<1> QED BY <1>1, <1>2, <1>3, Fields, Lengths DEF IInv

LEMMA FailingSuits ==
  ASSUME IInv, Grows, Len(commit') \in Nat, Len(pull') \in Nat,
         NEW w \in Workers, NEW f \in Failures
  PROVE  /\ Suits(Failing(w, f), Shown', Len(commit'), Len(pull'))
         /\ Failing(w, f).pc = "failing"
         /\ Failing(w, f).token = worker[w].token
<1> DEFINE e == Failing(w, f)
<1>1. e = Failed(worker[w], f)
  BY DEF Failing, Failed
<1>2. /\ e \in AttemptRecord /\ e.pc = "failing"
      /\ e.token = worker[w].token /\ e.existing = worker[w].existing
      /\ e.seen = worker[w].seen /\ e.sha = worker[w].sha
  BY <1>1, Bounds, FailedRecord
<1> HIDE DEF e
<1>3. Suits(e, Shown', Len(commit'), Len(pull'))
  <2>1. worker[w].token <= MaxAttempts
    BY Bounds DEF Fits
  <2>2. /\ e.existing <= Len(pull') /\ e.seen <= Len(commit')
        /\ e.sha <= Len(commit')
    BY <1>2, Bounds, SMT DEF Grows, Knows
  <2> QED BY <1>2, <2>1, <2>2 DEF Suits, Fits
<1> QED BY <1>2, <1>3 DEF e

LEMMA IdleSuits ==
  ASSUME Len(commit') \in Nat, Len(pull') \in Nat
  PROVE  Suits(Idle, Shown', Len(commit'), Len(pull'))
<1>1. 0 <= MaxAttempts
  BY CreationAssumption
<1> QED BY <1>1, IdleRecord, SMT DEF Suits, Fits

(* What GitHub does with a request that it accepts.                        *)
Asks(request) ==
  \/ request = RefRequest
  \/ request = PutRequest("original")
  \/ /\ request = PullRequest /\ Shown
     /\ world = "reviewed" => Len(pull) = 0

LEMMA EffectMoves ==
  ASSUME IInv, NEW request, Asks(request), Accepts(request),
         TakesEffect(request), world' = world
  PROVE  GitHubMove
<1>1. CASE request = RefRequest
  <2>1. request.kind = "ref"
    BY <1>1 DEF RefRequest
  <2>2. IsRef
    BY <2>1, SMT DEF Accepts, TakesEffect, IsRef, Base
  <2> QED BY <2>2 DEF GitHubMove
<1>2. CASE request = PutRequest("original")
  <2>1. request.kind = "put" /\ request.sees = "original"
    BY <1>2 DEF PutRequest
  <2>2. IsPut
    BY <2>1 DEF Accepts, TakesEffect, IsPut, Commit, Appends
  <2> QED BY <2>2 DEF GitHubMove
<1>3. CASE /\ request = PullRequest /\ Shown
           /\ world = "reviewed" => Len(pull) = 0
  <2>1. request.kind = "pull"
    BY <1>3 DEF PullRequest
  <2>2. NoOpenPull
    BY <2>1, SMT DEF Accepts
  <2>3. Len(pull) = 0
    <3>1. CASE world = "late"
      <4>1. \A p \in 1..Len(pull) : pull[p].state = "open"
        BY <3>1 DEF IInv, GitHubInv, History
      <4>2. \A p \in 1..Len(pull) : pull[p].state # "open"
        BY <2>2, LenProperties DEF NoOpenPull, IInv, GitHubInv, GitHubType
      <4>3. Len(pull) \in Nat
        BY Lengths DEF IInv
      <4> QED BY <4>1, <4>2, <4>3
    <3>2. CASE world = "reviewed"
      BY <1>3, <3>2
    <3> QED BY <3>1, <3>2, CreationAssumption
            DEF IInv, GitHubInv, GitHubType
  <2>4. OnResult
    BY <1>3, <2>3 DEF Shown
  <2>5. IsPull
    BY <2>1, <2>3, <2>4 DEF TakesEffect, IsPull
  <2> QED BY <2>5 DEF GitHubMove
<1> QED BY <1>1, <1>2, <1>3 DEF Asks

LEMMA SendKeeps ==
  ASSUME IInv, NEW w \in Workers, NEW request, NEW answered,
         Sends(w, request, answered), Asks(request),
         worker[w].pc # "idle", UNCHANGED <<world, database>>,
         Accepts(request) /\ TakesEffect(request) =>
           Suits(answered, Shown', Len(commit'), Len(pull')),
         answered.token = worker[w].token, answered.pc # "open"
  PROVE  IInv'
<1>1. UNCHANGED <<world, job, operation>>
  BY DEF database
<1>2. {"retryable", "conflict"} \subseteq Failures
  BY DEF Failures
<1>3. CASE /\ Accepts(request) /\ TakesEffect(request)
           /\ Becomes(w, answered) \/ Becomes(w, Failing(w, "retryable"))
           /\ UNCHANGED late
  <2>1. GitHubMove
    BY <1>1, <1>3, EffectMoves
  <2>2. GitHubInv' /\ Grows
    BY <2>1, MoveKeeps DEF IInv
  <2>3. /\ Len(commit') \in Nat /\ Len(pull') \in Nat
        /\ Len(commit) \in Nat /\ Len(pull) \in Nat
    BY <2>2, Lengths DEF IInv
  <2>4. OperationInv' /\ Requests'
    BY <1>1, <1>3, <2>2, <2>3, OperationKept, RequestsKept DEF IInv
  <2>5. CASE Becomes(w, answered)
    BY <1>1, <1>3, <2>1, <2>4, <2>5, AttemptGoesOn
  <2>6. CASE Becomes(w, Failing(w, "retryable"))
    <3> DEFINE e == Failing(w, "retryable")
    <3>1. /\ Suits(e, Shown', Len(commit'), Len(pull'))
          /\ e.pc = "failing" /\ e.token = worker[w].token
      BY <1>2, <2>2, <2>3, FailingSuits
    <3>2. Becomes(w, e)
      BY <2>6
    <3> HIDE DEF e
    <3> QED BY <1>1, <1>3, <2>1, <2>4, <3>1, <3>2, AttemptGoesOn
  <2> QED BY <1>3, <2>5, <2>6
<1>4. CASE /\ Becomes(w, Failing(w, "conflict"))
           /\ UNCHANGED github
  <2>1. UNCHANGED <<branch, commit, pull, late>>
    BY <1>4 DEF github
  <2>2. GitHubMove
    BY <1>1, <2>1 DEF GitHubMove
  <2>3. GitHubInv' /\ Grows
    BY <2>2, MoveKeeps DEF IInv
  <2>4. /\ Len(commit') \in Nat /\ Len(pull') \in Nat
        /\ Len(commit) \in Nat /\ Len(pull) \in Nat
    BY <2>3, Lengths DEF IInv
  <2>5. OperationInv' /\ Requests'
    BY <1>1, <2>1, <2>3, <2>4, OperationKept, RequestsKept DEF IInv
  <2> DEFINE e == Failing(w, "conflict")
  <2>6. /\ Suits(e, Shown', Len(commit'), Len(pull'))
        /\ e.pc = "failing" /\ e.token = worker[w].token
    BY <1>2, <2>3, <2>4, FailingSuits
  <2>7. Becomes(w, e)
    BY <1>4
  <2> HIDE DEF e
  <2> QED BY <1>1, <2>1, <2>2, <2>5, <2>6, <2>7, AttemptGoesOn
<1>5. CASE /\ world = "late" /\ late' = late \cup {request}
           /\ Becomes(w, Failing(w, "retryable"))
           /\ UNCHANGED <<branch, commit, pull>>
  <2>2. GitHubMove
    BY <1>1, <1>5 DEF GitHubMove
  <2>3. GitHubInv' /\ Grows
    BY <2>2, MoveKeeps DEF IInv
  <2>4. /\ Len(commit') \in Nat /\ Len(pull') \in Nat
        /\ Len(commit) \in Nat /\ Len(pull) \in Nat
    BY <2>3, Lengths DEF IInv
  <2>5. OperationInv'
    BY <1>1, <2>3, <2>4, OperationKept DEF IInv
  <2>6. Requests'
    <3>1. PullRequest # RefRequest /\ PullRequest # PutRequest("original")
      BY DEF PullRequest, RefRequest, PutRequest
    <3>2. \A q \in late' : q = RefRequest \/ q = PullRequest
                              \/ q = PutRequest("original")
      BY <1>5 DEF Asks, IInv, Requests
    <3>3. PullRequest \in late' => Shown
      BY <1>5, <3>1 DEF Asks, IInv, Requests
    <3> QED BY <2>3, <3>2, <3>3 DEF Requests, Grows
  <2> DEFINE e == Failing(w, "retryable")
  <2>7. /\ Suits(e, Shown', Len(commit'), Len(pull'))
        /\ e.pc = "failing" /\ e.token = worker[w].token
    BY <1>2, <2>3, <2>4, FailingSuits
  <2>8. Becomes(w, e)
    BY <1>5
  <2> HIDE DEF e
  <2> QED BY <1>1, <1>5, <2>2, <2>5, <2>6, <2>7, <2>8, AttemptGoesOn
<1> QED BY <1>3, <1>4, <1>5 DEF Sends

LEMMA CreateRefKeeps ==
  ASSUME IInv, NEW w \in Workers, CreateRef(w)
  PROVE  IInv'
<1> DEFINE e == AtCommit(worker[w], "contents", Base)
<1>1. /\ e \in AttemptRecord /\ e.pc = "contents" /\ e.sha = 1
      /\ e.token = worker[w].token /\ e.existing = worker[w].existing
      /\ e.seen = worker[w].seen
  <2>1. "contents" \in Pcs /\ Base \in Nat /\ Base = 1
    BY DEF Pcs, Base
  <2>2. worker[w] \in AttemptRecord
    BY Bounds
  <2> QED BY <2>1, <2>2, AtCommitRecord
<1>2. Sends(w, RefRequest, e)
  BY DEF CreateRef, AtCommit
<1>3. worker[w].pc = "create" /\ UNCHANGED <<world, database>>
  BY DEF CreateRef
<1> HIDE DEF e
<1>4. Asks(RefRequest)
  BY DEF Asks
<1>5. ASSUME Accepts(RefRequest), TakesEffect(RefRequest)
      PROVE  Suits(e, Shown', Len(commit'), Len(pull'))
  <2>1. GitHubInv' /\ Grows
    BY <1>3, <1>4, <1>5, EffectMoves, MoveKeeps DEF IInv
  <2>2. Len(commit') \in Nat /\ Len(pull') \in Nat
    BY <2>1, Lengths
  <2>3. /\ e.existing <= Len(pull') /\ e.seen <= Len(commit')
        /\ e.sha <= Len(commit')
    BY <1>1, <2>1, <2>2, Bounds, SMT DEF Grows, Knows
  <2>4. e.token <= MaxAttempts
    BY <1>1, Bounds DEF Fits
  <2> QED BY <1>1, <2>3, <2>4 DEF Suits, Fits
<1> QED BY <1>1, <1>2, <1>3, <1>4, <1>5, SendKeeps

LEMMA PutContentsKeeps ==
  ASSUME IInv, NEW w \in Workers, PutContents(w)
  PROVE  IInv'
<1> DEFINE e == AtCommit(worker[w], "search", Len(commit) + 1)
           request == PutRequest("original")
<1>1. /\ e \in AttemptRecord /\ e.pc = "search" /\ e.sha = Len(commit) + 1
      /\ e.token = worker[w].token /\ e.existing = worker[w].existing
      /\ e.seen = worker[w].seen
  <2>1. Len(commit) + 1 \in Nat
    BY Bounds
  <2>2. worker[w] \in AttemptRecord /\ "search" \in Pcs
    BY Bounds DEF Pcs
  <2> QED BY <2>1, <2>2, AtCommitRecord
<1>2. worker[w].pc = "put" /\ UNCHANGED <<world, database>>
  BY DEF PutContents
<1>3. worker[w].text = "original"
  BY <1>2, Bounds DEF Fits
<1>4. Sends(w, request, e)
  BY <1>3 DEF PutContents, AtCommit
<1> HIDE DEF e
<1>5. Asks(request)
  BY DEF Asks
<1>6. ASSUME Accepts(request), TakesEffect(request)
      PROVE  Suits(e, Shown', Len(commit'), Len(pull'))
  <2>1. GitHubInv' /\ Grows
    BY <1>2, <1>5, <1>6, EffectMoves, MoveKeeps DEF IInv
  <2>2. Len(commit') \in Nat /\ Len(pull') \in Nat
    BY <2>1, Lengths
  <2>3. Appends("result", "worker")
    BY <1>6 DEF TakesEffect, PutRequest, Commit, Appends
  <2> DEFINE c == [text |-> "result", parent |-> branch, by |-> "worker"]
  <2>4. c \in CommitRecord /\ commit \in Seq(CommitRecord)
    BY Bounds DEF CommitRecord, Texts, Authors, IInv, GitHubInv, GitHubType
  <2>5. /\ Len(commit') = Len(commit) + 1 /\ commit'[Len(commit) + 1] = c
    BY <2>3, <2>4, Extended DEF Appends
  <2>6. branch' # 0 /\ commit'[branch'].text = "result"
    BY <2>3, <2>5, Bounds DEF Appends
  <2>7. Shown'
    BY <2>6 DEF Shown, OnResult
  <2>8. /\ e.existing <= Len(pull') /\ e.seen <= Len(commit')
        /\ e.sha <= Len(commit')
    BY <1>1, <2>1, <2>2, <2>5, Bounds, SMT DEF Grows, Knows
  <2>9. e.token <= MaxAttempts
    BY <1>1, Bounds DEF Fits
  <2> QED BY <1>1, <2>7, <2>8, <2>9 DEF Suits, Fits
<1> QED BY <1>1, <1>2, <1>4, <1>5, <1>6, SendKeeps

LEMMA OpenPrKeeps ==
  ASSUME IInv, NEW w \in Workers, OpenPr(w)
  PROVE  IInv'
<1> DEFINE e == Opened(worker[w], Len(pull) + 1)
<1>1. /\ e \in AttemptRecord /\ e.pc = "complete"
      /\ e.existing = Len(pull) + 1
      /\ e.token = worker[w].token /\ e.sha = worker[w].sha
      /\ e.seen = worker[w].seen
  <2>1. Len(pull) + 1 \in Nat
    BY Bounds
  <2> QED BY <2>1, Bounds, OpenedRecord
<1>2. Sends(w, PullRequest, e)
  BY DEF OpenPr, Opened
<1>3. worker[w].pc = "open" /\ UNCHANGED <<world, database>>
  BY DEF OpenPr
<1> HIDE DEF e
<1>4. Asks(PullRequest)
  <2>1. Shown
    BY <1>3, Bounds DEF Knows
  <2>2. world = "reviewed" => Len(pull) = 0
    BY <1>3 DEF IInv, Sequential, Working
  <2> QED BY <2>1, <2>2 DEF Asks
<1>5. ASSUME Accepts(PullRequest), TakesEffect(PullRequest)
      PROVE  Suits(e, Shown', Len(commit'), Len(pull'))
  <2>1. GitHubInv' /\ Grows
    BY <1>3, <1>4, <1>5, EffectMoves, MoveKeeps DEF IInv
  <2>2. Len(commit') \in Nat /\ Len(pull') \in Nat
    BY <2>1, Lengths
  <2> DEFINE p == [state |-> "open", head |-> branch, at |-> branch]
  <2>3. p \in PullRecord /\ pull \in Seq(PullRecord)
    BY Bounds DEF PullRecord, IInv, GitHubInv, GitHubType
  <2>4. pull' = Append(pull, p)
    BY <1>5 DEF TakesEffect, PullRequest
  <2>5. Len(pull') = Len(pull) + 1
    BY <2>3, <2>4, Extended
  <2>6. /\ e.existing <= Len(pull') /\ e.seen <= Len(commit')
        /\ e.sha <= Len(commit') /\ e.existing # 0
    BY <1>1, <2>1, <2>2, <2>5, Bounds, SMT DEF Grows, Knows
  <2>7. e.token <= MaxAttempts
    BY <1>1, Bounds DEF Fits
  <2> QED BY <1>1, <2>6, <2>7 DEF Suits, Fits
<1> QED BY <1>1, <1>2, <1>3, <1>4, <1>5, SendKeeps

LEMMA BeginKeeps ==
  ASSUME IInv, NEW w \in Workers, BeginPrCreation(w)
  PROVE  IInv'
<1> DEFINE e == Goes(worker[w], "find")
<1>1. /\ e \in AttemptRecord /\ e.pc = "find"
      /\ e.token = worker[w].token /\ e.existing = worker[w].existing
      /\ e.seen = worker[w].seen /\ e.sha = worker[w].sha
  BY Bounds, GoesRecord DEF Pcs
<1>2. /\ worker[w].pc = "claimed" /\ Becomes(w, e)
      /\ UNCHANGED <<world, branch, commit, pull, late, job>>
  BY DEF BeginPrCreation, Goes, github
<1> HIDE DEF e
<1>3. GitHubMove /\ Shown' = Shown
  BY <1>2 DEF GitHubMove, Shown, OnResult
<1>4. OperationInv'
  <2>1. PICK st \in {"absent", "pending", "completed"} :
          operation' = [operation EXCEPT !.status = st]
    <3>1. operation.status \in {"absent", "pending", "completed"}
      BY DEF IInv, OperationInv
    <3> QED BY <3>1 DEF BeginPrCreation
  <2> QED BY <1>2, <2>1, SMT DEF IInv, OperationInv
<1>5. Requests'
  BY <1>2, <1>3 DEF IInv, Requests
<1>6. Suits(e, Shown', Len(commit'), Len(pull'))
  BY <1>1, <1>2, Bounds DEF Suits, Fits, Knows
<1> QED BY <1>1, <1>2, <1>3, <1>4, <1>5, <1>6, AttemptGoesOn

LEMMA FailingKeeps ==
  ASSUME IInv, NEW w \in Workers, NEW f \in Failures,
         Becomes(w, Failing(w, f)), worker[w].pc # "idle",
         UNCHANGED <<world, github, database>>
  PROVE  IInv'
<1> DEFINE e == Failed(worker[w], f)
<1>1. /\ e \in AttemptRecord /\ e.pc = "failing"
      /\ e.token = worker[w].token /\ e.existing = worker[w].existing
      /\ e.seen = worker[w].seen /\ e.sha = worker[w].sha
  BY Bounds, FailedRecord
<1>2. Becomes(w, e)
  BY DEF Failing, Failed
<1> HIDE DEF e
<1>3. Suits(e, Shown, Len(commit), Len(pull))
  BY <1>1, Bounds DEF Suits, Fits, Knows
<1> QED BY <1>1, <1>2, <1>3, LocalStep

LEMMA LeavingKeeps ==
  ASSUME IInv, NEW w \in Workers, Becomes(w, Idle), worker[w].pc # "idle",
         UNCHANGED <<world, github, database>>
  PROVE  IInv'
<1>1. 0 <= MaxAttempts
  BY CreationAssumption
<1>2. Suits(Idle, Shown, Len(commit), Len(pull))
  BY <1>1, IdleRecord, Bounds, SMT DEF Suits, Fits
<1> QED BY <1>2, IdleRecord, LocalStep

LEMMA FindPrKeeps ==
  ASSUME IInv, NEW w \in Workers, FindPr(w)
  PROVE  IInv'
<1> DEFINE seen == IF Found = 0 THEN 0 ELSE HeadOf(Found)
           e == Looked(worker[w], Found, seen)
<1>1. Found \in Nat /\ Found = Len(pull)
  BY Bounds DEF Found
<1>2. seen \in Nat /\ seen <= Len(commit)
  <2>1. CASE Found = 0
    BY <2>1, Bounds
  <2>2. CASE Found # 0
    <3>1. Found \in 1..Len(pull)
      BY <1>1, <2>2, SMT
    <3>2. pull[Found] \in PullRecord /\ pull[Found].head <= Len(commit)
      BY <3>1, Extended DEF IInv, GitHubInv, GitHubType, History
    <3>3. pull[Found].head \in Nat
      BY <3>2 DEF PullRecord
    <3>4. HeadOf(Found) = branch \/ HeadOf(Found) = pull[Found].head
      BY DEF HeadOf
    <3> QED BY <2>2, <3>2, <3>3, <3>4, Bounds
  <2> QED BY <2>1, <2>2
<1>3. /\ worker[w].pc = "find" /\ Becomes(w, e)
      /\ UNCHANGED <<world, github, database>>
  BY DEF FindPr, Looked
<1> HIDE DEF seen
<1>4. /\ e \in AttemptRecord /\ e.pc = "ref" /\ e.existing = Found
      /\ e.seen = seen /\ e.sha = worker[w].sha /\ e.token = worker[w].token
  <2>1. Found \in Nat /\ seen \in Nat /\ worker[w] \in AttemptRecord
    BY <1>1, <1>2, Bounds
  <2>2. PICK r \in AttemptRecord : r = worker[w]
    BY <2>1
  <2>3. PICK n \in Nat, m \in Nat : n = Found /\ m = seen
    BY <2>1
  <2>4. /\ Looked(r, n, m) \in AttemptRecord /\ Looked(r, n, m).pc = "ref"
        /\ Looked(r, n, m).existing = n /\ Looked(r, n, m).seen = m
        /\ Looked(r, n, m).sha = r.sha /\ Looked(r, n, m).token = r.token
    BY LookedRecord
  <2> QED BY <2>2, <2>3, <2>4
<1> HIDE DEF e
<1>5. Suits(e, Shown, Len(commit), Len(pull))
  BY <1>1, <1>2, <1>4, Bounds DEF Suits, Fits, Knows
<1> QED BY <1>3, <1>4, <1>5, LocalStep

LEMMA GetRefKeeps ==
  ASSUME IInv, NEW w \in Workers, GetRef(w)
  PROVE  IInv'
<1>1. worker[w].pc = "ref" /\ UNCHANGED <<world, github, database>>
  BY DEF GetRef
<1>2. CASE branch = 0
  <2> DEFINE e == Goes(worker[w], "create")
  <2>1. "create" \in Pcs /\ worker[w] \in AttemptRecord
    BY Bounds DEF Pcs
  <2>2. /\ e \in AttemptRecord /\ e.pc = "create"
        /\ e.token = worker[w].token /\ e.existing = worker[w].existing
        /\ e.seen = worker[w].seen /\ e.sha = worker[w].sha
    BY <2>1, GoesRecord
  <2>3. Becomes(w, e)
    BY <1>2 DEF GetRef, Goes
  <2> HIDE DEF e
  <2>4. Suits(e, Shown, Len(commit), Len(pull))
    BY <2>2, Bounds DEF Suits, Fits, Knows
  <2> QED BY <1>1, <2>2, <2>3, <2>4, LocalStep
<1>3. CASE branch # 0
  <2> DEFINE e == AtCommit(worker[w], "contents", branch)
  <2>1. "contents" \in Pcs /\ worker[w] \in AttemptRecord /\ branch \in Nat
    BY Bounds DEF Pcs
  <2>2. /\ e \in AttemptRecord /\ e.pc = "contents"
        /\ e.token = worker[w].token /\ e.existing = worker[w].existing
        /\ e.seen = worker[w].seen /\ e.sha = branch
    BY <2>1, AtCommitRecord
  <2>3. Becomes(w, e)
    BY <1>3 DEF GetRef, AtCommit
  <2> HIDE DEF e
  <2>4. Suits(e, Shown, Len(commit), Len(pull))
    BY <2>2, Bounds DEF Suits, Fits, Knows
  <2> QED BY <1>1, <2>2, <2>3, <2>4, LocalStep
<1> QED BY <1>2, <1>3

LEMMA GetContentsKeeps ==
  ASSUME IInv, NEW w \in Workers, GetContents(w)
  PROVE  IInv'
<1>1. worker[w].pc = "contents" /\ UNCHANGED <<world, github, database>>
  BY DEF GetContents
<1>2. {"conflict", "stale"} \subseteq Failures /\ "original" \in Texts
  BY DEF Failures, Texts
<1>3. CASE Becomes(w, Failing(w, "conflict"))
  BY <1>1, <1>2, <1>3, FailingKeeps
<1>4. CASE Becomes(w, Failing(w, "stale"))
  BY <1>1, <1>2, <1>4, FailingKeeps
<1>5. ASSUME branch # 0, commit[branch].text = "result",
             Becomes(w, [worker[w] EXCEPT
                           !.pc = "search",
                           !.sha = IF worker[w].existing # 0
                                   THEN worker[w].seen ELSE @])
      PROVE  IInv'
  <2> DEFINE sha == IF worker[w].existing # 0 THEN worker[w].seen
                    ELSE worker[w].sha
             e == AtCommit(worker[w], "search", sha)
  <2>1. /\ "search" \in Pcs /\ worker[w] \in AttemptRecord
        /\ sha \in Nat /\ sha <= Len(commit)
    BY Bounds DEF Pcs, Knows
  <2>2. Becomes(w, e)
    BY <1>5 DEF AtCommit
  <2> HIDE DEF sha
  <2>3. /\ e \in AttemptRecord /\ e.pc = "search"
        /\ e.token = worker[w].token /\ e.existing = worker[w].existing
        /\ e.seen = worker[w].seen /\ e.sha = sha
    BY <2>1, AtCommitRecord
  <2> HIDE DEF e
  <2>4. Shown
    BY <1>5 DEF Shown, OnResult
  <2>5. Suits(e, Shown, Len(commit), Len(pull))
    BY <2>1, <2>3, <2>4, Bounds DEF Suits, Fits, Knows
  <2> QED BY <1>1, <2>2, <2>3, <2>5, LocalStep
<1>6. ASSUME commit[branch].text \in Baseline,
             Becomes(w, [worker[w] EXCEPT !.pc = "put",
                                          !.text = commit[branch].text])
      PROVE  IInv'
  <2> DEFINE e == Read(worker[w], "original")
  <2>1. /\ e \in AttemptRecord /\ e.pc = "put" /\ e.text = "original"
        /\ e.token = worker[w].token /\ e.existing = worker[w].existing
        /\ e.seen = worker[w].seen /\ e.sha = worker[w].sha
    BY <1>2, Bounds, ReadRecord
  <2>2. Becomes(w, e)
    BY <1>6 DEF Read, Baseline
  <2> HIDE DEF e
  <2>3. Suits(e, Shown, Len(commit), Len(pull))
    BY <2>1, Bounds DEF Suits, Fits, Knows
  <2> QED BY <1>1, <2>1, <2>2, <2>3, LocalStep
<1> QED BY <1>3, <1>4, <1>5, <1>6 DEF GetContents

LEMMA FindPrAgainKeeps ==
  ASSUME IInv, NEW w \in Workers, FindPrAgain(w)
  PROVE  IInv'
<1> DEFINE n == IF worker[w].existing # 0 THEN worker[w].existing ELSE Found
           c == IF n = 0 THEN "open" ELSE "complete"
           e == Decided(worker[w], c, n)
<1>1. n \in Nat /\ n <= Len(pull) /\ (n = 0 => Len(pull) = 0)
  BY Bounds DEF Found, Knows
<1>2. /\ worker[w].pc = "search" /\ Becomes(w, e)
      /\ UNCHANGED <<world, github, database>>
  BY DEF FindPrAgain, Decided
<1>3. c \in Pcs /\ worker[w] \in AttemptRecord
  BY Bounds DEF Pcs
<1>4. /\ c = "open" => n = 0
      /\ c = "complete" => n # 0
      /\ c \in {"open", "complete"}
  OBVIOUS
<1> HIDE DEF n, c
<1>5. /\ e \in AttemptRecord /\ e.pc = c /\ e.existing = n
      /\ e.token = worker[w].token
      /\ e.seen = worker[w].seen /\ e.sha = worker[w].sha
  BY <1>1, <1>3, DecidedRecord
<1> HIDE DEF e
<1>6. Shown
  BY <1>2, Bounds DEF Knows
<1>7. Suits(e, Shown, Len(commit), Len(pull))
  BY <1>1, <1>4, <1>5, <1>6, Bounds DEF Suits, Fits, Knows
<1> QED BY <1>1, <1>2, <1>4, <1>5, <1>7, LocalStep

LEMMA CallFailsKeeps ==
  ASSUME IInv, NEW w \in Workers, CallFails(w)
  PROVE  IInv'
<1>1. worker[w].pc # "idle" /\ UNCHANGED <<world, github, database>>
  BY DEF CallFails
<1>2. PICK f \in {"refused", "retryable"} : Becomes(w, Failing(w, f))
  BY DEF CallFails
<1>3. f \in Failures
  BY DEF Failures
<1> QED BY <1>1, <1>2, <1>3, FailingKeeps

-----------------------------------------------------------------------------
(* Steps that change the row of the job.                                   *)

JobStatus == {"approved", "creating_pr", "retry_scheduled", "completed",
              "failed"}

JobFailure == Failures \cup {"lease_expired"}

LEMMA JobUpdate ==
  ASSUME NEW r \in JobRecord
  PROVE  /\ \A st \in JobStatus : [r EXCEPT !.status = st] \in JobRecord
         /\ \A n \in Nat : [r EXCEPT !.attempts = n] \in JobRecord
         /\ \A n \in Nat : [r EXCEPT !.token = n] \in JobRecord
         /\ \A b \in BOOLEAN : [r EXCEPT !.live = b] \in JobRecord
         /\ \A f \in JobFailure : [r EXCEPT !.failure = f] \in JobRecord
BY SMT DEF JobRecord, JobStatus, JobFailure

LEMMA ReleasedJob ==
  ASSUME job \in JobRecord, NEW st \in JobStatus, NEW f \in JobFailure
  PROVE  /\ Released(st, f) \in JobRecord
         /\ Released(st, f).status = st
         /\ Released(st, f).token = 0
         /\ Released(st, f).attempts = job.attempts
<1> DEFINE e == Released(st, f)
<1>1. e \in JobRecord
  <2>1. [job EXCEPT !.status = st] \in JobRecord
    BY JobUpdate
  <2>2. [job EXCEPT !.status = st, !.token = 0] \in JobRecord
    BY <2>1, JobUpdate, Zenon
  <2>3. [job EXCEPT !.status = st, !.token = 0, !.live = FALSE] \in JobRecord
    BY <2>2, JobUpdate, Zenon
  <2> QED BY <2>3, JobUpdate, Zenon DEF Released
<1>2. e.status = st
  BY SMT DEF Released, JobRecord
<1>3. e.token = 0
  BY SMT DEF Released, JobRecord
<1>4. e.attempts = job.attempts
  BY SMT DEF Released, JobRecord
<1> QED BY <1>1, <1>2, <1>3, <1>4

LEMMA ReleaseKeeps ==
  ASSUME IInv, NEW st \in JobStatus, NEW f \in JobFailure,
         job' = Released(st, f), st # "creating_pr",
         st = "completed" => Len(pull) # 0, pull' = pull
  PROVE  JobInv'
<1>1. job \in JobRecord /\ job.attempts <= MaxAttempts /\ job.attempts \in Nat
  BY DEF IInv, JobInv, JobRecord
<1>2. /\ job' \in JobRecord /\ job'.status = st /\ job'.token = 0
      /\ job'.attempts = job.attempts
  BY <1>1, ReleasedJob
<1> QED BY <1>1, <1>2 DEF JobInv

LEMMA AttemptEnds ==
  ASSUME IInv, NEW w \in Workers, Becomes(w, Idle), worker[w].pc # "idle",
         UNCHANGED <<world, github>>, JobInv', OperationInv'
  PROVE  IInv'
<1>1. UNCHANGED <<world, branch, commit, pull, late>>
  BY DEF github
<1>2. GitHubMove
  BY <1>1 DEF GitHubMove
<1>3. GitHubInv' /\ Grows
  BY <1>2, MoveKeeps DEF IInv
<1>4. /\ Len(commit) \in Nat /\ Len(pull) \in Nat
      /\ Len(commit') \in Nat /\ Len(pull') \in Nat
  BY <1>3, Lengths DEF IInv
<1>5. /\ WorkersInv'
      /\ \A v \in Workers : worker'[v] = IF v = w THEN Idle ELSE worker[v]
  BY <1>3, <1>4, IdleSuits, WorkersKept DEF IInv
<1>6. Requests'
  BY <1>1, <1>3, RequestsKept DEF IInv
<1>7. Sequential'
  BY <1>1, <1>5, IdleRecord DEF IInv, Sequential, Working
<1> QED BY <1>3, <1>5, <1>6, <1>7 DEF IInv

LEMMA CompleteKeeps ==
  ASSUME IInv, NEW w \in Workers, Complete(w)
  PROVE  IInv'
<1>1. /\ worker[w].pc = "complete" /\ Becomes(w, Idle)
      /\ UNCHANGED <<world, github>> /\ UNCHANGED <<commit, pull>>
  BY DEF Complete, github
<1>2. JobInv'
  <2>1. Len(pull) # 0
    BY <1>1, Bounds DEF Fits, Knows
  <2>2. "completed" \in JobStatus /\ "none" \in JobFailure
    BY DEF JobStatus, JobFailure, Failures
  <2> QED BY <1>1, <2>1, <2>2, ReleaseKeeps DEF Complete
<1>3. OperationInv'
  <2> DEFINE e == [status |-> "completed", commit |-> worker[w].sha,
                   pull |-> worker[w].existing]
  <2>1. /\ e \in [status : {"absent", "pending", "completed"},
                   commit : Nat, pull : Nat]
        /\ e.commit <= Len(commit) /\ e.pull <= Len(pull)
    BY Bounds DEF Knows
  <2>2. operation' = e
    BY DEF Complete
  <2> HIDE DEF e
  <2> QED BY <1>1, <2>1, <2>2 DEF OperationInv
<1> QED BY <1>1, <1>2, <1>3, AttemptEnds

LEMMA ScheduleFailureKeeps ==
  ASSUME IInv, NEW w \in Workers, ScheduleFailure(w)
  PROVE  IInv'
<1>1. /\ worker[w].pc = "failing" /\ Becomes(w, Idle)
      /\ UNCHANGED <<world, github, operation>>
      /\ UNCHANGED <<commit, pull>>
  BY DEF ScheduleFailure, github
<1>2. OperationInv'
  BY <1>1 DEF IInv, OperationInv
<1>3. JobInv'
  <2>1. CASE job' = job
    BY <1>1, <2>1 DEF IInv, JobInv
  <2>2. CASE \E st \in {"retry_scheduled", "failed"} :
               job' = Released(st, worker[w].failure)
    <3>1. PICK st \in {"retry_scheduled", "failed"} :
            job' = Released(st, worker[w].failure)
      BY <2>2
    <3>2. worker[w].failure \in JobFailure
      BY Bounds, Fields DEF JobFailure
    <3>3. st \in JobStatus
      BY DEF JobStatus
    <3> QED BY <1>1, <3>1, <3>2, <3>3, ReleaseKeeps
  <2> QED BY <2>1, <2>2 DEF ScheduleFailure
<1> QED BY <1>1, <1>2, <1>3, AttemptEnds

(* A step of the database alone.                                           *)
LEMMA DatabaseStep ==
  ASSUME IInv, UNCHANGED <<world, github, operation, worker>>, JobInv',
         world = "reviewed" => \A w \in Workers : worker[w].pc = "idle"
  PROVE  IInv'
<1>1. UNCHANGED <<world, branch, commit, pull, late, operation, worker>>
  BY DEF github
<1>2. GitHubInv' /\ Grows
  BY <1>1, MoveKeeps DEF GitHubMove, IInv
<1>3. Requests'
  BY <1>1, <1>2, RequestsKept DEF IInv
<1>4. /\ Len(commit) \in Nat /\ Len(pull) \in Nat
      /\ Len(commit') \in Nat /\ Len(pull') \in Nat
  BY <1>2, Lengths DEF IInv
<1>5. WorkersInv' /\ OperationInv'
  BY <1>1, <1>2, <1>4, WorkersStay, OperationKept DEF IInv
<1>6. Sequential'
  BY <1>1 DEF IInv, Sequential
<1> QED BY <1>2, <1>3, <1>5, <1>6 DEF IInv

LEMMA LeaseExpiresKeeps ==
  ASSUME IInv, LeaseExpires
  PROVE  IInv'
<1>1. job' = [job EXCEPT !.live = FALSE]
      /\ UNCHANGED <<world, github, operation, worker>> /\ pull' = pull
  BY DEF LeaseExpires, github
<1>2. JobInv'
  <2>1. job \in JobRecord
    BY DEF IInv, JobInv
  <2>2. job' \in JobRecord
    BY <1>1, <2>1, JobUpdate, Zenon
  <2>3. /\ job'.status = job.status /\ job'.token = job.token
        /\ job'.attempts = job.attempts
    BY <1>1, <2>1, SMT DEF JobRecord
  <2> QED BY <1>1, <2>2, <2>3 DEF IInv, JobInv
<1>3. world = "reviewed" => \A w \in Workers : worker[w].pc = "idle"
  BY DEF LeaseExpires, Carries, IInv, Sequential, Working
<1> QED BY <1>1, <1>2, <1>3, DatabaseStep

LEMMA RecoverKeeps ==
  ASSUME IInv, RecoverExpiredLease
  PROVE  IInv'
<1>1. /\ UNCHANGED <<world, github, operation, worker>> /\ pull' = pull
      /\ ~job.live
  BY DEF RecoverExpiredLease, github
<1>2. JobInv'
  <2>1. PICK st \in {"retry_scheduled", "failed"} :
          job' = Released(st, "lease_expired")
    BY DEF RecoverExpiredLease
  <2>2. "lease_expired" \in JobFailure /\ st \in JobStatus
    BY DEF JobFailure, JobStatus
  <2> QED BY <1>1, <2>1, <2>2, ReleaseKeeps
<1>3. world = "reviewed" => \A w \in Workers : worker[w].pc = "idle"
  BY <1>1 DEF IInv, Sequential, Working
<1> QED BY <1>1, <1>2, <1>3, DatabaseStep

LEMMA ClaimKeeps ==
  ASSUME IInv, NEW w \in Workers, Claim(w)
  PROVE  IInv'
<1>1. /\ UNCHANGED <<world, branch, commit, pull, late, operation>>
      /\ worker[w].pc = "idle"
  BY DEF Claim, github
<1>2. GitHubInv' /\ Grows
  BY <1>1, MoveKeeps DEF GitHubMove, IInv
<1>3. /\ Len(commit) \in Nat /\ Len(pull) \in Nat
      /\ Len(commit') \in Nat /\ Len(pull') \in Nat
  BY <1>2, Lengths DEF IInv
<1>4. Requests' /\ OperationInv'
  BY <1>1, <1>2, <1>3, RequestsKept, OperationKept DEF IInv
<1>5. CASE UNCHANGED <<job, worker>>
  <2>1. JobInv'
    BY <1>1, <1>5 DEF IInv, JobInv
  <2>2. WorkersInv'
    BY <1>2, <1>3, <1>5, WorkersStay DEF IInv
  <2>3. Sequential'
    BY <1>1, <1>5 DEF IInv, Sequential, Working
  <2> QED BY <1>2, <1>4, <2>1, <2>2, <2>3 DEF IInv
<1>6. CASE /\ job.status \in {"approved", "retry_scheduled"}
           /\ BudgetLeft
           /\ job' = [job EXCEPT !.status = "creating_pr", !.attempts = @ + 1,
                                 !.token = job.attempts + 1, !.live = TRUE]
           /\ Becomes(w, [Idle EXCEPT !.pc = "claimed",
                                      !.token = job.attempts + 1])
  <2> DEFINE n == job.attempts + 1
             e == Claimed(Idle, n)
  <2>1. job \in JobRecord /\ job.attempts \in Nat
    BY DEF IInv, JobInv, JobRecord
  <2>2. n \in Nat /\ n # 0 /\ n <= MaxAttempts
    BY <1>6, <2>1, CreationAssumption DEF BudgetLeft
  <2>3. job' \in JobRecord
    <3>1. "creating_pr" \in JobStatus
      BY DEF JobStatus
    <3>2. [job EXCEPT !.status = "creating_pr"] \in JobRecord
      BY <2>1, <3>1, JobUpdate
    <3>3. [job EXCEPT !.status = "creating_pr", !.attempts = n] \in JobRecord
      BY <2>2, <3>2, JobUpdate, Zenon
    <3>4. [job EXCEPT !.status = "creating_pr", !.attempts = n, !.token = n]
            \in JobRecord
      BY <2>2, <3>3, JobUpdate, Zenon
    <3>5. [job EXCEPT !.status = "creating_pr", !.attempts = n, !.token = n,
                      !.live = TRUE] \in JobRecord
      BY <3>4, JobUpdate, Zenon
    <3>6. job' = [job EXCEPT !.status = "creating_pr", !.attempts = n,
                             !.token = n, !.live = TRUE]
      BY <1>6
    <3> QED BY <3>5, <3>6
  <2>4. job'.status = "creating_pr" /\ job'.live
    BY <1>6, <2>1, SMT DEF JobRecord
  <2>5. job'.attempts = n /\ job'.token = n
    BY <1>6, <2>1, SMT DEF JobRecord
  <2>6. Becomes(w, e)
    BY <1>6 DEF Claimed
  <2> HIDE DEF n
  <2>7. /\ e \in AttemptRecord /\ e.pc = "claimed" /\ e.token = n
        /\ e.existing = 0 /\ e.seen = 0 /\ e.sha = 0
    BY <2>2, IdleRecord, ClaimedRecord
  <2> HIDE DEF e
  <2>8. Suits(e, Shown', Len(commit'), Len(pull'))
    BY <1>3, <2>2, <2>7 DEF Suits, Fits
  <2>9. /\ WorkersInv'
        /\ \A v \in Workers : worker'[v] = IF v = w THEN e ELSE worker[v]
    BY <1>2, <1>3, <2>6, <2>8, WorkersKept DEF IInv
  <2>10. JobInv'
    BY <2>2, <2>3, <2>4, <2>5 DEF JobInv
  <2>11. Sequential'
    <3> SUFFICES ASSUME world' = "reviewed"
                 PROVE  /\ late' = {}
                        /\ \A v \in Workers :
                             worker'[v].pc # "idle" => Working(v)'
      BY DEF Sequential
    <3>1. late' = {} /\ \A v \in Workers : worker[v].pc = "idle"
      BY <1>1, <1>6 DEF IInv, Sequential, Working
    <3>2. \A v \in Workers : worker'[v].pc # "idle" => v = w
      BY <2>9, <3>1
    <3>3. Working(w)'
      BY <2>4, <2>5, <2>7, <2>9, <3>2 DEF Working
    <3> QED BY <3>1, <3>2, <3>3
  <2> QED BY <1>2, <1>4, <2>9, <2>10, <2>11 DEF IInv
<1> QED BY <1>5, <1>6 DEF Claim

-----------------------------------------------------------------------------
(* Late requests and reviewers.                                            *)

LEMMA GitHubStep ==
  ASSUME IInv, GitHubMove, UNCHANGED <<database, worker>>,
         late' \subseteq late,
         world = "reviewed" => Len(pull') = Len(pull)
  PROVE  IInv'
<1>1. UNCHANGED <<job, operation, worker>> /\ world' = world
  BY DEF database, GitHubMove
<1>2. GitHubInv' /\ Grows
  BY MoveKeeps DEF IInv
<1>3. /\ Len(commit) \in Nat /\ Len(pull) \in Nat
      /\ Len(commit') \in Nat /\ Len(pull') \in Nat
  BY <1>2, Lengths DEF IInv
<1>4. Requests' /\ OperationInv' /\ WorkersInv'
  BY <1>1, <1>2, <1>3, RequestsKept, OperationKept, WorkersStay DEF IInv
<1>5. JobInv'
  BY <1>1, <1>2, <1>3, SMT DEF IInv, JobInv, Grows
<1>6. Sequential'
  BY <1>1 DEF IInv, Sequential, Working
<1> QED BY <1>2, <1>4, <1>5, <1>6 DEF IInv

LEMMA LateArrivesKeeps ==
  ASSUME IInv, LateArrives
  PROVE  IInv'
<1>1. PICK request \in late :
        /\ late' = late \ {request}
        /\ IF Accepts(request) THEN TakesEffect(request)
           ELSE UNCHANGED <<branch, commit, pull>>
        /\ UNCHANGED <<world, database, worker>>
  BY Zenon DEF LateArrives
<1>2. world # "reviewed"
  BY <1>1 DEF IInv, Sequential
<1>3. Asks(request)
  BY <1>1, <1>2 DEF Asks, IInv, Requests
<1>4. GitHubMove
  <2>1. CASE Accepts(request)
    BY <1>1, <1>3, <2>1, EffectMoves
  <2>2. CASE ~Accepts(request)
    BY <1>1, <2>2 DEF GitHubMove
  <2> QED BY <2>1, <2>2
<1> QED BY <1>1, <1>2, <1>4, GitHubStep

LEMMA SomePull ==
  ASSUME IInv, ~NoOpenPull
  PROVE  Len(pull) # 0
BY LenProperties, Lengths DEF NoOpenPull, IInv, GitHubInv, GitHubType

LEMMA PushMoves ==
  ASSUME IInv, ReviewerPushes
  PROVE  IsPush
<1>1. /\ world = "reviewed" /\ Len(pull) # 0
      /\ UNCHANGED <<world, pull, late, database, worker>>
  BY SomePull DEF ReviewerPushes
<1>2. PICK text \in {commit[branch].text, "other"} : Commit(text, "reviewer")
  BY Zenon DEF ReviewerPushes
<1>3. text \in Texts /\ branch # 0
  <2>1. branch # 0
    <3>1. PICK p \in DOMAIN pull : pull[p].state = "open"
      BY DEF ReviewerPushes, NoOpenPull
    <3>2. p \in 1..Len(pull)
      BY <3>1, LenProperties DEF IInv, GitHubInv, GitHubType
    <3> QED BY <3>1, <3>2 DEF IInv, GitHubInv, History
  <2>2. branch \in 1..Len(commit)
    BY <2>1, Bounds DEF IInv, GitHubInv, GitHubType
  <2>3. commit[branch] \in CommitRecord
    BY <2>2, Extended DEF IInv, GitHubInv, GitHubType
  <2> QED BY <2>1, <2>3 DEF CommitRecord, Texts
<1> QED BY <1>1, <1>2, <1>3 DEF IsPush, Commit, Appends

LEMMA ReviewerPushesKeeps ==
  ASSUME IInv, ReviewerPushes
  PROVE  IInv'
<1>1. IsPush /\ UNCHANGED <<world, pull, late, database, worker>>
  BY PushMoves DEF ReviewerPushes
<1> QED BY <1>1, GitHubStep DEF GitHubMove

LEMMA CloseMoves ==
  ASSUME IInv, ReviewerCloses
  PROVE  IsClose
<1>1. DOMAIN pull = 1..Len(pull)
  BY LenProperties DEF IInv, GitHubInv, GitHubType
<1>2. PICK p \in DOMAIN pull, state \in {"closed", "merged"} :
        pull' = [pull EXCEPT ![p] = [@ EXCEPT !.state = state,
                                              !.head = branch]]
  BY Zenon DEF ReviewerCloses
<1>3. p \in 1..Len(pull)
  BY <1>1
<1>4. world = "reviewed" /\ UNCHANGED <<branch, commit>>
  BY DEF ReviewerCloses
<1> QED BY <1>2, <1>3, <1>4, Zenon DEF IsClose

LEMMA CloseLength ==
  ASSUME IInv, IsClose, world' = world
  PROVE  Len(pull') = Len(pull)
<1>1. pull \in Seq(PullRecord) /\ pull' \in Seq(PullRecord)
  BY CloseKeeps DEF IInv, GitHubInv, GitHubType
<1>2. DOMAIN pull' = DOMAIN pull
  <2>1. PICK p \in 1..Len(pull), state \in {"closed", "merged"} :
          pull' = [pull EXCEPT ![p] = [@ EXCEPT !.state = state,
                                                !.head = branch]]
    BY Zenon DEF IsClose
  <2> QED BY <2>1
<1> QED BY <1>1, <1>2, LenProperties, SMT

LEMMA ReviewerClosesKeeps ==
  ASSUME IInv, ReviewerCloses
  PROVE  IInv'
<1>1. UNCHANGED <<world, branch, commit, late, database, worker>>
  BY DEF ReviewerCloses
<1>2. IsClose /\ Len(pull') = Len(pull)
  BY <1>1, CloseMoves, CloseLength
<1> QED BY <1>1, <1>2, GitHubStep DEF GitHubMove

LEMMA BranchDeletedKeeps ==
  ASSUME IInv, BranchDeleted
  PROVE  IInv'
<1>1. /\ IsDelete /\ UNCHANGED <<world, commit, pull, late, database, worker>>
  <2>1. Len(pull) # 0
    BY Lengths DEF BranchDeleted, IInv
  <2> QED BY <2>1 DEF BranchDeleted, IsDelete
<1> QED BY <1>1, GitHubStep DEF GitHubMove

-----------------------------------------------------------------------------
(* The invariant.                                                          *)

LEMMA InitIInv == Init => IInv
<1> SUFFICES ASSUME Init
             PROVE  IInv
  OBVIOUS
<1>1. PICK t \in {"original", "other"} :
        commit = <<[text |-> t, parent |-> 0, by |-> "base"]>>
  BY DEF Init
<1> DEFINE c == [text |-> t, parent |-> 0, by |-> "base"]
<1>2. c \in CommitRecord /\ c.parent = 0 /\ c.by = "base"
  BY DEF CommitRecord, Texts, Authors
<1>3. commit = <<c>>
  BY <1>1
<1> HIDE DEF c
<1>4. commit \in Seq(CommitRecord) /\ Len(commit) = 1 /\ commit[1] = c
  BY <1>2, <1>3
<1>5. pull = << >> /\ branch = 0 /\ world \in Worlds /\ late = {}
      /\ worker = [w \in Workers |-> Idle]
  BY DEF Init
<1>6. pull \in Seq(PullRecord) /\ Len(pull) = 0
  BY <1>5
<1>7. GitHubInv
  BY <1>2, <1>4, <1>5, <1>6, SMT DEF GitHubInv, GitHubType, History
<1>8. Requests
  BY <1>5 DEF Requests
<1>9. WorkersInv
  <2>1. 0 <= MaxAttempts
    BY CreationAssumption
  <2>2. Fits(Idle) /\ Knows(Idle)
    BY <1>4, <1>6, <2>1, IdleRecord, SMT DEF Fits, Knows
  <2> QED BY <1>5, <2>2 DEF WorkersInv
<1>10. JobInv
  <2> DEFINE j == [status |-> "approved", attempts |-> 0, token |-> 0,
                   live |-> FALSE, failure |-> "none"]
  <2>1. j \in JobRecord /\ j.token = 0 /\ j.attempts = 0 /\ j.status = "approved"
    BY DEF JobRecord, Failures
  <2>2. job = j
    BY DEF Init
  <2> HIDE DEF j
  <2>3. 0 <= MaxAttempts
    BY CreationAssumption
  <2> QED BY <2>1, <2>2, <2>3 DEF JobInv
<1>11. OperationInv
  BY <1>4, <1>6, SMT DEF Init, OperationInv
<1>12. Sequential
  BY <1>5, IdleRecord DEF Sequential
<1> QED BY <1>7, <1>8, <1>9, <1>10, <1>11, <1>12 DEF IInv

LEMMA RunOnceKeeps ==
  ASSUME IInv, NEW w \in Workers, RunOnce(w) \/ Crash(w)
  PROVE  IInv'
<1>1. CASE LeaseLost(w)
  BY <1>1, LeavingKeeps DEF LeaseLost
<1>2. CASE Crash(w)
  BY <1>2, LeavingKeeps DEF Crash
<1> QED BY <1>1, <1>2, ClaimKeeps, BeginKeeps, FindPrKeeps, GetRefKeeps,
           CreateRefKeeps, GetContentsKeeps, PutContentsKeeps,
           FindPrAgainKeeps, OpenPrKeeps, CompleteKeeps, CallFailsKeeps,
           ScheduleFailureKeeps
        DEF RunOnce

LEMMA NextIInv == IInv /\ [Next]_vars => IInv'
<1> SUFFICES ASSUME IInv, [Next]_vars
             PROVE  IInv'
  OBVIOUS
<1>1. CASE Next
  BY <1>1, RunOnceKeeps, LeaseExpiresKeeps, RecoverKeeps, LateArrivesKeeps,
     ReviewerPushesKeeps, ReviewerClosesKeeps, BranchDeletedKeeps DEF Next
<1>2. CASE UNCHANGED vars
  BY <1>2 DEF vars, IInv, GitHubInv, GitHubType, History, OnResult, Requests,
              Shown, WorkersInv, Knows, JobInv, OperationInv, Sequential,
              Working
<1> QED BY <1>1, <1>2

LEMMA Invariance == Spec => []IInv
<1> QED BY InitIInv, NextIInv, PTL DEF Spec

(* A commit of a worker replaces the approved original text: in every      *)
(* reachable state, no matter how many attempts crashed, overlapped or     *)
(* were repeated by late requests.                                         *)
THEOREM PatchesApproved == Spec => []PatchesApprovedSource
<1>1. IInv => PatchesApprovedSource
  BY LenProperties
     DEF IInv, GitHubInv, GitHubType, History, PatchesApprovedSource
<1> QED BY <1>1, Invariance, PTL

(* A job opens at most one pull request, and where it was opened the file  *)
(* is the approved result.                                                 *)
THEOREM OnePull == Spec => []OnePullOnPatch
<1>1. IInv => OnePullOnPatch
  BY LenProperties
     DEF IInv, GitHubInv, GitHubType, History, OnePullOnPatch
<1> QED BY <1>1, Invariance, PTL

(* Every variable has its type, a number names a commit, pull request or   *)
(* attempt that exists, and a job has a lease token exactly while it is    *)
(* being processed, as the constraint of migration 005 demands.            *)
THEOREM TypeCorrect == Spec => []TypeOK
<1>1. ASSUME IInv
      PROVE  TypeOK
  <2>1. /\ world \in Worlds /\ branch \in Numbers
        /\ Len(commit) \in Nat /\ Len(pull) \in Nat
        /\ DOMAIN commit = 1..Len(commit) /\ DOMAIN pull = 1..Len(pull)
    BY <1>1, LenProperties, Lengths DEF IInv, GitHubInv, GitHubType, Numbers
  <2>2. ASSUME NEW c \in DOMAIN commit
        PROVE  commit[c] \in [text : Texts, parent : 0..c - 1,
                               by : {"base", "worker", "reviewer"}]
    <3>1. commit[c] \in CommitRecord /\ commit[c].parent < c /\ c \in Nat
      BY <1>1, <2>1, <2>2, Extended DEF IInv, GitHubInv, GitHubType, History
    <3>2. commit[c].parent \in Nat
      BY <3>1 DEF CommitRecord
    <3>3. commit[c].parent \in 0..c - 1
      BY <3>1, <3>2, SMT
    <3> QED BY <3>1, <3>3 DEF CommitRecord, Authors
  <2>3. ASSUME NEW p \in DOMAIN pull
        PROVE  pull[p] \in [state : {"open", "closed", "merged"},
                             head : Numbers, at : Numbers]
    <3>1. /\ pull[p] \in PullRecord /\ pull[p].head <= Len(commit)
          /\ pull[p].at <= Len(commit)
      BY <1>1, <2>1, <2>3, Extended DEF IInv, GitHubInv, GitHubType, History
    <3>2. pull[p].head \in Nat /\ pull[p].at \in Nat
      BY <3>1 DEF PullRecord
    <3>3. pull[p].head \in Numbers /\ pull[p].at \in Numbers
      BY <2>1, <3>1, <3>2, SMT DEF Numbers
    <3> QED BY <3>1, <3>3 DEF PullRecord
  <2>4. late \subseteq {RefRequest, PullRequest} \cup {PutRequest(t) : t \in Texts}
    <3>1. "original" \in Texts
      BY DEF Texts
    <3> QED BY <1>1, <3>1, Zenon DEF IInv, Requests
  <2>5. job \in [status : {"approved", "creating_pr", "retry_scheduled",
                            "completed", "failed"},
                  attempts : 0..MaxAttempts, token : 0..MaxAttempts,
                  live : BOOLEAN, failure : Failures \cup {"lease_expired"}]
    <3>1. job \in JobRecord /\ job.attempts <= MaxAttempts
          /\ job.token <= job.attempts
      BY <1>1 DEF IInv, JobInv
    <3>2. job.attempts \in Nat /\ job.token \in Nat
      BY <3>1 DEF JobRecord
    <3>3. job.attempts \in 0..MaxAttempts /\ job.token \in 0..MaxAttempts
      BY <3>1, <3>2, CreationAssumption
    <3> QED BY <3>1, <3>3 DEF JobRecord
  <2>6. operation \in [status : {"absent", "pending", "completed"},
                        commit : Numbers, pull : 0..Len(pull)]
    <3>1. operation.commit \in Numbers /\ operation.pull \in 0..Len(pull)
      BY <1>1, <2>1, SMT DEF IInv, OperationInv, Numbers
    <3> QED BY <1>1, <3>1 DEF IInv, OperationInv
  <2>7. worker \in [Workers -> Attempt]
    <3>1. ASSUME NEW w \in Workers
          PROVE  worker[w] \in Attempt
      <4>1. /\ worker[w] \in AttemptRecord
            /\ worker[w].token \in Nat /\ worker[w].existing \in Nat
            /\ worker[w].seen \in Nat /\ worker[w].sha \in Nat
            /\ worker[w].token <= MaxAttempts
            /\ worker[w].existing <= Len(pull)
            /\ worker[w].seen <= Len(commit) /\ worker[w].sha <= Len(commit)
        BY <1>1, Bounds DEF Fits, Knows
      <4>2. /\ worker[w].token \in 0..MaxAttempts
            /\ worker[w].existing \in 0..Len(pull)
            /\ worker[w].seen \in Numbers /\ worker[w].sha \in Numbers
        BY <2>1, <4>1, CreationAssumption, SMT DEF Numbers
      <4> QED BY <4>1, <4>2 DEF AttemptRecord, Attempt
    <3> QED BY <1>1, <3>1 DEF IInv, WorkersInv
  <2>8. job.status = "creating_pr" <=> job.token # 0
    BY <1>1 DEF IInv, JobInv
  <2> QED BY <2>1, <2>2, <2>3, <2>4, <2>5, <2>6, <2>7, <2>8 DEF TypeOK
<1> QED BY <1>1, Invariance, PTL

-----------------------------------------------------------------------------
(* After the job is completed.                                             *)

LEMMA SendMoves ==
  ASSUME IInv, NEW w, NEW request, NEW answered, Asks(request),
         Sends(w, request, answered), world' = world
  PROVE  GitHubMove
<1>1. CASE Accepts(request) /\ TakesEffect(request)
  BY <1>1, EffectMoves
<1>2. CASE UNCHANGED <<branch, commit, pull>>
  BY <1>2 DEF GitHubMove
<1> QED BY <1>1, <1>2 DEF Sends, github

(* A completed job has no running attempt in the world of the reviewers,   *)
(* and in the other one it has an open pull request, on the result.        *)
LEMMA CompletedMoves ==
  ASSUME IInv, Next, job.status = "completed"
  PROVE  /\ world' = world
         /\ \/ UNCHANGED <<branch, commit, pull>>
            \/ IsPush \/ IsClose \/ IsDelete
<1>1. Len(pull) # 0 /\ Len(pull) \in Nat /\ Len(pull) <= 1
  BY Lengths DEF IInv, JobInv, GitHubInv, GitHubType
<1>2. world = "reviewed" => \A w \in Workers : worker[w].pc = "idle"
  BY DEF IInv, Sequential, Working
<1>3. world = "late" => OnResult
  <2>1. 1 \in 1..Len(pull)
    BY <1>1
  <2> QED BY <2>1 DEF IInv, GitHubInv, History
<1>4. ASSUME GitHubMove, world # "reviewed"
      PROVE  UNCHANGED <<branch, commit, pull>>
  <2>1. world = "late"
    BY <1>4, CreationAssumption DEF IInv, GitHubInv, GitHubType
  <2>2. ~IsRef /\ ~IsPut /\ ~IsPull
    BY <1>1, <1>3, <2>1 DEF OnResult, IsRef, IsPut, IsPull
  <2> QED BY <1>4, <2>2 DEF GitHubMove, IsPush, IsClose, IsDelete
<1>5. ASSUME NEW w \in Workers, RunOnce(w) \/ Crash(w)
      PROVE  world' = world /\ UNCHANGED <<branch, commit, pull>>
  <2>1. CASE UNCHANGED <<world, github>>
    BY <2>1 DEF github
  <2>2. CASE CreateRef(w) \/ PutContents(w) \/ OpenPr(w)
    <3>1. worker[w].pc # "idle" /\ world' = world
      BY <2>2 DEF CreateRef, PutContents, OpenPr
    <3>2. world # "reviewed"
      BY <1>2, <3>1
    <3>3. CASE CreateRef(w)
      <4>1. Asks(RefRequest)
        BY DEF Asks
      <4> QED BY <1>4, <3>1, <3>2, <3>3, <4>1, SendMoves DEF CreateRef
    <3>4. CASE PutContents(w)
      <4>1. worker[w].text = "original"
        BY <3>4, Bounds DEF PutContents, Fits
      <4>2. Asks(PutRequest(worker[w].text))
        BY <4>1 DEF Asks
      <4> QED BY <1>4, <3>1, <3>2, <3>4, <4>2, SendMoves DEF PutContents
    <3>5. CASE OpenPr(w)
      <4>1. Asks(PullRequest)
        BY <3>2, <3>5, Bounds DEF Asks, OpenPr, Knows
      <4> QED BY <1>4, <3>1, <3>2, <3>5, <4>1, SendMoves DEF OpenPr
    <3> QED BY <2>2, <3>3, <3>4, <3>5
  <2> QED BY <1>5, <2>1, <2>2
          DEF RunOnce, Claim, BeginPrCreation, FindPr, GetRef, GetContents,
              FindPrAgain, Complete, LeaseLost, CallFails, ScheduleFailure,
              Crash
<1>6. CASE LateArrives
  <2>1. PICK request \in late :
          /\ IF Accepts(request) THEN TakesEffect(request)
             ELSE UNCHANGED <<branch, commit, pull>>
          /\ world' = world
    BY <1>6, Zenon DEF LateArrives
  <2>2. world # "reviewed"
    BY <2>1 DEF IInv, Sequential
  <2>3. Asks(request)
    BY <2>1, <2>2 DEF Asks, IInv, Requests
  <2> QED BY <1>4, <2>1, <2>2, <2>3, EffectMoves
<1>7. CASE ReviewerPushes
  BY <1>7, PushMoves DEF ReviewerPushes
<1>8. CASE ReviewerCloses
  BY <1>8, CloseMoves DEF ReviewerCloses
<1>9. CASE BranchDeleted
  BY <1>1, <1>9 DEF BranchDeleted, IsDelete
<1>10. CASE LeaseExpires \/ RecoverExpiredLease
  BY <1>10 DEF LeaseExpires, RecoverExpiredLease, github
<1> QED BY <1>5, <1>6, <1>7, <1>8, <1>9, <1>10 DEF Next

(* Once the job is completed, the attempts that are still running and the  *)
(* requests that are still on their way change nothing on GitHub: only a   *)
(* reviewer commits, a deleted branch stays deleted, and no second pull    *)
(* request is opened.                                                      *)
THEOREM CompletedQuiet == Spec => CompletedIsQuiet
<1>1. IInv /\ [Next]_vars =>
        [job.status = "completed" =>
           /\ Len(pull') = Len(pull)
           /\ branch = 0 => branch' = 0
           /\ commit' # commit => commit'[branch'].by = "reviewer"]_vars
  <2> SUFFICES ASSUME IInv, Next, job.status = "completed"
               PROVE  /\ Len(pull') = Len(pull)
                      /\ branch = 0 => branch' = 0
                      /\ commit' # commit => commit'[branch'].by = "reviewer"
    OBVIOUS
  <2>1. CASE UNCHANGED <<branch, commit, pull>>
    BY <2>1
  <2>2. CASE IsPush
    <3>1. PICK text \in Texts : Appends(text, "reviewer")
      BY <2>2 DEF IsPush
    <3> DEFINE e == [text |-> text, parent |-> branch, by |-> "reviewer"]
    <3>2. /\ e \in CommitRecord /\ e.by = "reviewer"
          /\ commit \in Seq(CommitRecord)
      BY SMT DEF CommitRecord, Authors, IInv, GitHubInv, GitHubType
    <3>3. commit'[Len(commit) + 1] = e
      BY <3>1, <3>2, Extended DEF Appends
    <3> QED BY <2>2, <3>1, <3>2, <3>3 DEF Appends, IsPush
  <2>3. CASE IsClose
    <3>1. world' = world
      BY CompletedMoves
    <3> QED BY <2>3, <3>1, CloseLength DEF IsClose
  <2>4. CASE IsDelete
    BY <2>4 DEF IsDelete
  <2> QED BY <2>1, <2>2, <2>3, <2>4, CompletedMoves
<1> QED BY <1>1, Invariance, PTL DEF Spec, CompletedIsQuiet
-----------------------------------------------------------------------------
(* Attempts that follow each other converge.  In the world of the reviewers *)
(* the branch has one writer until the pull request is open, and while it  *)
(* is open nobody brings the original text back: whoever still finds the   *)
(* result on the branch has seen a commit with the result before.          *)

(* The pull request was merged or closed; then it stays so.                *)
PullEnded == Len(pull) > 0 /\ NoOpenPull

IsResult(c) == c # 0 /\ commit[c].text = "result"

(* What an attempt may rely on at each of its calls.                       *)
Aims(r) ==
  /\ r.pc \in {"ref", "create", "contents", "put", "search", "open"}
       /\ r.existing = 0 => Len(pull) = 0
  /\ r.pc = "create" => branch = 0
  /\ r.pc \in {"ref", "create", "contents"} /\ r.existing # 0 =>
       PullEnded \/ IsResult(r.seen) \/ commit[branch].text = "other"
  /\ r.pc = "contents" /\ r.existing = 0 => r.sha = branch /\ branch # 0
  /\ r.pc = "put" =>
       \/ PullEnded
       \/ Len(pull) = 0 /\ branch # 0 /\ commit[branch].text = "original"
  /\ r.pc \in {"search", "open", "complete"} => PullEnded \/ IsResult(r.sha)
  /\ r.pc = "failing" /\ r.failure = "conflict" => PullEnded

Patched == ~NoOpenPull => commit[branch].text # "original"

Recorded ==
  /\ job.failure = "conflict" => PullEnded
  /\ operation.status = "completed" => PullEnded \/ IsResult(operation.commit)

Converging == /\ Patched /\ Recorded
              /\ \A w \in Workers : Aims(worker[w])

Paired == operation.status = "completed" => job.status = "completed"

SInv == Paired /\ (world = "reviewed" => Converging)

LEMMA PairedKept ==
  ASSUME IInv, Paired, Next
  PROVE  Paired'
<1>1. job \in JobRecord
  BY DEF IInv, JobInv
<1>2. ASSUME NEW w \in Workers, Claim(w)
      PROVE  Paired'
  <2>1. CASE UNCHANGED <<job, operation>>
    BY <2>1 DEF Paired
  <2>2. CASE job.status \in {"approved", "retry_scheduled"}
    BY <1>2, <2>2 DEF Claim, Paired
  <2> QED BY <1>2, <2>1, <2>2 DEF Claim
<1>3. ASSUME NEW w \in Workers, BeginPrCreation(w)
      PROVE  Paired'
  <2>1. operation' = [operation EXCEPT !.status = IF @ = "absent" THEN "pending"
                                                  ELSE @]
        /\ job' = job
    BY <1>3 DEF BeginPrCreation
  <2>2. operation \in [status : {"absent", "pending", "completed"},
                       commit : Nat, pull : Nat]
    BY DEF IInv, OperationInv
  <2>3. operation'.status = "completed" => operation.status = "completed"
    BY <2>1, <2>2, SMT
  <2> QED BY <2>1, <2>3 DEF Paired
<1>4. ASSUME NEW w \in Workers, Complete(w)
      PROVE  Paired'
  BY <1>1, <1>4, SMT DEF Complete, Released, JobRecord, Paired
<1>5. ASSUME NEW w \in Workers, ScheduleFailure(w)
      PROVE  Paired'
  <2>1. CASE Owned(w)
    BY <1>5, <2>1 DEF ScheduleFailure, Owned, Carries, Paired
  <2>2. CASE ~Owned(w)
    BY <1>5, <2>2 DEF ScheduleFailure, Paired
  <2> QED BY <2>1, <2>2
<1>6. CASE LeaseExpires
  BY <1>1, <1>6, SMT DEF LeaseExpires, JobRecord, Paired
<1>7. CASE RecoverExpiredLease
  BY <1>7 DEF RecoverExpiredLease, Paired
<1>8. CASE UNCHANGED database
  BY <1>8 DEF database, Paired
<1> QED BY <1>2, <1>3, <1>4, <1>5, <1>6, <1>7, <1>8, Zenon
        DEF Next, RunOnce, FindPr, GetRef, CreateRef, GetContents,
            PutContents, FindPrAgain, OpenPr, LeaseLost, CallFails, Crash,
            LateArrives, ReviewerPushes, ReviewerCloses, BranchDeleted,
            database

(* An idle worker relies on nothing.                                       *)
LEMMA IdleAims ==
  ASSUME NEW r, r.pc \in {"idle", "claimed", "find"}
  PROVE  Aims(r)
BY DEF Aims

LEMMA FailingAims ==
  ASSUME IInv, NEW w \in Workers, NEW f \in Failures,
         f = "conflict" => PullEnded
  PROVE  Aims(Failing(w, f))
<1> DEFINE e == Failing(w, f)
<1>1. worker[w] \in AttemptRecord
  BY Bounds
<1>2. e.pc = "failing" /\ e.failure = f
  BY <1>1, SMT DEF AttemptRecord, Failing
<1> HIDE DEF e
<1>3. Aims(e)
  BY <1>2 DEF Aims
<1> QED BY <1>3 DEF e

(* The pull request of a job is open, was ended, or is not there yet.      *)
LEMMA PullStates ==
  ASSUME IInv
  PROVE  /\ Len(pull) = 0 \/ Len(pull) = 1
         /\ Len(pull) = 0 => NoOpenPull
         /\ ~NoOpenPull => Len(pull) = 1 /\ pull[1].state = "open"
         /\ branch = 0 => NoOpenPull
         /\ branch # 0 => /\ branch \in 1..Len(commit)
                          /\ commit[branch].text \in Texts
<1>1. /\ pull \in Seq(PullRecord) /\ commit \in Seq(CommitRecord)
      /\ Len(pull) <= 1 /\ branch \in 0..Len(commit)
  BY DEF IInv, GitHubInv, GitHubType
<1>2. Len(pull) \in Nat /\ DOMAIN pull = 1..Len(pull) /\ Len(commit) \in Nat
  BY <1>1, LenProperties
<1>3. \A p \in 1..Len(pull) : p = 1 /\ (pull[p].state = "open" => branch # 0)
  BY <1>1, <1>2 DEF IInv, GitHubInv, History
<1>4. branch # 0 => branch \in 1..Len(commit) /\ commit[branch] \in CommitRecord
  BY <1>1, <1>2, Extended
<1>5. branch # 0 => commit[branch].text \in Texts
  BY <1>4 DEF CommitRecord
<1>6. ~NoOpenPull => \E p \in 1..Len(pull) : pull[p].state = "open"
  BY <1>2 DEF NoOpenPull
<1> QED BY <1>1, <1>2, <1>3, <1>4, <1>5, <1>6

(* The other workers are idle while one works.                             *)
LEMMA OthersIdle ==
  ASSUME IInv, world = "reviewed", NEW w \in Workers, worker[w].pc # "idle"
  PROVE  /\ job.status = "creating_pr"
         /\ \A v \in Workers : v # w => worker[v].pc = "idle"
BY DEF IInv, Sequential, Working

LEMMA AttemptAims ==
  ASSUME IInv, NEW w \in Workers, NEW e, Becomes(w, e),
         \A v \in Workers : v # w => worker[v].pc = "idle",
         Aims(e)'
  PROVE  \A v \in Workers : Aims(worker[v])'
<1>1. worker = [v \in Workers |-> worker[v]]
  BY DEF IInv, WorkersInv
<1>2. \A v \in Workers : worker'[v] = IF v = w THEN e ELSE worker[v]
  BY <1>1, SMT DEF Becomes
<1> QED BY <1>2 DEF Aims, PullEnded, IsResult

(* A step of an attempt that changes nothing outside the worker.           *)
LEMMA LocalAims ==
  ASSUME IInv, Converging, world = "reviewed", NEW w \in Workers, NEW e,
         worker[w].pc # "idle", Becomes(w, e), Aims(e),
         UNCHANGED <<github, database>>
  PROVE  Converging'
<1>1. /\ UNCHANGED <<branch, commit, pull, job, operation>>
  BY DEF github, database
<1>2. Aims(e)'
  BY <1>1 DEF Aims, PullEnded, NoOpenPull, IsResult
<1>3. Patched' /\ Recorded'
  BY <1>1
     DEF Converging, Patched, Recorded, PullEnded, NoOpenPull, IsResult
<1>4. \A v \in Workers : Aims(worker[v])'
  BY <1>2, OthersIdle, AttemptAims
<1> QED BY <1>3, <1>4 DEF Converging

LEMMA LeavingAims ==
  ASSUME IInv, Converging, world = "reviewed", NEW w \in Workers,
         LeaseLost(w) \/ Crash(w)
  PROVE  Converging'
<1>1. worker[w].pc # "idle" /\ Becomes(w, Idle) /\ UNCHANGED <<github, database>>
  BY SMT DEF LeaseLost, Crash
<1> QED BY <1>1, IdleRecord, IdleAims, LocalAims

LEMMA CallFailsAims ==
  ASSUME IInv, Converging, world = "reviewed", NEW w \in Workers, CallFails(w)
  PROVE  Converging'
<1>1. /\ worker[w].pc # "idle" /\ UNCHANGED <<github, database>>
      /\ Becomes(w, Failing(w, "refused")) \/ Becomes(w, Failing(w, "retryable"))
  BY DEF CallFails
<1>2. "refused" \in Failures /\ "retryable" \in Failures
  BY DEF Failures
<1>3. Aims(Failing(w, "refused")) /\ Aims(Failing(w, "retryable"))
  BY <1>2, FailingAims
<1> QED BY <1>1, <1>3, LocalAims

LEMMA FindPrAims ==
  ASSUME IInv, Converging, world = "reviewed", NEW w \in Workers, FindPr(w)
  PROVE  Converging'
<1> DEFINE seen == IF Found = 0 THEN 0 ELSE HeadOf(Found)
<1>1. PICK e : e = Looked(worker[w], Found, seen)
  OBVIOUS
<1>2. worker[w].pc = "find" /\ Becomes(w, e) /\ UNCHANGED <<github, database>>
  BY <1>1 DEF FindPr, Looked
<1>3. Found \in Nat /\ seen \in Nat
  <2>1. branch \in Nat /\ (Len(pull) = 0 \/ Len(pull) = 1)
    BY Bounds, PullStates
  <2>2. Len(pull) = 1 => pull[1].head \in Nat
    <3>1. pull \in Seq(PullRecord)
      BY DEF IInv, GitHubInv, GitHubType
    <3>2. ASSUME Len(pull) = 1
          PROVE  pull[1] \in PullRecord
      <4>1. 1 \in 1..Len(pull)
        BY <3>2
      <4> QED BY <3>1, <4>1, Extended
    <3> QED BY <3>2 DEF PullRecord
  <2> QED BY <2>1, <2>2 DEF Found, HeadOf
<1>4. e.pc = "ref" /\ e.existing = Found /\ e.seen = seen
  <2>1. worker[w] \in AttemptRecord
    BY Bounds
  <2> HIDE DEF seen
  <2> QED BY <1>1, <1>3, <2>1, LookedRecord
<1>5. Found # 0 => PullEnded \/ IsResult(seen) \/ commit[branch].text = "other"
  <2>1. CASE NoOpenPull
    BY <2>1, PullStates DEF Found, PullEnded
  <2>2. CASE ~NoOpenPull
    <3>1. seen = branch /\ branch # 0
      BY <2>2, PullStates DEF Found, HeadOf
    <3>2. commit[branch].text # "original" /\ commit[branch].text \in Texts
      BY <2>2, <3>1, PullStates DEF Converging, Patched
    <3> QED BY <3>1, <3>2 DEF IsResult, Texts
  <2> QED BY <2>1, <2>2
<1>6. Aims(e)
  BY <1>4, <1>5 DEF Aims, Found
<1> QED BY <1>2, <1>6, LocalAims

LEMMA GetRefAims ==
  ASSUME IInv, Converging, world = "reviewed", NEW w \in Workers, GetRef(w)
  PROVE  Converging'
<1>1. PICK e : e = IF branch = 0 THEN Goes(worker[w], "create")
                   ELSE AtCommit(worker[w], "contents", branch)
  OBVIOUS
<1>2. worker[w].pc = "ref" /\ Becomes(w, e) /\ UNCHANGED <<github, database>>
  BY <1>1 DEF GetRef, Goes, AtCommit
<1>3. /\ e.pc = IF branch = 0 THEN "create" ELSE "contents"
      /\ branch # 0 => e.sha = branch
      /\ e.existing = worker[w].existing /\ e.seen = worker[w].seen
  <2>1. /\ worker[w] \in AttemptRecord /\ branch \in Nat
        /\ "create" \in Pcs /\ "contents" \in Pcs
    BY Bounds DEF Pcs
  <2>2. CASE branch = 0
    BY <1>1, <2>1, <2>2, GoesRecord
  <2>3. CASE branch # 0
    BY <1>1, <2>1, <2>3, AtCommitRecord
  <2> QED BY <2>2, <2>3
<1>4. Aims(worker[w])
  BY DEF Converging
<1>5. Aims(e)
  BY <1>2, <1>3, <1>4 DEF Aims
<1> QED BY <1>2, <1>5, LocalAims

LEMMA GetContentsAims ==
  ASSUME IInv, Converging, world = "reviewed", NEW w \in Workers, GetContents(w)
  PROVE  Converging'
<1>1. worker[w].pc = "contents" /\ UNCHANGED <<github, database>>
  BY DEF GetContents
<1>2. Aims(worker[w]) /\ Patched
  BY DEF Converging
<1>3. worker[w].existing <= Len(pull) /\ worker[w].existing \in Nat
  BY Bounds DEF Knows
<1>4. worker[w].existing # 0 => Len(pull) > 0
  BY <1>3, PullStates
<1>5. CASE branch = 0 /\ Becomes(w, Failing(w, "conflict"))
  <2>1. PullEnded
    BY <1>1, <1>2, <1>4, <1>5, PullStates DEF Aims, PullEnded
  <2>2. "conflict" \in Failures
    BY DEF Failures
  <2>3. Aims(Failing(w, "conflict"))
    BY <2>1, <2>2, FailingAims
  <2> QED BY <1>1, <1>5, <2>3, LocalAims
<1>6. CASE Becomes(w, Failing(w, "stale"))
  <2>1. "stale" \in Failures
    BY DEF Failures
  <2>2. Aims(Failing(w, "stale"))
    BY <2>1, FailingAims
  <2> QED BY <1>1, <1>6, <2>2, LocalAims
<1>7. CASE /\ branch # 0
           /\ commit[branch].text = "result"
           /\ Becomes(w, [worker[w] EXCEPT
                            !.pc = "search",
                            !.sha = IF worker[w].existing # 0
                                    THEN worker[w].seen ELSE @])
  <2> DEFINE sha == IF worker[w].existing # 0 THEN worker[w].seen
                    ELSE worker[w].sha
  <2>1. PICK e : e = AtCommit(worker[w], "search", sha)
    OBVIOUS
  <2>2. Becomes(w, e)
    BY <1>7, <2>1 DEF AtCommit
  <2>3. sha \in Nat
    BY Bounds
  <2>4. e.pc = "search" /\ e.existing = worker[w].existing /\ e.sha = sha
    <3>1. worker[w] \in AttemptRecord /\ "search" \in Pcs
      BY Bounds DEF Pcs
    <3> QED BY <2>1, <2>3, <3>1, AtCommitRecord
  <2>5. PullEnded \/ IsResult(sha)
    BY <1>1, <1>2, <1>7 DEF Aims, IsResult
  <2>6. Aims(e)
    BY <1>1, <1>2, <2>4, <2>5 DEF Aims
  <2> QED BY <1>1, <2>2, <2>6, LocalAims
<1>8. CASE /\ branch # 0
           /\ commit[branch].text \in Baseline
           /\ Becomes(w, [worker[w] EXCEPT !.pc = "put",
                                           !.text = commit[branch].text])
  <2>1. PICK e : e = Read(worker[w], commit[branch].text)
    OBVIOUS
  <2>2. Becomes(w, e)
    BY <1>8, <2>1 DEF Read
  <2>3. e.pc = "put" /\ e.existing = worker[w].existing
    BY <2>1, PullStates, <1>8, Bounds, ReadRecord
  <2>4. commit[branch].text = "original"
    BY <1>8 DEF Baseline
  <2>5. PullEnded \/ Len(pull) = 0
    BY <1>2, <2>4, PullStates DEF Patched, PullEnded
  <2>6. Aims(e)
    BY <1>1, <1>2, <1>8, <2>3, <2>4, <2>5 DEF Aims
  <2> QED BY <1>1, <2>2, <2>6, LocalAims
<1> QED BY <1>5, <1>6, <1>7, <1>8 DEF GetContents

LEMMA FindPrAgainAims ==
  ASSUME IInv, Converging, world = "reviewed", NEW w \in Workers, FindPrAgain(w)
  PROVE  Converging'
<1> DEFINE n == IF worker[w].existing # 0 THEN worker[w].existing ELSE Found
           c == IF n = 0 THEN "open" ELSE "complete"
<1>1. PICK e : e = Decided(worker[w], c, n)
  OBVIOUS
<1>2. worker[w].pc = "search" /\ Becomes(w, e) /\ UNCHANGED <<github, database>>
  BY <1>1 DEF FindPrAgain, Decided
<1>3. n \in Nat /\ c \in Pcs
  BY Bounds DEF Found, Pcs
<1>4. e.pc = c /\ e.existing = n /\ e.sha = worker[w].sha
  <2>1. worker[w] \in AttemptRecord
    BY Bounds
  <2> QED BY <1>1, <1>3, <2>1, DecidedRecord
<1>5. Aims(worker[w])
  BY DEF Converging
<1>6. Aims(e)
  BY <1>2, <1>4, <1>5 DEF Aims, Found
<1> QED BY <1>2, <1>6, LocalAims

LEMMA BeginAims ==
  ASSUME IInv, Paired, Converging, world = "reviewed", NEW w \in Workers,
         BeginPrCreation(w), Paired'
  PROVE  Converging'
<1>1. PICK e : e = Goes(worker[w], "find")
  OBVIOUS
<1>2. /\ worker[w].pc = "claimed" /\ Becomes(w, e) /\ job' = job
      /\ UNCHANGED <<branch, commit, pull>>
      /\ job.status = "creating_pr"
  BY <1>1 DEF BeginPrCreation, Goes, github, Owned, Carries
<1>3. e.pc = "find"
  BY <1>1, Bounds, GoesRecord DEF Pcs
<1>4. Aims(e)'
  BY <1>3 DEF Aims
<1>5. Patched' /\ Recorded'
  BY <1>2 DEF Converging, Patched, Recorded, PullEnded, NoOpenPull, Paired
<1>6. \A v \in Workers : Aims(worker[v])'
  BY <1>2, <1>4, OthersIdle, AttemptAims
<1> QED BY <1>5, <1>6 DEF Converging

(* A commit with the result keeps it when another one is appended.         *)
LEMMA ResultKept ==
  ASSUME IInv, NEW text \in Texts, NEW by \in Authors, Appends(text, by),
         NEW c \in Nat, c <= Len(commit), IsResult(c)
  PROVE  IsResult(c)'
<1> DEFINE e == [text |-> text, parent |-> branch, by |-> by]
<1>1. e \in CommitRecord /\ commit \in Seq(CommitRecord)
  <2>1. branch \in Nat
    BY DEF IInv, GitHubInv, GitHubType
  <2> QED BY <2>1 DEF CommitRecord, IInv, GitHubInv, GitHubType
<1>2. commit' = Append(commit, e)
  BY DEF Appends
<1> HIDE DEF e
<1>3. c \in 1..Len(commit)
  BY <1>1, LenProperties DEF IsResult
<1>4. commit'[c] = commit[c]
  BY <1>1, <1>2, <1>3, Extended
<1> QED BY <1>4 DEF IsResult

LEMMA AppendedHead ==
  ASSUME IInv, NEW text \in Texts, NEW by \in Authors, Appends(text, by)
  PROVE  /\ branch' = Len(commit) + 1 /\ branch' # 0
         /\ commit'[branch'].text = text
<1> DEFINE e == [text |-> text, parent |-> branch, by |-> by]
<1>1. e \in CommitRecord /\ commit \in Seq(CommitRecord) /\ e.text = text
  <2>1. branch \in Nat
    BY DEF IInv, GitHubInv, GitHubType
  <2> QED BY <2>1 DEF CommitRecord, IInv, GitHubInv, GitHubType
<1>2. commit' = Append(commit, e) /\ branch' = Len(commit) + 1
  BY DEF Appends
<1> HIDE DEF e
<1> QED BY <1>1, <1>2, Extended, LenProperties

(* The requests of an attempt in the world of the reviewers: nothing       *)
(* arrives late, and what GitHub refuses is a conflict.                    *)
LEMMA CreateRefAims ==
  ASSUME IInv, Paired, Converging, world = "reviewed", NEW w \in Workers,
         CreateRef(w)
  PROVE  Converging'
<1>1. PICK e : e = AtCommit(worker[w], "contents", Base)
  OBVIOUS
<1>2. PICK f : f = Failing(w, "retryable")
  OBVIOUS
<1>3. /\ worker[w].pc = "create" /\ UNCHANGED <<job, operation>>
      /\ Sends(w, RefRequest, e)
  BY <1>1 DEF CreateRef, AtCommit, database
<1>4. Aims(worker[w]) /\ branch = 0 /\ NoOpenPull
  BY <1>3, PullStates DEF Converging, Aims
<1>5. Accepts(RefRequest)
  BY <1>4 DEF Accepts, RefRequest
<1>6. /\ TakesEffect(RefRequest) /\ (Becomes(w, e) \/ Becomes(w, f))
      /\ UNCHANGED <<commit, pull>> /\ branch' = Base
  <2>1. TakesEffect(RefRequest) /\ (Becomes(w, e) \/ Becomes(w, f))
    BY <1>2, <1>3, <1>5, SMT DEF Sends
  <2> QED BY <2>1, SMT DEF TakesEffect, RefRequest
<1>7. /\ e.pc = "contents" /\ e.sha = Base /\ e.existing = worker[w].existing
      /\ e.seen = worker[w].seen
  <2>1. worker[w] \in AttemptRecord /\ "contents" \in Pcs /\ Base \in Nat
    BY Bounds DEF Base, Pcs
  <2> QED BY <1>1, <2>1, AtCommitRecord
<1>8. NoOpenPull' /\ (PullEnded => PullEnded')
  BY <1>4, <1>6 DEF NoOpenPull, PullEnded
<1>9. Aims(e)'
  <2>1. e.existing <= Len(pull) /\ e.existing \in Nat
    BY <1>7, Bounds DEF Knows
  <2>2. e.existing # 0 => PullEnded
    BY <1>4, <2>1, PullStates DEF PullEnded
  <2> QED BY <1>3, <1>4, <1>6, <1>7, <1>8, <2>2 DEF Aims, Base
<1>10. Aims(f)'
  <2>1. f.pc = "failing" /\ f.failure = "retryable"
    BY <1>2, Bounds, SMT DEF AttemptRecord, Failing
  <2> QED BY <2>1 DEF Aims
<1>11. \A v \in Workers : Aims(worker[v])'
  BY <1>3, <1>6, <1>9, <1>10, OthersIdle, AttemptAims
<1>12. Recorded'
  BY <1>3, <1>6, <1>8 DEF Converging, Recorded, IsResult
<1> QED BY <1>8, <1>11, <1>12 DEF Converging, Patched

LEMMA PutContentsAims ==
  ASSUME IInv, Paired, Converging, world = "reviewed", NEW w \in Workers,
         PutContents(w)
  PROVE  Converging'
<1>1. PICK e : e = AtCommit(worker[w], "search", Len(commit) + 1)
  OBVIOUS
<1>2. PICK f, g : f = Failing(w, "retryable") /\ g = Failing(w, "conflict")
  OBVIOUS
<1>3. worker[w].pc = "put" /\ UNCHANGED <<job, operation>>
  BY DEF PutContents, database
<1>4. worker[w].text = "original"
  BY <1>3, Bounds DEF Fits
<1> DEFINE request == PutRequest("original")
<1>5. Sends(w, request, e)
  BY <1>1, <1>4 DEF PutContents, AtCommit
<1>6. Aims(worker[w])
  BY DEF Converging
<1>7. /\ e.pc = "search" /\ e.sha = Len(commit) + 1
      /\ e.existing = worker[w].existing
  <2>1. /\ worker[w] \in AttemptRecord /\ "search" \in Pcs
        /\ Len(commit) + 1 \in Nat
    BY Bounds DEF Pcs
  <2> QED BY <1>1, <2>1, AtCommitRecord
<1>8. /\ f.pc = "failing" /\ f.failure = "retryable"
      /\ g.pc = "failing" /\ g.failure = "conflict"
  BY <1>2, Bounds, SMT DEF AttemptRecord, Failing
<1>9. operation.status # "completed"
  BY <1>3, OthersIdle DEF Paired
<1>10. CASE Accepts(request) /\ TakesEffect(request)
            /\ (Becomes(w, e) \/ Becomes(w, f))
  <2>1. Appends("result", "worker")
    BY <1>10 DEF TakesEffect, PutRequest, Commit, Appends
  <2>2. /\ branch' = Len(commit) + 1 /\ branch' # 0
        /\ commit'[branch'].text = "result" /\ pull' = pull
    BY <2>1, AppendedHead DEF Appends, Texts, Authors
  <2>3. PullEnded' = PullEnded
    BY <2>2 DEF PullEnded, NoOpenPull
  <2>4. Aims(e)'
    BY <1>3, <1>6, <1>7, <2>2 DEF Aims, IsResult
  <2>5. Aims(f)'
    BY <1>8 DEF Aims
  <2>6. \A v \in Workers : Aims(worker[v])'
    BY <1>3, <1>10, <2>4, <2>5, OthersIdle, AttemptAims
  <2>7. Recorded'
    BY <1>3, <1>9, <2>3 DEF Converging, Recorded
  <2> QED BY <2>2, <2>6, <2>7 DEF Converging, Patched
<1>11. CASE ~Accepts(request) /\ Becomes(w, g) /\ UNCHANGED github
  <2>1. PullEnded
    BY <1>3, <1>6, <1>11 DEF Aims, Accepts, PutRequest
  <2>2. Aims(g)
    BY <1>8, <2>1 DEF Aims
  <2> QED BY <1>3, <1>11, <2>2, LocalAims DEF database
<1> QED BY <1>2, <1>5, <1>10, <1>11 DEF Sends

LEMMA OpenPrAims ==
  ASSUME IInv, Paired, Converging, world = "reviewed", NEW w \in Workers,
         OpenPr(w)
  PROVE  Converging'
<1>1. PICK e : e = Opened(worker[w], Len(pull) + 1)
  OBVIOUS
<1>2. PICK f : f = Failing(w, "retryable")
  OBVIOUS
<1>3. /\ worker[w].pc = "open" /\ UNCHANGED <<job, operation>>
      /\ Sends(w, PullRequest, e)
  BY <1>1 DEF OpenPr, Opened, database
<1>4. Len(pull) = 0 /\ OnResult /\ NoOpenPull
  <2>1. Len(pull) = 0
    BY <1>3 DEF IInv, Sequential, Working
  <2> QED BY <1>3, <2>1, Bounds, PullStates DEF Knows, Shown
<1>5. Accepts(PullRequest)
  BY <1>4 DEF Accepts, PullRequest, OnResult
<1>6. /\ Becomes(w, e) \/ Becomes(w, f)
      /\ UNCHANGED <<branch, commit>>
  <2>1. TakesEffect(PullRequest) /\ (Becomes(w, e) \/ Becomes(w, f))
    BY <1>2, <1>3, <1>5, SMT DEF Sends
  <2> QED BY <2>1, SMT DEF TakesEffect, PullRequest
<1>7. e.pc = "complete" /\ e.sha = worker[w].sha
  <2>1. worker[w] \in AttemptRecord /\ Len(pull) + 1 \in Nat
    BY Bounds
  <2> QED BY <1>1, <2>1, OpenedRecord
<1>8. f.pc = "failing" /\ f.failure = "retryable"
  BY <1>2, Bounds, SMT DEF AttemptRecord, Failing
<1>9. ~PullEnded /\ operation.status # "completed"
  BY <1>3, <1>4, OthersIdle DEF Paired, PullEnded
<1>10. IsResult(worker[w].sha)
  BY <1>3, <1>9 DEF Converging, Aims
<1>11. Aims(e)' /\ Aims(f)'
  BY <1>6, <1>7, <1>8, <1>10 DEF Aims, IsResult
<1>12. \A v \in Workers : Aims(worker[v])'
  BY <1>3, <1>6, <1>11, OthersIdle, AttemptAims
<1>13. Patched' /\ Recorded'
  BY <1>3, <1>4, <1>6, <1>9 DEF Converging, Recorded, Patched, OnResult
<1> QED BY <1>12, <1>13 DEF Converging

(* The transactions of an attempt.                                         *)
LEMMA ClaimAims ==
  ASSUME IInv, Paired, Converging, world = "reviewed", NEW w \in Workers,
         Claim(w)
  PROVE  Converging'
<1>1. UNCHANGED <<branch, commit, pull, operation>> /\ worker[w].pc = "idle"
  BY DEF Claim, github
<1>2. CASE UNCHANGED <<job, worker>>
  BY <1>1, <1>2
     DEF Converging, Patched, Recorded, PullEnded, NoOpenPull, IsResult, Aims
<1>3. CASE /\ job.status \in {"approved", "retry_scheduled"}
           /\ job' = [job EXCEPT !.status = "creating_pr", !.attempts = @ + 1,
                                 !.token = job.attempts + 1, !.live = TRUE]
           /\ Becomes(w, [Idle EXCEPT !.pc = "claimed",
                                      !.token = job.attempts + 1])
  <2>1. PICK e : e = Claimed(Idle, job.attempts + 1)
    OBVIOUS
  <2>2. job \in JobRecord
    BY DEF IInv, JobInv
  <2>3. job'.failure = job.failure
    BY <1>3, <2>2, SMT DEF JobRecord
  <2>4. Becomes(w, e)
    BY <1>3, <2>1 DEF Claimed
  <2>5. job.attempts + 1 \in Nat
    BY <2>2 DEF JobRecord
  <2>6. e.pc = "claimed"
    BY <2>1, <2>5, IdleRecord, ClaimedRecord
  <2>7. Aims(e)'
    BY <2>6 DEF Aims
  <2>8. \A v \in Workers : worker[v].pc = "idle"
    BY <1>3 DEF IInv, Sequential, Working
  <2>9. \A v \in Workers : Aims(worker[v])'
    BY <2>4, <2>7, <2>8, AttemptAims
  <2>10. Patched' /\ Recorded'
    BY <1>1, <2>3
       DEF Converging, Patched, Recorded, PullEnded, NoOpenPull, IsResult
  <2> QED BY <2>9, <2>10 DEF Converging
<1> QED BY <1>2, <1>3 DEF Claim

LEMMA CompleteAims ==
  ASSUME IInv, Converging, world = "reviewed", NEW w \in Workers, Complete(w)
  PROVE  Converging'
<1>1. /\ UNCHANGED <<branch, commit, pull>> /\ worker[w].pc = "complete"
      /\ operation'.commit = worker[w].sha
      /\ job' = Released("completed", "none") /\ Becomes(w, Idle)
  BY DEF Complete, github
<1>2. job \in JobRecord
  BY DEF IInv, JobInv
<1>3. job'.failure = "none"
  BY <1>1, <1>2, SMT DEF Released, JobRecord
<1>4. PullEnded \/ IsResult(worker[w].sha)
  BY <1>1 DEF Converging, Aims
<1>5. Aims(Idle)' /\ Idle = Idle'
  BY IdleRecord DEF Aims, Idle
<1>6. PICK e : e = Idle
  OBVIOUS
<1>7. Aims(e)'
  BY <1>5, <1>6 DEF Aims
<1>8. \A v \in Workers : Aims(worker[v])'
  BY <1>1, <1>6, <1>7, OthersIdle, AttemptAims
<1>9. Patched' /\ Recorded'
  BY <1>1, <1>3, <1>4
     DEF Converging, Patched, Recorded, PullEnded, NoOpenPull, IsResult
<1> QED BY <1>8, <1>9 DEF Converging

LEMMA ScheduleFailureAims ==
  ASSUME IInv, Paired, Converging, world = "reviewed", NEW w \in Workers,
         ScheduleFailure(w)
  PROVE  Converging'
<1>1. /\ UNCHANGED <<branch, commit, pull, operation>>
      /\ worker[w].pc = "failing" /\ Becomes(w, Idle)
  BY DEF ScheduleFailure, github
<1>2. job \in JobRecord
  BY DEF IInv, JobInv
<1>3. job'.failure = job.failure \/ job'.failure = worker[w].failure
  <2>1. CASE job' = job
    BY <2>1
  <2>2. CASE \E s : job' = Released(s, worker[w].failure)
    BY <1>2, <2>2, SMT DEF Released, JobRecord
  <2> QED BY <2>1, <2>2 DEF ScheduleFailure
<1>4. job'.failure = "conflict" => PullEnded
  BY <1>1, <1>3 DEF Converging, Recorded, Aims
<1>5. PICK e : e = Idle
  OBVIOUS
<1>6. Aims(e)'
  BY <1>5, IdleRecord DEF Aims
<1>7. \A v \in Workers : Aims(worker[v])'
  BY <1>1, <1>5, <1>6, OthersIdle, AttemptAims
<1>8. Patched' /\ Recorded'
  BY <1>1, <1>4
     DEF Converging, Patched, Recorded, PullEnded, NoOpenPull, IsResult
<1> QED BY <1>7, <1>8 DEF Converging

(* Time and the reviewers.                                                 *)
LEMMA LeaseAims ==
  ASSUME IInv, Converging, LeaseExpires \/ RecoverExpiredLease
  PROVE  Converging'
<1>1. /\ UNCHANGED <<branch, commit, pull, operation, worker>>
  BY DEF LeaseExpires, RecoverExpiredLease, github
<1>2. job \in JobRecord
  BY DEF IInv, JobInv
<1>3. job'.failure = job.failure \/ job'.failure = "lease_expired"
  <2>1. CASE LeaseExpires
    BY <1>2, <2>1, SMT DEF LeaseExpires, JobRecord
  <2>2. CASE RecoverExpiredLease
    <3>1. \E s : job' = Released(s, "lease_expired")
      BY <2>2, Zenon DEF RecoverExpiredLease
    <3> QED BY <1>2, <3>1, SMT DEF Released, JobRecord
  <2> QED BY <2>1, <2>2
<1> QED BY <1>1, <1>3
        DEF Converging, Patched, Recorded, PullEnded, NoOpenPull, IsResult, Aims

LEMMA PushAims ==
  ASSUME IInv, Converging, ReviewerPushes
  PROVE  Converging'
<1>1. ~NoOpenPull /\ UNCHANGED <<pull, job, operation, worker>>
  BY DEF ReviewerPushes, database
<1>2. /\ Len(pull) = 1 /\ ~PullEnded /\ branch # 0
      /\ commit[branch].text \in Texts /\ commit[branch].text # "original"
  BY <1>1, PullStates DEF Converging, Patched, PullEnded
<1>3. PICK text \in {commit[branch].text, "other"} : Appends(text, "reviewer")
  BY Zenon DEF ReviewerPushes, Commit, Appends
<1>4. text \in Texts /\ "reviewer" \in Authors
  BY <1>2 DEF Texts, Authors
<1>5. branch' # 0 /\ commit'[branch'].text = text
  BY <1>3, <1>4, AppendedHead
<1>6. ~PullEnded' /\ ~NoOpenPull'
  BY <1>1, <1>2 DEF PullEnded, NoOpenPull
<1>7. Patched'
  BY <1>2, <1>5 DEF Patched
<1>8. Recorded'
  <2>1. operation.commit \in Nat /\ operation.commit <= Len(commit)
    BY DEF IInv, OperationInv
  <2> QED BY <1>1, <1>2, <1>3, <1>4, <2>1, ResultKept
          DEF Converging, Recorded
<1>9. ASSUME NEW v \in Workers
      PROVE  Aims(worker[v])'
  <2>1. Aims(worker[v]) /\ worker'[v] = worker[v]
    BY <1>1 DEF Converging
  <2>2. /\ worker[v].seen \in Nat /\ worker[v].seen <= Len(commit)
        /\ worker[v].sha \in Nat /\ worker[v].sha <= Len(commit)
    BY Bounds DEF Knows
  <2>3. /\ IsResult(worker[v].seen) => IsResult(worker[v].seen)'
        /\ IsResult(worker[v].sha) => IsResult(worker[v].sha)'
    <3>1. PICK s, a : s = worker[v].seen /\ a = worker[v].sha
      OBVIOUS
    <3>2. (IsResult(s) => IsResult(s)') /\ (IsResult(a) => IsResult(a)')
      BY <1>3, <1>4, <2>2, <3>1, ResultKept
    <3> QED BY <2>1, <3>1, <3>2 DEF IsResult
  <2>4. commit[branch].text = "other" => text = "other"
    BY <1>3
  <2> QED BY <1>1, <1>2, <1>5, <2>1, <2>3, <2>4 DEF Aims
<1> QED BY <1>7, <1>8, <1>9 DEF Converging

LEMMA CloseAims ==
  ASSUME IInv, IInv', Converging, ReviewerCloses
  PROVE  Converging'
<1>1. UNCHANGED <<branch, commit, job, operation, worker, world>>
  BY DEF ReviewerCloses, database
<1>2. Len(pull') = Len(pull)
  BY <1>1, CloseMoves, CloseLength
<1>3. PICK p \in DOMAIN pull, state \in EndStates :
        /\ pull[p].state = "open"
        /\ pull' = [pull EXCEPT ![p] = [@ EXCEPT !.state = state,
                                                 !.head = branch]]
  BY Zenon DEF ReviewerCloses, EndStates
<1>4. pull \in Seq(PullRecord) /\ DOMAIN pull = 1..Len(pull)
  BY LenProperties DEF IInv, GitHubInv, GitHubType
<1>5. p = 1 /\ Len(pull) = 1
  BY <1>3, <1>4, PullStates
<1>6. pull'[1].state = state
  <2>1. pull[1] \in PullRecord /\ branch \in Nat
    <3>1. 1 \in 1..Len(pull) /\ branch \in Nat
      BY <1>5 DEF IInv, GitHubInv, GitHubType
    <3> QED BY <1>4, <3>1, Extended
  <2>2. pull'[1] = Ended(pull[1], state, branch)
    BY <1>3, <1>5 DEF Ended
  <2> QED BY <2>1, <2>2, EndedPull
<1>7. PullEnded' /\ NoOpenPull'
  <2>1. pull'[1].state # "open"
    BY <1>3, <1>6 DEF EndStates
  <2>2. DOMAIN pull' = {1}
    BY <1>3, <1>4, <1>5
  <2> QED BY <1>2, <1>5, <2>1, <2>2 DEF PullEnded, NoOpenPull
<1>8. ASSUME NEW v \in Workers
      PROVE  Aims(worker[v])'
  <2>1. Aims(worker[v]) /\ worker'[v] = worker[v]
    BY <1>1 DEF Converging
  <2> QED BY <1>1, <1>2, <1>7, <2>1 DEF Aims
<1> QED BY <1>7, <1>8 DEF Converging, Patched, Recorded

LEMMA DeleteAims ==
  ASSUME IInv, Converging, BranchDeleted
  PROVE  Converging'
<1>1. /\ UNCHANGED <<commit, pull, job, operation, worker>>
      /\ PullEnded /\ branch' = 0
  BY DEF BranchDeleted, database, PullEnded
<1>2. PullEnded' /\ NoOpenPull'
  BY <1>1 DEF PullEnded, NoOpenPull
<1>3. Len(pull) # 0
  BY <1>1, PullStates DEF PullEnded
<1>4. ASSUME NEW v \in Workers
      PROVE  Aims(worker[v])'
  <2>1. Aims(worker[v]) /\ worker'[v] = worker[v]
    BY <1>1 DEF Converging
  <2> QED BY <1>1, <1>2, <1>3, <2>1 DEF Aims
<1> QED BY <1>2, <1>4 DEF Converging, Patched, Recorded

LEMMA RunOnceAims ==
  ASSUME IInv, IInv', Paired, Paired', Converging, world = "reviewed",
         NEW w \in Workers, RunOnce(w) \/ Crash(w)
  PROVE  Converging'
<1>1. CASE LeaseLost(w) \/ Crash(w)
  BY <1>1, LeavingAims
<1> QED BY <1>1, ClaimAims, BeginAims, FindPrAims, GetRefAims,
           CreateRefAims, GetContentsAims, PutContentsAims, FindPrAgainAims,
           OpenPrAims, CompleteAims, CallFailsAims, ScheduleFailureAims
        DEF RunOnce

LEMMA InitSInv == Init => SInv
<1> SUFFICES ASSUME Init
             PROVE  SInv
  OBVIOUS
<1>1. /\ pull = << >> /\ job.failure = "none" /\ operation.status = "absent"
      /\ worker = [w \in Workers |-> Idle]
  BY DEF Init
<1>2. NoOpenPull
  BY <1>1 DEF NoOpenPull
<1>3. \A w \in Workers : Aims(worker[w])
  BY <1>1, IdleRecord DEF Aims
<1> QED BY <1>1, <1>2, <1>3
        DEF SInv, Paired, Converging, Patched, Recorded

LEMMA NextSInv == IInv /\ IInv' /\ SInv /\ [Next]_vars => SInv'
<1> SUFFICES ASSUME IInv, IInv', SInv, [Next]_vars
             PROVE  SInv'
  OBVIOUS
<1>1. CASE UNCHANGED vars
  BY <1>1 DEF vars, SInv, Paired, Converging, Patched, Recorded, PullEnded,
              NoOpenPull, IsResult, Aims
<1>2. CASE Next
  <2>1. Paired'
    BY <1>2, PairedKept DEF SInv
  <2>2. world' = world
    BY <1>2
       DEF Next, RunOnce, Claim, BeginPrCreation, FindPr, GetRef, CreateRef,
           GetContents, PutContents, FindPrAgain, OpenPr, Complete, LeaseLost,
           CallFails, ScheduleFailure, Crash, LeaseExpires,
           RecoverExpiredLease, LateArrives, ReviewerPushes, ReviewerCloses,
           BranchDeleted
  <2>3. ASSUME world = "reviewed"
        PROVE  Converging'
    <3>1. Converging /\ Paired
      BY <2>3 DEF SInv
    <3>2. ~LateArrives
      BY <2>3, Zenon DEF LateArrives, IInv, Sequential
    <3> QED BY <1>2, <2>1, <2>3, <3>1, <3>2, RunOnceAims, LeaseAims, PushAims,
               CloseAims, DeleteAims
            DEF Next
  <2> QED BY <2>1, <2>2, <2>3 DEF SInv
<1> QED BY <1>1, <1>2

(* As long as attempts follow each other and no request arrives late, a    *)
(* completed job with an open pull request has recorded a commit with the  *)
(* approved result, and no attempt fails because GitHub refuses what an    *)
(* earlier one has done, unless the pull request was merged or closed:     *)
(* wherever an attempt ended, the next one takes up what it finds.         *)
THEOREM SequentialConverge == Spec => []SequentialRetries
<1>1. IInv /\ SInv => SequentialRetries
  <2> SUFFICES ASSUME IInv, SInv, world = "reviewed"
               PROVE  /\ ~NoOpenPull => RecordedCommitIsPatch
                      /\ RetriesConverge
    BY DEF SequentialRetries
  <2>1. Recorded
    BY DEF SInv, Converging
  <2> QED BY <2>1
          DEF Recorded, RecordedCommitIsPatch, RetriesConverge, PullEnded,
              IsResult
<1>2. Spec => [](IInv /\ SInv)
  <2>1. IInv /\ SInv /\ [Next]_vars => (IInv /\ SInv)'
    BY NextIInv, NextSInv
  <2>2. Init => IInv /\ SInv
    BY InitIInv, InitSInv
  <2> QED BY <2>1, <2>2, PTL DEF Spec
<1> QED BY <1>1, <1>2, PTL
=============================================================================
