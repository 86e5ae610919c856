---------------------- MODULE PlaybookRetrieval_proofs ----------------------
(***************************************************************************)
(* Theorems about PlaybookRetrieval for every set of playbooks, texts,     *)
(* models and ingestions, and every size of a search: concurrent           *)
(* ingestions of one text add one version, and an answer is as fresh as    *)
(* the moment its search began.                                            *)
(***************************************************************************)
EXTENDS PlaybookRetrieval, Numbers, SequenceTheorems, FiniteSetTheorems, FunctionTheorems,
        TLAPS

\* What an ingestion has read.
Hashed == [pc : {"hashed"}, playbook : Playbooks, model : Models,
           checksum : Texts]
Parsed == [pc : {"parsed", "embedding"}, playbook : Playbooks, model : Models,
           checksum : Texts, parsed : {t \in Texts : Sections[t] # {}}]

Unique(list) ==
  \A v, w \in DOMAIN list :
    list[v].checksum = list[w].checksum /\ list[v].model = list[w].model => v = w

\* The versions of one playbook.
Versioned(list) ==
  /\ list \in Seq(Version) /\ Len(list) <= MaxVersions
  /\ \A v \in DOMAIN list : Sections[list[v].parsed] # {}
  /\ Unique(list)

Libraries ==
  /\ disk \in [Playbooks -> Texts]
  /\ document \in [Playbooks -> {"none", "active", "archived"}]
  /\ versions \in [Playbooks -> Seq(Version)]
  /\ \A p \in Playbooks : /\ Versioned(versions[p])
                          /\ document[p] = "none" <=> versions[p] = <<>>
  /\ ingestor \in [Ingestors -> {Resting} \cup Hashed \cup Parsed]

\* A chunk of a version that was the latest when the search began, or later.
Fresh(c, since) ==
  /\ c[1] \in Playbooks
  /\ c[2] \in DOMAIN versions[c[1]]
  /\ since[c[1]] <= c[2]
  /\ c[3] \in Sections[versions[c[1]][c[2]].parsed]

Searching ==
  /\ search.pc \in {"idle", "semantic", "lexical", "answered"}
  /\ search.pc # "idle" => \A p \in Playbooks :
       search.since[p] \in Nat /\ search.since[p] <= Len(versions[p])
  /\ search.pc = "lexical" =>
       \A c \in Range(search.semantic) : Fresh(c, search.since)
  /\ search.pc = "answered" =>
       \A c \in Range(search.answer) : Fresh(c, search.since)

IInv == Libraries /\ Searching

-----------------------------------------------------------------------------
(* Versions.                                                               *)

LEMMA FunctionUpdate ==
  ASSUME NEW S, NEW T, NEW f \in [S -> T], NEW x, NEW v \in T
  PROVE  [f EXCEPT ![x] = v] \in [S -> T]
OBVIOUS

LEMMA AppendVersion ==
  ASSUME NEW list, Versioned(list), Len(list) < MaxVersions,
         NEW new \in Version, Sections[new.parsed] # {},
         \A v \in DOMAIN list :
           ~(list[v].checksum = new.checksum /\ list[v].model = new.model)
  PROVE  /\ Versioned(Append(list, new)) /\ Append(list, new) # <<>>
         /\ DOMAIN list \subseteq DOMAIN Append(list, new)
         /\ \A v \in DOMAIN list : Append(list, new)[v] = list[v]
         /\ Len(list) <= Len(Append(list, new))
<1> DEFINE more == Append(list, new)
           n == Len(list) + 1
<1>1. list \in Seq(Version) /\ Len(list) \in Nat /\ DOMAIN list = 1..Len(list)
      /\ n \in Nat /\ MaxVersions \in Nat
  BY LimitsAssumption, SMT DEF Versioned, LimitsAssumption
<1>2. /\ more \in Seq(Version) /\ Len(more) = n /\ DOMAIN more = 1..n
      /\ more[n] = new /\ \A v \in 1..Len(list) : more[v] = list[v]
  BY <1>1, SMT
<1> HIDE DEF more
<1>3. \A v \in 1..n : v \in DOMAIN list \/ v = n
  BY <1>1, SMT
<1>4. n \notin DOMAIN list
  BY <1>1, SMT
<1>5. \A v \in DOMAIN more : Sections[more[v].parsed] # {}
  BY <1>1, <1>2, <1>3 DEF Versioned
<1>6. Unique(more)
  BY <1>1, <1>2, <1>3, <1>4 DEF Versioned, Unique
<1>7. n <= MaxVersions /\ more # <<>> /\ Len(list) <= n /\ DOMAIN list \subseteq 1..n
  BY <1>1, <1>2, SMT
<1> QED BY <1>1, <1>2, <1>5, <1>6, <1>7 DEF Versioned, more

LEMMA OneServed ==
  ASSUME NEW c \in Served
  PROVE  /\ c[1] \in Playbooks /\ c[2] = Latest(c[1])
         /\ c[3] \in Sections[versions[c[1]][c[2]].parsed]
         /\ c[2] \in 1..MaxVersions
BY DEF Served

LEMMA Permuted ==
  ASSUME NEW S, NEW f \in SetToAllKPermutations(S) PROVE Range(f) \subseteq S
BY DEF SetToAllKPermutations, SetToSeqs, Range

LEMMA Fused ==
  ASSUME NEW semantic, NEW lexical, NEW weight,
         NEW f \in Fusions(semantic, lexical, weight)
  PROVE  Range(f) \subseteq Range(semantic) \cup Range(lexical)
BY DEF Fusions, Range

\* Versions are only appended.
Grows ==
  \A p \in Playbooks :
    /\ DOMAIN versions[p] \subseteq DOMAIN versions'[p]
    /\ \A v \in DOMAIN versions[p] : versions'[p][v] = versions[p][v]
    /\ Len(versions[p]) <= Len(versions'[p])

LEMMA Lengths == ASSUME Libraries PROVE \A p \in Playbooks : Len(versions[p]) \in Nat
BY SMT DEF Libraries

LEMMA NothingGrows == ASSUME Libraries, versions' = versions PROVE Grows
BY Lengths, SMT DEF Grows

-----------------------------------------------------------------------------
(* Ingestion.                                                              *)

LEMMA Reading ==
  ASSUME Libraries, NEW i \in Ingestors
  PROVE  /\ ingestor[i].pc = "idle" => ingestor[i] = Resting
         /\ ingestor[i].pc = "hashed" => ingestor[i] \in Hashed
         /\ ingestor[i].pc \in {"parsed", "embedding"} => ingestor[i] \in Parsed
         /\ ingestor[i].pc \in {"idle", "hashed", "parsed", "embedding"}
<1>1. ingestor[i] \in {Resting} \cup Hashed \cup Parsed
  BY DEF Libraries
<1> QED BY <1>1, SMT DEF Resting, Hashed, Parsed

LEMMA Reads ==
  ASSUME Libraries, NEW i \in Ingestors, NEW r \in {Resting} \cup Hashed \cup Parsed,
         ingestor' = [ingestor EXCEPT ![i] = r],
         UNCHANGED <<disk, document, versions>>
  PROVE  Libraries'
<1>1. ingestor' \in [Ingestors -> {Resting} \cup Hashed \cup Parsed]
  BY FunctionUpdate, Zenon DEF Libraries
<1> QED BY <1>1 DEF Libraries

LEMMA HashKept ==
  ASSUME Libraries, NEW i \in Ingestors, NEW p \in Playbooks, NEW m \in Models,
         ReadChecksum(i, p, m)
  PROVE  Libraries'
<1> DEFINE r == [pc |-> "hashed", playbook |-> p, model |-> m, checksum |-> disk[p]]
<1>1. r \in Hashed
  BY SMT DEF Libraries, Hashed
<1>2. ingestor' = [ingestor EXCEPT ![i] = r] /\ UNCHANGED <<disk, document, versions>>
  BY DEF ReadChecksum
<1> HIDE DEF r
<1> QED BY <1>1, <1>2, Reads

LEMMA SectionsKept ==
  ASSUME Libraries, NEW i \in Ingestors, ReadSections(i) PROVE Libraries'
<1> DEFINE old == ingestor[i]
           text == disk[old.playbook]
           r == [pc |-> "parsed", playbook |-> old.playbook, model |-> old.model,
                 checksum |-> old.checksum, parsed |-> text]
<1>1. old \in Hashed /\ UNCHANGED <<disk, document, versions>>
  BY Reading DEF ReadSections
<1>2. text \in Texts
  BY <1>1, SMT DEF Libraries, Hashed
<1>3. CASE Sections[text] = {} /\ ingestor' = [ingestor EXCEPT ![i] = Resting]
  BY <1>1, <1>3, Reads
<1>4. CASE Sections[text] # {} /\ ingestor' = [ingestor EXCEPT ![i] = r]
  <2>1. r \in Parsed
    BY <1>1, <1>2, <1>4, SMT DEF Hashed, Parsed
  <2> HIDE DEF r
  <2> QED BY <1>1, <1>4, <2>1, Reads
<1> QED BY <1>3, <1>4 DEF ReadSections

LEMMA CheckKept ==
  ASSUME Libraries, NEW i \in Ingestors, CheckExisting(i)
  PROVE  Libraries' /\ versions' = versions
<1> DEFINE old == ingestor[i]
           p == old.playbook
<1>1. old \in Parsed /\ p \in Playbooks /\ UNCHANGED <<disk, versions>>
  BY Reading, SMT DEF CheckExisting, Parsed
<1>2. CASE /\ Known(p, old.checksum, old.model)
           /\ document' = [document EXCEPT ![p] = Restored(p)]
           /\ ingestor' = [ingestor EXCEPT ![i] = Resting]
  <2>1. versions[p] # <<>>
    BY <1>2, SMT DEF Known
  <2>2. document[p] \in {"active", "archived"}
    BY <1>1, <2>1 DEF Libraries
  <2>3. Restored(p) = "active"
    BY <2>2 DEF Restored
  <2> DEFINE new == Restored(p)
  <2>4. new \in {"none", "active", "archived"} /\ new # "none"
    BY <2>3
  <2>5. document' = [document EXCEPT ![p] = new]
    BY <1>2
  <2> HIDE DEF new
  <2>6. document' \in [Playbooks -> {"none", "active", "archived"}]
    BY <2>4, <2>5, FunctionUpdate, Zenon DEF Libraries
  <2>7. \A q \in Playbooks : document'[q] = "none" <=> versions[q] = <<>>
    BY <1>1, <2>1, <2>4, <2>5 DEF Libraries
  <2>8. ingestor' \in [Ingestors -> {Resting} \cup Hashed \cup Parsed]
    BY <1>2 DEF Libraries
  <2> QED BY <1>1, <2>6, <2>7, <2>8 DEF Libraries
<1>3. CASE /\ ingestor' = [ingestor EXCEPT ![i].pc = "embedding"]
           /\ UNCHANGED document
  <2> DEFINE r == [old EXCEPT !.pc = "embedding"]
  <2>1. r \in Parsed
    BY <1>1, SMT DEF Parsed
  <2>2. ingestor' = [ingestor EXCEPT ![i] = r]
    BY <1>3
  <2> HIDE DEF r
  <2> QED BY <1>1, <1>3, <2>1, <2>2, Reads
<1> QED BY <1>1, <1>2, <1>3 DEF CheckExisting

LEMMA WriteKept ==
  ASSUME Libraries, NEW i \in Ingestors, WriteVersion(i)
  PROVE  Libraries' /\ Grows
<1> DEFINE old == ingestor[i]
           p == old.playbook
           new == [checksum |-> old.checksum, model |-> old.model,
                   parsed |-> old.parsed]
<1>1. /\ old \in Parsed /\ p \in Playbooks /\ UNCHANGED disk
      /\ new \in Version /\ Sections[new.parsed] # {}
      /\ new.checksum = old.checksum /\ new.model = old.model
  <2>1. old \in Parsed /\ UNCHANGED disk
    BY Reading DEF WriteVersion
  <2> QED BY <2>1, SMT DEF Parsed, Version
<1>2. document' = [document EXCEPT ![p] = "active"]
      /\ ingestor' = [ingestor EXCEPT ![i] = Resting]
  BY DEF WriteVersion
<1>3. /\ document' \in [Playbooks -> {"none", "active", "archived"}]
      /\ ingestor' \in [Ingestors -> {Resting} \cup Hashed \cup Parsed]
      /\ document'[p] = "active"
      /\ \A q \in Playbooks \ {p} : document'[q] = document[q]
  BY <1>1, <1>2 DEF Libraries
<1>4. CASE Known(p, old.checksum, old.model) /\ versions' = versions
  <2>1. versions[p] # <<>>
    BY <1>4, SMT DEF Known
  <2> QED BY <1>1, <1>3, <1>4, <2>1, NothingGrows DEF Libraries
<1>5. CASE /\ ~Known(p, old.checksum, old.model)
           /\ Len(versions[p]) < MaxVersions
           /\ versions' = [versions EXCEPT ![p] = Append(@, new)]
  <2> HIDE DEF new
  <2> DEFINE list == Append(versions[p], new)
  <2>1. Versioned(versions[p])
    BY <1>1 DEF Libraries
  <2>2. /\ Versioned(list) /\ list # <<>>
        /\ DOMAIN versions[p] \subseteq DOMAIN list
        /\ \A v \in DOMAIN versions[p] : list[v] = versions[p][v]
        /\ Len(versions[p]) <= Len(list)
    <3>1. \A v \in DOMAIN versions[p] :
            ~(versions[p][v].checksum = new.checksum
              /\ versions[p][v].model = new.model)
      BY <1>1, <1>5 DEF Known
    <3>2. /\ Versioned(versions[p]) /\ Len(versions[p]) < MaxVersions
          /\ new \in Version /\ Sections[new.parsed] # {}
      BY <1>1, <1>5, <2>1
    <3> HIDE DEF p
    <3> QED BY <3>1, <3>2, AppendVersion
  <2>3. versions' = [versions EXCEPT ![p] = list]
    BY <1>5
  <2> HIDE DEF list
  <2>4. /\ versions' \in [Playbooks -> Seq(Version)] /\ versions'[p] = list
        /\ \A q \in Playbooks \ {p} : versions'[q] = versions[q]
    <3>1. list \in Seq(Version) /\ versions \in [Playbooks -> Seq(Version)]
      BY <2>2 DEF Versioned, Libraries
    <3> QED BY <1>1, <2>3, <3>1, Zenon
  <2>5. Libraries'
    BY <1>1, <1>3, <2>2, <2>4 DEF Libraries
  <2>6. Grows
    BY <1>1, <2>2, <2>4, Lengths, SMT DEF Grows
  <2> QED BY <2>5, <2>6
<1> QED BY <1>4, <1>5 DEF WriteVersion

LEMMA ArchiveKept ==
  ASSUME Libraries, NEW p \in Playbooks, Archive(p) PROVE Libraries'
<1>1. document[p] = "active" /\ document' = [document EXCEPT ![p] = "archived"]
      /\ UNCHANGED <<disk, versions, ingestor>>
  BY DEF Archive
<1>2. document' \in [Playbooks -> {"none", "active", "archived"}]
      /\ document'[p] = "archived"
      /\ \A q \in Playbooks \ {p} : document'[q] = document[q]
  BY <1>1 DEF Libraries
<1> QED BY <1>1, <1>2 DEF Libraries

LEMMA LibrariesKept ==
  ASSUME Libraries, [Next]_vars PROVE Libraries' /\ Grows
<1>1. CASE UNCHANGED <<disk, document, versions, ingestor>>
  BY <1>1, NothingGrows DEF Libraries
<1>2. ASSUME NEW p \in Playbooks, Edit(p) PROVE Libraries' /\ versions' = versions
  BY <1>2 DEF Edit, Libraries
<1>3. ASSUME NEW i \in Ingestors, IngestionFails(i)
      PROVE  Libraries' /\ versions' = versions
  BY <1>3, Reads DEF IngestionFails
<1>4. ASSUME NEW i \in Ingestors, NEW p \in Playbooks, NEW m \in Models,
             ReadChecksum(i, p, m)
      PROVE  Libraries' /\ versions' = versions
  BY <1>4, HashKept DEF ReadChecksum
<1>5. ASSUME NEW i \in Ingestors, ReadSections(i)
      PROVE  Libraries' /\ versions' = versions
  BY <1>5, SectionsKept DEF ReadSections
<1>6. ASSUME NEW p \in Playbooks, Archive(p) PROVE Libraries' /\ versions' = versions
  BY <1>6, ArchiveKept DEF Archive
<1>7. CASE BeginSearch \/ SemanticSearch \/ LexicalSearch \/ Answered
  BY <1>1, <1>7 DEF BeginSearch, SemanticSearch, LexicalSearch, Answered, vars
<1>8. CASE UNCHANGED vars
  BY <1>1, <1>8 DEF vars
<1> QED BY <1>2, <1>3, <1>4, <1>5, <1>6, <1>7, <1>8, CheckKept, WriteKept,
           NothingGrows DEF Next, Operate

-----------------------------------------------------------------------------
(* Search.                                                                 *)

LEMMA StaysFresh ==
  ASSUME Grows, NEW c, NEW since, Fresh(c, since)
  PROVE  Fresh(c, since)'
BY DEF Grows, Fresh

LEMMA ServedIsFresh ==
  ASSUME Libraries, Searching, search.pc # "idle", NEW c \in Served
  PROVE  Fresh(c, search.since)
<1>1. /\ c[1] \in Playbooks /\ c[2] = Len(versions[c[1]])
      /\ c[3] \in Sections[versions[c[1]][c[2]].parsed] /\ c[2] \in 1..MaxVersions
  BY OneServed DEF Latest
<1>2. versions[c[1]] \in Seq(Version)
  BY <1>1 DEF Libraries
<1>3. c[2] \in DOMAIN versions[c[1]]
  BY <1>1, <1>2, SMT
<1>4. search.since[c[1]] <= c[2]
  BY <1>1 DEF Searching
<1> QED BY <1>1, <1>3, <1>4 DEF Fresh

LEMMA OthersKeepSearching ==
  ASSUME IInv, Grows, Libraries', search' = search PROVE Searching'
<1>1. \A p \in Playbooks : search.since[p] \in Nat
        /\ search.since[p] <= Len(versions[p]) =>
        search.since[p] <= Len(versions'[p])
  <2>1. \A p \in Playbooks : Len(versions[p]) \in Nat /\ Len(versions'[p]) \in Nat
    BY SMT DEF IInv, Libraries
  <2> QED BY <2>1, SMT DEF Grows
<1>2. \A c, since : Fresh(c, since) => Fresh(c, since)'
  BY StaysFresh
<1> QED BY <1>1, <1>2 DEF IInv, Searching

LEMMA BeginKeeps == ASSUME IInv, BeginSearch PROVE Searching'
<1>1. /\ search' = [pc |-> "semantic", since |-> [p \in Playbooks |-> Latest(p)]]
      /\ versions' = versions
  BY DEF BeginSearch
<1>2. search'.pc = "semantic" /\ \A p \in Playbooks : search'.since[p] = Len(versions[p])
  BY <1>1 DEF Latest
<1>3. \A p \in Playbooks : Len(versions[p]) \in Nat
  BY Lengths DEF IInv
<1> QED BY <1>1, <1>2, <1>3, SMT DEF Searching

LEMMA SemanticKeeps == ASSUME IInv, SemanticSearch PROVE Searching'
<1>1. PICK ranked :
        /\ Range(ranked) \subseteq Served
        /\ search' = [pc |-> "lexical", since |-> search.since, semantic |-> ranked]
  BY DEF SemanticSearch, Range
<1>2. versions' = versions /\ search.pc = "semantic"
  BY DEF SemanticSearch
<1>3. /\ search'.pc = "lexical" /\ search'.since = search.since
      /\ search'.semantic = ranked
  BY <1>1
<1>4. \A c \in Range(ranked) : Fresh(c, search.since)
  BY <1>1, <1>2, ServedIsFresh DEF IInv
<1> QED BY <1>2, <1>3, <1>4 DEF IInv, Searching, Fresh

LEMMA LexicalKeeps == ASSUME IInv, LexicalSearch PROVE Searching'
<1>0. PICK lexical \in SetToAllKPermutations(Served), weight \in Weights :
        \E answer \in Fusions(search.semantic, lexical, weight) :
          search' = [pc |-> "answered", since |-> search.since,
                     semantic |-> search.semantic, lexical |-> lexical,
                     weight |-> weight, answer |-> answer]
  BY DEF LexicalSearch
<1>1. PICK answer \in Fusions(search.semantic, lexical, weight) :
        search' = [pc |-> "answered", since |-> search.since,
                   semantic |-> search.semantic, lexical |-> lexical,
                   weight |-> weight, answer |-> answer]
  BY <1>0
<1>2. versions' = versions /\ search.pc = "lexical"
  BY DEF LexicalSearch
<1>3. /\ search'.pc = "answered" /\ search'.since = search.since
      /\ search'.answer = answer
  BY <1>1
<1>4. Range(answer) \subseteq Range(search.semantic) \cup Served
  BY <1>1, Permuted, Fused
<1>5. \A c \in Range(answer) : Fresh(c, search.since)
  BY <1>2, <1>4, ServedIsFresh DEF IInv, Searching
<1> QED BY <1>2, <1>3, <1>5 DEF IInv, Searching, Fresh

LEMMA NextIInv == IInv /\ [Next]_vars => IInv'
<1> SUFFICES ASSUME IInv, [Next]_vars PROVE IInv'
  OBVIOUS
<1>1. Libraries' /\ Grows
  BY LibrariesKept DEF IInv
<1>2. CASE search' = search
  BY <1>1, <1>2, OthersKeepSearching DEF IInv
<1>3. CASE BeginSearch \/ SemanticSearch \/ LexicalSearch
  BY <1>1, <1>3, BeginKeeps, SemanticKeeps, LexicalKeeps DEF IInv
<1> QED BY <1>2, <1>3 DEF Next, Operate, Edit, Archive, ReadChecksum,
           ReadSections, CheckExisting, WriteVersion, IngestionFails, Answered, vars

LEMMA InitIInv == Init => IInv
<1> SUFFICES ASSUME Init PROVE IInv
  OBVIOUS
<1>1. Versioned(<<>>)
  BY LimitsAssumption, SMT DEF Versioned, Unique, LimitsAssumption
<1>2. Libraries
  BY <1>1 DEF Init, Libraries, Versioned
<1>3. Searching
  BY DEF Init, Searching, Resting
<1> QED BY <1>2, <1>3 DEF IInv

LEMMA Invariance == Spec => []IInv
BY InitIInv, NextIInv, PTL DEF Spec

\* Types, and the UNIQUE constraint of migration 002: however many processes
\* embed a text at once, one version of it is added for a model.
THEOREM TypeCorrect == Spec => []TypeOK
<1>1. IInv => TypeOK
  <2> SUFFICES ASSUME IInv PROVE TypeOK
    OBVIOUS
  <2>1. \A i \in Ingestors : ingestor[i].pc \in
          {"idle", "hashed", "parsed", "embedding"}
    BY Reading DEF IInv
  <2> QED BY <2>1 DEF IInv, Libraries, Searching, Versioned, Unique, TypeOK
<1> QED BY <1>1, Invariance, PTL

\* An answer is no older than its search, although the two searches read the
\* database at different times and ingestions go on between them.
THEOREM AnswersAreFresh == Spec => []EvidenceIsFresh
<1>1. IInv => EvidenceIsFresh
  <2> SUFFICES ASSUME IInv, search.pc = "answered",
                      NEW c \in Range(search.answer), NEW d \in Range(search.answer)
               PROVE  /\ c[2] \in (search.since[c[1]])..Latest(c[1])
                      /\ c[3] \in Sections[versions[c[1]][c[2]].parsed]
                      /\ c[1] = d[1] /\ c[2] < d[2] => d[2] > search.since[d[1]]
    BY DEF EvidenceIsFresh
  <2>1. Fresh(c, search.since) /\ Fresh(d, search.since)
    BY DEF IInv, Searching
  <2>2. /\ versions[c[1]] \in Seq(Version) /\ versions[d[1]] \in Seq(Version)
        /\ search.since[c[1]] \in Nat /\ search.since[d[1]] \in Nat
    BY <2>1 DEF Fresh, IInv, Libraries, Searching
  <2>3. c[2] \in 1..Len(versions[c[1]]) /\ d[2] \in 1..Len(versions[d[1]])
        /\ Len(versions[c[1]]) \in Nat /\ Len(versions[d[1]]) \in Nat
    BY <2>1, <2>2, SMTT(30) DEF Fresh
  <2>4. search.since[c[1]] <= c[2] /\ search.since[d[1]] <= d[2]
    BY <2>1 DEF Fresh
  <2>5. c[2] \in (search.since[c[1]])..Latest(c[1])
    BY <2>2, <2>3, <2>4, SMT DEF Latest
  <2>6. c[1] = d[1] /\ c[2] < d[2] => d[2] > search.since[d[1]]
    BY <2>2, <2>3, <2>4, SMT
  <2> QED BY <2>1, <2>5, <2>6 DEF Fresh
<1> QED BY <1>1, Invariance, PTL
-----------------------------------------------------------------------------
(* Ranks and scores.  Every divisor of a score divides the common          *)
(* denominator, so that a better rank contributes strictly more.           *)

LEMMA Multiples ==
  /\ Multiple \in [0..CandidateK -> Nat]
  /\ \A k \in 0..CandidateK :
       Multiple[k] = IF k = 0 THEN 1 ELSE (RrfK + k) * Multiple[k - 1]
<1>1. CandidateK \in Nat /\ RrfK \in Nat
  BY LimitsAssumption
<1> DEFINE a == [k \in 1..CandidateK |-> RrfK + k]
<1>2. a \in [1..CandidateK -> Nat]
  BY <1>1
<1>3. PICK f \in [0..CandidateK -> Nat] :
        f = [k \in 0..CandidateK |-> IF k = 0 THEN 1 ELSE a[k] * f[k - 1]]
  <2> HIDE DEF a
  <2> QED BY <1>1, <1>2, Products
<1>4. f = [k \in 0..CandidateK |-> IF k = 0 THEN 1 ELSE (RrfK + k) * f[k - 1]]
  <2>1. \A k \in 0..CandidateK : k # 0 => a[k] = RrfK + k
    BY <1>1
  <2> HIDE DEF a
  <2> QED BY <1>3, <2>1
<1>5. Multiple =
        [k \in 0..CandidateK |-> IF k = 0 THEN 1
                                 ELSE (RrfK + k) * Multiple[k - 1]]
  BY <1>4, Zenon DEF Multiple
<1>6. Multiple \in [0..CandidateK -> Nat]
  <2> DEFINE T == {n \in 0..CandidateK : Multiple[n] \in Nat}
  <2>1. 0 \in T
    BY <1>1, <1>5
  <2>2. ASSUME NEW n \in 0..(CandidateK - 1), n \in T
        PROVE  n + 1 \in T
    <3>1. n + 1 \in 0..CandidateK /\ n + 1 # 0 /\ (n + 1) - 1 = n
      BY <1>1
    <3>2. Multiple[n + 1] = (RrfK + (n + 1)) * Multiple[n]
      BY <1>5, <3>1
    <3>3. Multiple[n] \in Nat /\ RrfK + (n + 1) \in Nat
      BY <1>1, <2>2
    <3> QED BY <3>1, <3>2, <3>3
  <2> HIDE DEF T
  <2>3. 0..CandidateK \subseteq T
    BY <1>1, <2>1, <2>2, InductionUpTo
  <2>4. \A n \in 0..CandidateK : Multiple[n] \in Nat
    BY <2>3 DEF T
  <2> QED BY <1>5, <2>4
<1> QED BY <1>5, <1>6

LEMMA Divides ==
  \A k \in 1..CandidateK :
    \E q \in Nat : q > 0 /\ Denominator = (RrfK + k) * q
<1>1. CandidateK \in Nat /\ RrfK \in Nat
  BY LimitsAssumption
<1> DEFINE Divided(n) == \A k \in 1..n :
             \E q \in Nat : q > 0 /\ Multiple[n] = (RrfK + k) * q
           T == {n \in 0..CandidateK : Multiple[n] > 0 /\ Divided(n)}
<1>2. 0 \in T
  <2>1. Multiple[0] = 1
    BY <1>1, Multiples
  <2>2. 1..0 = {}
    OBVIOUS
  <2> QED BY <1>1, <2>1, <2>2
<1>3. ASSUME NEW n \in 0..(CandidateK - 1), n \in T
      PROVE  n + 1 \in T
  <2> DEFINE m == Multiple[n]
             b == RrfK + (n + 1)
  <2>1. n \in Nat /\ n \in 0..CandidateK /\ n + 1 \in 0..CandidateK
        /\ n + 1 # 0 /\ (n + 1) - 1 = n
    BY <1>1
  <2>2. m \in Nat /\ m > 0 /\ b \in Nat /\ b > 0
    BY <1>1, <1>3, <2>1, Multiples
  <2>3. Multiple[n + 1] = b * m
    BY <2>1, Multiples
  <2>4. b * m > 0
    <3> HIDE DEF b, m
    <3> QED BY <2>2
  <2>5. ASSUME NEW k \in 1..(n + 1)
        PROVE  \E q \in Nat : q > 0 /\ b * m = (RrfK + k) * q
    <3>1. CASE k = n + 1
      BY <2>2, <3>1
    <3>2. CASE k # n + 1
      <4>1. k \in 1..n
        BY <2>1, <3>2
      <4>2. PICK q \in Nat : q > 0 /\ m = (RrfK + k) * q
        BY <1>3, <4>1
      <4>3. b * q \in Nat /\ b * q > 0
        <5> HIDE DEF b, m
        <5> QED BY <2>2, <4>2
      <4>4. b * m = (RrfK + k) * (b * q)
        <5>1. PICK c \in Nat : c = RrfK + k
          BY <1>1, <4>1
        <5>2. m = c * q
          BY <4>2, <5>1
        <5> HIDE DEF b, m
        <5>3. b * (c * q) = c * (b * q)
          BY <2>2, <5>1
        <5> QED BY <5>1, <5>2, <5>3
      <4> QED BY <4>3, <4>4
    <3> QED BY <3>1, <3>2
  <2> QED BY <2>1, <2>3, <2>4, <2>5
<1> HIDE DEF T
<1>4. 0..CandidateK \subseteq T
  BY <1>1, <1>2, <1>3, InductionUpTo
<1>5. CandidateK \in T
  BY <1>1, <1>4
<1> QED BY <1>5 DEF T, Denominator

LEMMA Quotient ==
  ASSUME NEW b \in Nat, b > 0, NEW q \in Nat
  PROVE  (b * q) \div b = q
BY SMT

\* A better rank contributes more, and any rank something.
LEMMA Shares ==
  /\ Share(0) = 0
  /\ \A k \in 0..CandidateK : Share(k) \in Nat
  /\ \A k \in 1..CandidateK : Share(k) > 0
  /\ \A j, k \in 1..CandidateK : j < k => Share(j) > Share(k)
<1>1. CandidateK \in Nat /\ RrfK \in Nat
  BY LimitsAssumption
<1>2. Share(0) = 0
  BY DEF Share
<1>3. ASSUME NEW k \in 1..CandidateK
      PROVE  /\ Share(k) \in Nat /\ Share(k) > 0
             /\ Denominator = (RrfK + k) * Share(k)
  <2>1. PICK q \in Nat : q > 0 /\ Denominator = (RrfK + k) * q
    BY Divides
  <2>2. PICK b \in Nat : b = RrfK + k /\ b > 0
    BY <1>1
  <2>3. (b * q) \div b = q
    BY <2>2, Quotient
  <2>4. Share(k) = q
    BY <1>1, <2>1, <2>2, <2>3 DEF Share
  <2> QED BY <2>1, <2>4
<1>4. ASSUME NEW j \in 1..CandidateK, NEW k \in 1..CandidateK, j < k
      PROVE  Share(j) > Share(k)
  <2>1. PICK p \in Nat, q \in Nat :
          p = Share(j) /\ q = Share(k) /\ p > 0 /\ q > 0
    BY <1>3
  <2>2. PICK b \in Nat, c \in Nat :
          b = RrfK + j /\ c = RrfK + k /\ b > 0 /\ b < c
    BY <1>1, <1>4
  <2>3. b * p = c * q
    BY <1>3, <2>1, <2>2
  <2>4. b * q < c * q
    BY <2>1, <2>2
  <2>5. p <= q => b * p <= b * q
    BY <2>1, <2>2
  <2>6. ~(p <= q)
    <3>1. b * p \in Nat /\ b * q \in Nat /\ c * q \in Nat
      BY <2>1, <2>2
    <3> QED BY <2>3, <2>4, <2>5, <3>1
  <2> QED BY <2>1, <2>6
<1> QED BY <1>1, <1>2, <1>3, <1>4

\* A ranking of chunks, of which at most CandidateK are taken.
Ranking(list) == \E n \in 0..CandidateK : DOMAIN list = 1..n

LEMMA Ranks ==
  ASSUME NEW list, Ranking(list), NEW c
  PROVE  /\ Rank(list, c) \in 0..CandidateK
         /\ Rank(list, c) # 0 <=> c \in Range(list)
<1>1. CandidateK \in Nat
  BY LimitsAssumption
<1>2. CASE c \notin Range(list)
  BY <1>1, <1>2 DEF Rank
<1>3. CASE c \in Range(list)
  <2>1. PICK n \in 0..CandidateK : DOMAIN list = 1..n
    BY DEF Ranking
  <2> DEFINE T == {k \in 1..n : list[k] = c}
  <2>2. T \in SUBSET Nat /\ T # {}
    BY <1>3, <2>1 DEF Range
  <2>3. PICK k \in T : \A j \in T : k <= j
    <3> HIDE DEF T
    <3> QED BY <2>2, LeastNat
  <2>4. k \in DOMAIN list /\ list[k] = c /\ \A j \in 1..(k - 1) : list[j] # c
    BY <2>1, <2>3
  <2> DEFINE First(m) == list[m] = c /\ \A j \in 1..(m - 1) : list[j] # c
  <2>5. \E m \in DOMAIN list : First(m)
    BY <2>4
  <2>6. Rank(list, c) = CHOOSE m \in DOMAIN list : First(m)
    BY <1>3 DEF Rank
  <2> HIDE DEF First
  <2>7. Rank(list, c) \in 1..n
    BY <2>1, <2>5, <2>6
  <2> QED BY <1>1, <1>3, <2>1, <2>7
<1> QED BY <1>2, <1>3

LEMMA Finite ==
  ASSUME NEW list, Ranking(list)
  PROVE  IsFiniteSet(Range(list))
<1>1. PICK n \in Nat : DOMAIN list = 1..n
  BY LimitsAssumption DEF Ranking
<1> DEFINE f == [k \in 1..n |-> list[k]]
<1>2. f \in [1..n -> Range(list)] /\ \A c \in Range(list) : \E k \in 1..n : f[k] = c
  BY <1>1 DEF Range
<1>3. f \in Surjection(1..n, Range(list))
  <2> HIDE DEF f
  <2> QED BY <1>2, Fun_IsSurj
<1>4. IsFiniteSet(1..n)
  BY FS_Interval
<1> QED BY <1>3, <1>4, FS_Surjection

LEMMA Larger ==
  ASSUME NEW w \in Nat, NEW a \in Nat, NEW b \in Nat
  PROVE  /\ w * a \in Nat
         /\ a >= b => w * a >= w * b
         /\ w > 0 /\ a > b => w * a > w * b
         /\ w * a > 0 <=> w > 0 /\ a > 0
<1>1. w * a \in Nat /\ w * b \in Nat
  OBVIOUS
<1>2. w > 0 /\ a > 0 => w * a > 0
  OBVIOUS
<1>3. w = 0 \/ a = 0 => w * a = 0
  OBVIOUS
<1>4. a >= b => w * a >= w * b
  <2> SUFFICES ASSUME a >= b PROVE w * a >= w * b
    OBVIOUS
  <2>1. PICK d \in Nat : a = b + d
    <3>1. a - b \in Nat /\ a = b + (a - b)
      OBVIOUS
    <3> QED BY <3>1
  <2>2. w * a = w * b + w * d /\ w * d \in Nat
    BY <2>1
  <2> QED BY <1>1, <2>2
<1>5. w > 0 /\ a > b => w * a > w * b
  <2> SUFFICES ASSUME w > 0, a > b PROVE w * a > w * b
    OBVIOUS
  <2>1. PICK d \in Nat : a = b + d /\ d > 0
    <3>1. a - b \in Nat /\ a = b + (a - b) /\ a - b > 0
      OBVIOUS
    <3> QED BY <3>1
  <2>2. w * a = w * b + w * d /\ w * d \in Nat /\ w * d > 0
    BY <2>1
  <2> QED BY <1>1, <2>2
<1> QED BY <1>1, <1>2, <1>3, <1>4, <1>5

\* Whether a chunk comes before another in one list.
Ahead(list, c, d) ==
  Rank(list, c) # 0 /\ (Rank(list, d) = 0 \/ Rank(list, c) < Rank(list, d))

LEMMA AheadShares ==
  ASSUME NEW list, Ranking(list), NEW c, NEW d
  PROVE  /\ Share(Rank(list, c)) \in Nat
         /\ Share(Rank(list, c)) > 0 <=> c \in Range(list)
         /\ Ahead(list, c, d) => Share(Rank(list, c)) > Share(Rank(list, d))
<1> DEFINE j == Rank(list, c)
           k == Rank(list, d)
<1>1. j \in 0..CandidateK /\ k \in 0..CandidateK /\ (j # 0 <=> c \in Range(list))
  BY Ranks
<1>2. Ahead(list, c, d) => j # 0 /\ (k = 0 \/ j < k)
  BY DEF Ahead
<1> HIDE DEF j, k
<1>3. CandidateK \in Nat
  BY LimitsAssumption
<1>4. j # 0 => j \in 1..CandidateK
  BY <1>1, <1>3
<1>5. k # 0 => k \in 1..CandidateK
  BY <1>1, <1>3
<1>6. Share(j) \in Nat /\ Share(k) \in Nat
  BY <1>1, Shares
<1>7. Share(j) > 0 <=> j # 0
  BY <1>4, <1>6, Shares
<1>8. j # 0 /\ (k = 0 \/ j < k) => Share(j) > Share(k)
  BY <1>4, <1>5, <1>6, <1>7, Shares
<1> QED BY <1>1, <1>2, <1>6, <1>7, <1>8 DEF j, k

LEMMA Scores ==
  ASSUME NEW semantic, NEW lexical, Ranking(semantic), Ranking(lexical),
         NEW weight \in Weights, NEW c
  PROVE  /\ SortKey(c, semantic, lexical, weight).score \in Nat
         /\ SortKey(c, semantic, lexical, weight).score > 0 <=>
              \/ weight[1] > 0 /\ c \in Range(semantic)
              \/ weight[2] > 0 /\ c \in Range(lexical)
<1> DEFINE a == Share(Rank(semantic, c))
           b == Share(Rank(lexical, c))
<1>1. weight[1] \in Nat /\ weight[2] \in Nat
  BY LimitsAssumption
<1>2. /\ a \in Nat /\ b \in Nat
      /\ a > 0 <=> c \in Range(semantic)
      /\ b > 0 <=> c \in Range(lexical)
  BY AheadShares
<1>3. SortKey(c, semantic, lexical, weight).score = weight[1] * a + weight[2] * b
  BY DEF SortKey
<1> HIDE DEF a, b
<1>4. /\ weight[1] * a \in Nat /\ weight[2] * b \in Nat
      /\ weight[1] * a > 0 <=> weight[1] > 0 /\ a > 0
      /\ weight[2] * b > 0 <=> weight[2] > 0 /\ b > 0
  BY <1>1, <1>2, Larger
<1>5. weight[1] * a + weight[2] * b \in Nat
  BY <1>4
<1>6. weight[1] * a + weight[2] * b > 0 <=>
        weight[1] * a > 0 \/ weight[2] * b > 0
  BY <1>4
<1> QED BY <1>2, <1>3, <1>4, <1>5, <1>6

\* Dominates, for lists and weights that are given.
Beats(c, d, semantic, lexical, weight) ==
  /\ weight[1] > 0 => \/ Ahead(semantic, c, d)
                      \/ Rank(semantic, c) = Rank(semantic, d)
  /\ weight[2] > 0 => \/ Ahead(lexical, c, d)
                      \/ Rank(lexical, c) = Rank(lexical, d)
  /\ \/ weight[1] > 0 /\ Ahead(semantic, c, d)
     \/ weight[2] > 0 /\ Ahead(lexical, c, d)

LEMMA BeatsScore ==
  ASSUME NEW semantic, NEW lexical, Ranking(semantic), Ranking(lexical),
         NEW weight \in Weights, NEW c, NEW d,
         Beats(c, d, semantic, lexical, weight)
  PROVE  Precedes(SortKey(c, semantic, lexical, weight),
                  SortKey(d, semantic, lexical, weight))
<1> DEFINE a == Share(Rank(semantic, c))
           b == Share(Rank(lexical, c))
           x == Share(Rank(semantic, d))
           y == Share(Rank(lexical, d))
<1>1. PICK v \in Nat, w \in Nat : v = weight[1] /\ w = weight[2]
  BY LimitsAssumption
<1>2. /\ a \in Nat /\ b \in Nat /\ x \in Nat /\ y \in Nat
      /\ Ahead(semantic, c, d) => a > x
      /\ Ahead(lexical, c, d) => b > y
  BY AheadShares
<1>3. /\ v > 0 => a >= x
      /\ w > 0 => b >= y
      /\ (v > 0 /\ a > x) \/ (w > 0 /\ b > y)
  <2>1. /\ Rank(semantic, c) = Rank(semantic, d) => a = x
        /\ Rank(lexical, c) = Rank(lexical, d) => b = y
    OBVIOUS
  <2> HIDE DEF a, b, x, y
  <2> QED BY <1>1, <1>2, <2>1 DEF Beats
<1>4. /\ SortKey(c, semantic, lexical, weight).score = v * a + w * b
      /\ SortKey(d, semantic, lexical, weight).score = v * x + w * y
  BY <1>1 DEF SortKey
<1> HIDE DEF a, b, x, y
<1>5. /\ v * a \in Nat /\ v * x \in Nat /\ w * b \in Nat /\ w * y \in Nat
      /\ v * a >= v * x /\ w * b >= w * y
  <2>1. CASE v = 0
    <3>1. v * a = 0 /\ v * x = 0
      BY <1>2, <2>1
    <3> QED BY <1>2, <1>3, <3>1, Larger
  <2>2. CASE w = 0
    <3>1. w * b = 0 /\ w * y = 0
      BY <1>2, <2>2
    <3> QED BY <1>2, <1>3, <3>1, Larger
  <2>3. CASE v > 0 /\ w > 0
    BY <1>2, <1>3, <2>3, Larger
  <2> QED BY <2>1, <2>2, <2>3
<1>6. v * a > v * x \/ w * b > w * y
  BY <1>2, <1>3, Larger
<1>7. v * a + w * b > v * x + w * y
  BY <1>5, <1>6
<1> QED BY <1>4, <1>7 DEF Precedes

\* The chunks that some list of a positive weight ranks.
Counted(semantic, lexical, weight) ==
  (IF weight[1] > 0 THEN Range(semantic) ELSE {})
    \cup (IF weight[2] > 0 THEN Range(lexical) ELSE {})

InOrder(f, semantic, lexical, weight) ==
  /\ IsInjective(f) /\ Range(f) \subseteq Counted(semantic, lexical, weight)
  /\ Len(f) = Smaller(TopK, Cardinality(Counted(semantic, lexical, weight)))
  /\ \A j \in DOMAIN f, c \in Counted(semantic, lexical, weight) :
       Beats(c, f[j], semantic, lexical, weight)
         => \E k \in 1..(j - 1) : f[k] = c

\* What an answer of the fusion is, for rankings of any length.
LEMMA FusedInOrder ==
  ASSUME NEW semantic, NEW lexical, Ranking(semantic), Ranking(lexical),
         NEW weight \in Weights, NEW f \in Fusions(semantic, lexical, weight)
  PROVE  InOrder(f, semantic, lexical, weight)
<1> DEFINE counted == Counted(semantic, lexical, weight)
           Key(c) == SortKey(c, semantic, lexical, weight)
           scored == {c \in Range(semantic) \cup Range(lexical) :
                        Key(c).score > 0}
           n == Smaller(TopK, Cardinality(scored))
<1>1. scored = counted
  <2>1. \A c : Key(c).score > 0 <=>
                 \/ weight[1] > 0 /\ c \in Range(semantic)
                 \/ weight[2] > 0 /\ c \in Range(lexical)
    BY Scores
  <2> HIDE DEF Key
  <2> QED BY <2>1 DEF Counted
<1>2. IsFiniteSet(scored)
  <2>1. IsFiniteSet(Range(semantic) \cup Range(lexical))
    BY Finite, FS_Union
  <2>2. scored \in SUBSET (Range(semantic) \cup Range(lexical))
    OBVIOUS
  <2> HIDE DEF scored
  <2> QED BY <2>1, <2>2, FS_Subset
<1>3. n \in Nat
  <2>1. Cardinality(scored) \in Nat /\ TopK \in Nat
    BY <1>2, FS_CardinalityType, LimitsAssumption
  <2> HIDE DEF scored
  <2> QED BY <2>1 DEF Smaller
<1>4. /\ f \in [1..n -> scored]
      /\ IsInjective(f)
      /\ \A j, k \in DOMAIN f : Precedes(Key(f[j]), Key(f[k])) => j < k
      /\ \A c \in scored \ Range(f) :
           \A j \in DOMAIN f : ~Precedes(Key(c), Key(f[j]))
  BY DEF Fusions
<1>5. \A c, d : Beats(c, d, semantic, lexical, weight) => Precedes(Key(c), Key(d))
  BY BeatsScore
<1> HIDE DEF scored, n, Key
<1>6. DOMAIN f = 1..n
  BY <1>4
<1>7. Range(f) \subseteq scored
  BY <1>4, <1>6 DEF Range
<1>8. Len(f) = n
  <2>1. f \in Seq(scored)
    BY <1>3, <1>4
  <2>2. Len(f) \in Nat /\ DOMAIN f = 1..Len(f)
    BY <2>1, LenProperties
  <2> QED BY <1>3, <1>6, <2>2
<1>9. ASSUME NEW j \in DOMAIN f, NEW c \in scored,
             Beats(c, f[j], semantic, lexical, weight)
      PROVE  \E k \in 1..(j - 1) : f[k] = c
  <2>1. Precedes(Key(c), Key(f[j]))
    BY <1>5, <1>9
  <2>2. PICK k \in DOMAIN f : f[k] = c
    BY <1>4, <1>9, <2>1 DEF Range
  <2>3. k < j
    BY <1>4, <1>9, <2>1, <2>2
  <2>4. k \in 1..(j - 1)
    BY <1>3, <1>6, <1>9, <2>3
  <2> QED BY <2>2, <2>4
<1>10. n = Smaller(TopK, Cardinality(counted))
  BY <1>1 DEF n
<1> HIDE DEF counted
<1> QED BY <1>1, <1>4, <1>7, <1>8, <1>9, <1>10 DEF counted, InOrder

LEMMA ImageFinite ==
  ASSUME NEW A, IsFiniteSet(A), NEW g
  PROVE  IsFiniteSet({g[i] : i \in A})
<1> DEFINE T == {g[i] : i \in A}
           f == [i \in A |-> g[i]]
<1>1. f \in [A -> T] /\ \A t \in T : \E i \in A : f[i] = t
  OBVIOUS
<1> HIDE DEF f, T
<1>2. f \in Surjection(A, T)
  BY <1>1, Fun_IsSurj
<1>3. IsFiniteSet(T)
  BY <1>2, FS_Surjection
<1> QED BY <1>3 DEF T

LEMMA ServedFinite ==
  ASSUME Libraries
  PROVE  IsFiniteSet(Served)
<1> DEFINE sections(p) == Sections[versions[p][Latest(p)].parsed]
           chunks == [p \in Playbooks |->
             IF Latest(p) = 0 THEN {}
             ELSE {[x \in sections(p) |-> <<p, Latest(p), x>>][s] :
                     s \in sections(p)}]
           all == {chunks[p] : p \in Playbooks}
<1>1. ASSUME NEW p \in Playbooks
      PROVE  IsFiniteSet(chunks[p])
  <2>1. CASE Latest(p) = 0
    BY <1>1, <2>1, FS_EmptySet
  <2>2. CASE Latest(p) # 0
    <3>1. /\ versions[p] \in Seq(Version) /\ Latest(p) = Len(versions[p])
          /\ Len(versions[p]) \in Nat
      BY LenProperties DEF Libraries, Latest
    <3>2. Latest(p) \in 1..Len(versions[p])
      BY <2>2, <3>1
    <3>3. versions[p][Latest(p)] \in Version
      BY <3>1, <3>2, ElementOfSeq
    <3>4. IsFiniteSet(sections(p))
      BY <3>3, VocabularyAssumption DEF Version
    <3> DEFINE g == [s \in sections(p) |-> <<p, Latest(p), s>>]
    <3>5. IsFiniteSet({g[s] : s \in sections(p)})
      <4> HIDE DEF g, sections
      <4> QED BY <3>4, ImageFinite
    <3>6. chunks[p] = {g[s] : s \in sections(p)}
      BY <1>1, <2>2
    <3> QED BY <3>5, <3>6
  <2> QED BY <2>1, <2>2
<1>2. IsFiniteSet(all)
  <2> HIDE DEF chunks
  <2> QED BY VocabularyAssumption, ImageFinite
<1>3. IsFiniteSet(UNION all)
  <2>1. \A T \in all : IsFiniteSet(T)
    <3> HIDE DEF chunks
    <3> QED BY <1>1
  <2> HIDE DEF all
  <2> QED BY <1>2, <2>1, FS_UNION
<1>4. Served \subseteq UNION all
  <2> SUFFICES ASSUME NEW c \in Served
               PROVE  c \in UNION all
    OBVIOUS
  <2>1. /\ c \in Playbooks \X (1..MaxVersions) \X UNION Range(Sections)
        /\ c[2] = Latest(c[1]) /\ c[3] \in sections(c[1])
    BY DEF Served
  <2>2. c = <<c[1], c[2], c[3]>> /\ c[1] \in Playbooks /\ c[2] \in 1..MaxVersions
    BY <2>1
  <2>3. Latest(c[1]) # 0
    BY <2>1, <2>2
  <2> DEFINE g == [s \in sections(c[1]) |-> <<c[1], Latest(c[1]), s>>]
  <2>4. c = g[c[3]]
    BY <2>1, <2>2
  <2>5. chunks[c[1]] = {g[s] : s \in sections(c[1])}
    BY <2>2, <2>3
  <2>6. c \in chunks[c[1]]
    <3> HIDE DEF g, chunks, sections
    <3> QED BY <2>1, <2>4, <2>5
  <2> HIDE DEF chunks
  <2> QED BY <2>2, <2>6
<1> HIDE DEF all
<1> QED BY <1>3, <1>4, FS_Subset

\* Both searches rank at most CandidateK chunks.
LEMMA SemanticRanks ==
  ASSUME Libraries, SemanticSearch
  PROVE  Ranking(search'.semantic) /\ search'.pc = "lexical"
<1> DEFINE eligible == {c \in Served : ModelOf(c) = SearchModel}
           n == Smaller(CandidateK, Cardinality(eligible))
<1>1. PICK ranked \in [1..n -> eligible] :
        search' = [pc |-> "lexical", since |-> search.since, semantic |-> ranked]
  BY DEF SemanticSearch
<1>2. IsFiniteSet(eligible)
  <2>1. eligible \in SUBSET Served
    OBVIOUS
  <2> HIDE DEF eligible
  <2> QED BY <2>1, ServedFinite, FS_Subset
<1>3. n \in 0..CandidateK
  <2>1. Cardinality(eligible) \in Nat /\ CandidateK \in Nat
    BY <1>2, FS_CardinalityType, LimitsAssumption
  <2> HIDE DEF eligible
  <2> QED BY <2>1 DEF Smaller
<1> HIDE DEF n, eligible
<1>4. search'.semantic = ranked /\ DOMAIN ranked = 1..n
  BY <1>1
<1> QED BY <1>1, <1>3, <1>4 DEF Ranking

LEMMA LexicalRanks ==
  ASSUME Libraries,
         NEW lexical \in SetToAllKPermutations(Served), Len(lexical) <= CandidateK
  PROVE  Ranking(lexical)
<1>1. PICK S \in SUBSET Served : lexical \in SetToSeqs(S)
  BY DEF SetToAllKPermutations
<1>2. Cardinality(S) \in Nat
  BY <1>1, ServedFinite, FS_Subset, FS_CardinalityType
<1>3. lexical \in [1..Cardinality(S) -> S]
  BY <1>1 DEF SetToSeqs
<1>4. lexical \in Seq(S)
  BY <1>2, <1>3
<1>5. DOMAIN lexical = 1..Len(lexical) /\ Len(lexical) \in Nat
  BY <1>4, LenProperties
<1>6. Len(lexical) \in 0..CandidateK
  BY <1>5, LimitsAssumption
<1> QED BY <1>5, <1>6 DEF Ranking

Ranked ==
  /\ search.pc = "lexical" => Ranking(search.semantic)
  /\ FusionRespectsRanks

LEMMA LexicalRespects ==
  ASSUME Libraries, Ranked, LexicalSearch
  PROVE  Ranked'
<1>1. PICK lexical \in SetToAllKPermutations(Served), weight \in Weights :
        /\ Len(lexical) <= CandidateK
        /\ \E answer \in Fusions(search.semantic, lexical, weight) :
             search' = [pc |-> "answered", since |-> search.since,
                        semantic |-> search.semantic, lexical |-> lexical,
                        weight |-> weight, answer |-> answer]
  BY DEF LexicalSearch
<1>2. PICK answer \in Fusions(search.semantic, lexical, weight) :
        search' = [pc |-> "answered", since |-> search.since,
                   semantic |-> search.semantic, lexical |-> lexical,
                   weight |-> weight, answer |-> answer]
  BY <1>1
<1>3. PICK semantic : semantic = search.semantic
  OBVIOUS
<1>4. Ranking(semantic) /\ Ranking(lexical)
  BY <1>1, <1>3, LexicalRanks DEF LexicalSearch, Ranked
<1>5. /\ search'.pc = "answered" /\ search'.semantic = semantic
      /\ search'.lexical = lexical /\ search'.weight = weight
      /\ search'.answer = answer
  BY <1>2, <1>3
<1>6. ASSUME NEW c, NEW d, Dominates(c, d)'
      PROVE  Beats(c, d, semantic, lexical, weight)
  BY <1>5, <1>6 DEF Dominates, Beats, Ahead
<1>7. answer \in Fusions(semantic, lexical, weight)
  BY <1>2, <1>3
<1>8. InOrder(answer, semantic, lexical, weight)
  BY <1>1, <1>4, <1>7, FusedInOrder
<1>9. FusionRespectsRanks'
  BY <1>5, <1>6, <1>8, ZenonT(60) DEF FusionRespectsRanks, InOrder, Counted
<1> QED BY <1>5, <1>9 DEF Ranked

\* Whatever the rankings, their lengths and the weights: a chunk that is ranked
\* at least as well by both lists, and better by one, as another stands before
\* it in the answer, a list of weight zero adds nothing, and the answer has
\* TopK different chunks unless fewer count.
THEOREM FusionInOrder == Spec => []FusionRespectsRanks
<1>1. Init => Ranked
  BY DEF Init, Resting, Ranked, FusionRespectsRanks
<1>2. IInv /\ Ranked /\ [Next]_vars => Ranked'
  <2> SUFFICES ASSUME IInv, Ranked, [Next]_vars
               PROVE  Ranked'
    OBVIOUS
  <2>1. CASE search' = search
    BY <2>1 DEF Ranked, FusionRespectsRanks, Dominates
  <2>2. CASE BeginSearch
    <3>1. search'.pc = "semantic"
      BY <2>2 DEF BeginSearch
    <3> QED BY <3>1 DEF Ranked, FusionRespectsRanks
  <2>3. CASE SemanticSearch
    BY <2>3, SemanticRanks DEF IInv, Ranked, FusionRespectsRanks
  <2>4. CASE LexicalSearch
    BY <2>4, LexicalRespects DEF IInv
  <2> QED BY <2>1, <2>2, <2>3, <2>4
          DEF Next, Operate, Edit, Archive, ReadChecksum, ReadSections,
              CheckExisting, WriteVersion, IngestionFails, Answered, vars
<1>3. Ranked => FusionRespectsRanks
  BY DEF Ranked
<1> QED BY <1>1, <1>2, <1>3, Invariance, PTL DEF Spec
=============================================================================
