-------------------------- MODULE PlaybookRetrieval --------------------------
(***************************************************************************)
(* Playbooks: ingest_playbook turns the file on disk into versions of a    *)
(* document, several processes at a time, and hybrid_search answers a      *)
(* query from the versions it finds latest.  An ingestion reads the file   *)
(* twice and the database in two transactions with the calls that embed    *)
(* the sections between them; a search reads the database twice, and fuses *)
(* the two rankings.                                                       *)
(*                                                                         *)
(* A text stands for a file's content and for its checksum.  Categories,   *)
(* dimensions of vectors and scores are left out: a search ranks what is   *)
(* eligible in any order.                                                  *)
(***************************************************************************)
EXTENDS Naturals, Sequences, FiniteSets, SequencesExt

CONSTANTS Playbooks,      \* filenames, each of one document
          Texts,          \* contents a file may have
          Sections,       \* Sections[t]: the non-empty H2 sections of a text
          Models,         \* embedding models that ingestions use
          SearchModel,    \* the model of a search
          Ingestors,      \* processes that run ingest_playbook
          Weights,        \* pairs of a semantic and a lexical weight
          CandidateK, TopK, RrfK,
          MaxVersions     \* bound: versions of one document

ASSUME LimitsAssumption ==
  /\ {CandidateK, TopK, RrfK} \subseteq Nat \ {0} /\ MaxVersions \in Nat
  /\ TopK <= CandidateK
  /\ Weights \subseteq (Nat \X Nat) \ {<<0, 0>>}
ASSUME VocabularyAssumption ==
  /\ DOMAIN Sections = Texts
  /\ SearchModel \in Models
  /\ IsFiniteSet(Playbooks) /\ \A t \in Texts : IsFiniteSet(Sections[t])

VARIABLES disk,       \* the file of each playbook
          document,   \* playbook_documents: "none", "active" or "archived"
          versions,   \* playbook_versions with their chunks, by number
          ingestor,   \* what each process has read
          search      \* one hybrid_search

vars == <<disk, document, versions, ingestor, search>>

Resting == [pc |-> "idle"]

Init ==
  /\ disk \in [Playbooks -> Texts]
  /\ document = [p \in Playbooks |-> "none"]
  /\ versions = [p \in Playbooks |-> <<>>]
  /\ ingestor = [i \in Ingestors |-> Resting]
  /\ search = Resting

-----------------------------------------------------------------------------
(* ingest_playbook *)

\* Someone edits the file.
Edit(p) ==
  /\ \E text \in Texts : disk' = [disk EXCEPT ![p] = text]
  /\ UNCHANGED <<document, versions, ingestor, search>>

\* compute_checksum reads the file.
ReadChecksum(i, p, model) ==
  /\ ingestor[i].pc = "idle"
  /\ ingestor' = [ingestor EXCEPT ![i] =
       [pc |-> "hashed", playbook |-> p, model |-> model,
        checksum |-> disk[p]]]
  /\ UNCHANGED <<disk, document, versions, search>>

\* parse_markdown reads it again; a file without sections is refused.
ReadSections(i) ==
  /\ ingestor[i].pc = "hashed"
  /\ LET text == disk[ingestor[i].playbook] IN
       ingestor' = [ingestor EXCEPT ![i] =
         IF Sections[text] = {} THEN Resting
         ELSE [pc |-> "parsed", playbook |-> @.playbook, model |-> @.model,
               checksum |-> @.checksum, parsed |-> text]]
  /\ UNCHANGED <<disk, document, versions, search>>

\* A version of this text, embedded by this model, exists.
Known(p, checksum, model) ==
  \E v \in DOMAIN versions[p] :
    /\ versions[p][v].checksum = checksum
    /\ versions[p][v].model = model

Restored(p) == IF document[p] = "archived" THEN "active" ELSE document[p]

\* The first transaction: a known version is restored and the call returns.
CheckExisting(i) ==
  /\ ingestor[i].pc = "parsed"
  /\ LET p == ingestor[i].playbook IN
       IF Known(p, ingestor[i].checksum, ingestor[i].model)
         THEN /\ document' = [document EXCEPT ![p] = Restored(p)]
              /\ ingestor' = [ingestor EXCEPT ![i] = Resting]
         ELSE /\ ingestor' = [ingestor EXCEPT ![i].pc = "embedding"]
              /\ UNCHANGED document
  /\ UNCHANGED <<disk, versions, search>>

\* Slip: the check of the first transaction is trusted after the embedding.
WriteUnchecked(i) ==
  /\ ingestor[i].pc = "embedding"
  /\ LET p == ingestor[i].playbook IN
       /\ document' = [document EXCEPT ![p] = "active"]
       /\ Len(versions[p]) < MaxVersions
       /\ versions' = [versions EXCEPT ![p] = Append(@,
               [checksum |-> ingestor[i].checksum,
                model |-> ingestor[i].model,
                parsed |-> ingestor[i].parsed])]
  /\ ingestor' = [ingestor EXCEPT ![i] = Resting]
  /\ UNCHANGED <<disk, search>>

\* The second transaction, under the lock of the document's row: the document
\* is active afterwards, and has the version unless someone was faster.
WriteVersion(i) ==
  /\ ingestor[i].pc = "embedding"
  /\ LET p == ingestor[i].playbook IN
       /\ document' = [document EXCEPT ![p] = "active"]
       /\ IF Known(p, ingestor[i].checksum, ingestor[i].model)
            THEN UNCHANGED versions
            ELSE /\ Len(versions[p]) < MaxVersions
                 /\ versions' = [versions EXCEPT ![p] = Append(@,
                      [checksum |-> ingestor[i].checksum,
                       model |-> ingestor[i].model,
                       parsed |-> ingestor[i].parsed])]
  /\ ingestor' = [ingestor EXCEPT ![i] = Resting]
  /\ UNCHANGED <<disk, search>>

\* The embedding fails, a transaction is rolled back, or the process dies.
IngestionFails(i) ==
  /\ ingestor[i].pc # "idle"
  /\ ingestor' = [ingestor EXCEPT ![i] = Resting]
  /\ UNCHANGED <<disk, document, versions, search>>

\* Someone archives a document; nothing in the program does.
Archive(p) ==
  /\ document[p] = "active"
  /\ document' = [document EXCEPT ![p] = "archived"]
  /\ UNCHANGED <<disk, versions, ingestor, search>>

-----------------------------------------------------------------------------
(* hybrid_search *)

Latest(p) == Len(versions[p])

\* Slip: every version is searched.
ServedOfAll ==
  {c \in Playbooks \X (1..MaxVersions) \X UNION Range(Sections) :
     /\ document[c[1]] = "active"
     /\ c[2] \in DOMAIN versions[c[1]]
     /\ c[3] \in Sections[versions[c[1]][c[2]].parsed]}

\* The chunks of the latest versions of the documents that are not archived:
\* playbook, number of the version, section.
Served ==
  {c \in Playbooks \X (1..MaxVersions) \X UNION Range(Sections) :
     /\ document[c[1]] = "active"
     /\ c[2] = Latest(c[1])
     /\ c[3] \in Sections[versions[c[1]][c[2]].parsed]}

ModelOf(c) == versions[c[1]][c[2]].model
Smaller(m, n) == IF m < n THEN m ELSE n

\* The query is embedded, before the database is read.
BeginSearch ==
  /\ search.pc = "idle"
  /\ search' = [pc |-> "semantic", since |-> [p \in Playbooks |-> Latest(p)]]
  /\ UNCHANGED <<disk, document, versions, ingestor>>

\* All that is served and of the model of the search, ranked and cut.
SemanticSearch ==
  /\ search.pc = "semantic"
  /\ LET eligible == {c \in Served : ModelOf(c) = SearchModel} IN
       \E ranked \in [1..Smaller(CandidateK, Cardinality(eligible)) -> eligible] :
         /\ IsInjective(ranked)
         /\ search' = [pc |-> "lexical", since |-> search.since,
                       semantic |-> ranked]
  /\ UNCHANGED <<disk, document, versions, ingestor>>

\* First rank of a chunk in a list, or zero.
Rank(list, c) ==
  IF c \notin Range(list) THEN 0
  ELSE CHOOSE k \in DOMAIN list :
         list[k] = c /\ \A j \in 1..(k - 1) : list[j] # c

\* Scores are fractions; they are compared over a common denominator.
Multiple[k \in 0..CandidateK] ==
  IF k = 0 THEN 1 ELSE (RrfK + k) * Multiple[k - 1]

Denominator == Multiple[CandidateK]

\* Slip: a chunk that a list lacks counts as its rank zero.
ShareOfMissing(rank) == Denominator \div (RrfK + rank)

\* What a rank contributes.
Share(rank) == IF rank = 0 THEN 0 ELSE Denominator \div (RrfK + rank)

\* The key of _hybrid_sort_key up to the chunk's id: the ids are random.
SortKey(c, semantic, lexical, weight) ==
  LET s == Rank(semantic, c)
      l == Rank(lexical, c)
  IN [score |-> weight[1] * Share(s) + weight[2] * Share(l),
      both |-> s # 0 /\ l # 0,
      best |-> IF s = 0 THEN l ELSE IF l = 0 THEN s ELSE Smaller(s, l)]

Precedes(a, b) ==
  \/ a.score > b.score
  \/ a.score = b.score /\ a.both /\ ~b.both
  \/ a.score = b.score /\ (a.both <=> b.both) /\ a.best < b.best

\* The answers reciprocal_rank_fusion may give, one for each order of the ids:
\* the first TopK of the chunks with a score, sorted.
Fusions(semantic, lexical, weight) ==
  LET Key(c) == SortKey(c, semantic, lexical, weight)
      scored == {c \in Range(semantic) \cup Range(lexical) : Key(c).score > 0}
  IN {f \in [1..Smaller(TopK, Cardinality(scored)) -> scored] :
        /\ IsInjective(f)
        /\ \A j, k \in DOMAIN f : Precedes(Key(f[j]), Key(f[k])) => j < k
        /\ \A c \in scored \ Range(f) :
             \A j \in DOMAIN f : ~Precedes(Key(c), Key(f[j]))}

\* What is served now and matches the query, of whatever model; the lexical
\* policy keeps a part of it, and the two rankings are fused.
LexicalSearch ==
  /\ search.pc = "lexical"
  /\ \E lexical \in {r \in SetToAllKPermutations(Served) :
                       Len(r) <= CandidateK}, weight \in Weights :
       \E answer \in Fusions(search.semantic, lexical, weight) :
         search' = [pc |-> "answered", since |-> search.since,
                    semantic |-> search.semantic, lexical |-> lexical,
                    weight |-> weight, answer |-> answer]
  /\ UNCHANGED <<disk, document, versions, ingestor>>

Operate ==
  /\ search.pc # "answered"
  /\ \/ \E p \in Playbooks : Edit(p) \/ Archive(p)
     \/ \E i \in Ingestors :
          \/ \E p \in Playbooks, m \in Models : ReadChecksum(i, p, m)
          \/ ReadSections(i) \/ CheckExisting(i) \/ WriteVersion(i)
          \/ IngestionFails(i)
     \/ BeginSearch \/ SemanticSearch \/ LexicalSearch

\* A behaviour is followed until the search has answered: what comes after the
\* answer cannot change it.
Answered == search.pc = "answered" /\ UNCHANGED vars

Next == Operate \/ Answered

Spec == Init /\ [][Next]_vars

-----------------------------------------------------------------------------
(* Properties. *)

Version == [checksum : Texts, model : Models, parsed : Texts]

\* Types, and what the UNIQUE constraint of migration 002 demands although two
\* processes embed the same text at once: no ingestion adds a version that is
\* there.  Every version has chunks, and only a document that exists has one.
TypeOK ==
  /\ disk \in [Playbooks -> Texts]
  /\ document \in [Playbooks -> {"none", "active", "archived"}]
  /\ \A p \in Playbooks :
       /\ versions[p] \in Seq(Version) /\ Len(versions[p]) <= MaxVersions
       /\ document[p] = "none" <=> versions[p] = <<>>
       /\ \A v, w \in DOMAIN versions[p] :
            /\ Sections[versions[p][v].parsed] # {}
            /\ versions[p][v].checksum = versions[p][w].checksum
                 /\ versions[p][v].model = versions[p][w].model => v = w
  /\ \A i \in Ingestors : ingestor[i].pc \in
       {"idle", "hashed", "parsed", "embedding"}
  /\ search.pc \in {"idle", "semantic", "lexical", "answered"}

\* An answer cites no version that was out of date when the search began, and
\* only chunks of the versions it names; it mixes two versions of a playbook
\* only if one of them was ingested while it ran.
EvidenceIsFresh ==
  search.pc = "answered" => \A c, d \in Range(search.answer) :
    /\ c[2] \in (search.since[c[1]])..Latest(c[1])
    /\ c[3] \in Sections[versions[c[1]][c[2]].parsed]
    /\ c[1] = d[1] /\ c[2] < d[2] => d[2] > search.since[d[1]]

\* c is nowhere behind d, and somewhere before it, in the lists that count.
Dominates(c, d) ==
  LET lists == {k \in {1, 2} : search.weight[k] > 0}
      Ahead(k) == LET list == IF k = 1 THEN search.semantic ELSE search.lexical
                  IN /\ Rank(list, c) # 0
                     /\ Rank(list, d) = 0 \/ Rank(list, c) < Rank(list, d)
      Level(k) == LET list == IF k = 1 THEN search.semantic ELSE search.lexical
                  IN Rank(list, c) = Rank(list, d)
  IN /\ \A k \in lists : Ahead(k) \/ Level(k)
     /\ \E k \in lists : Ahead(k)

\* Fusion respects both rankings: no chunk comes before one that is ranked at
\* least as well by both and better by one, nor takes its place in the answer;
\* a list of weight zero adds nothing, and no chunk comes twice.
FusionRespectsRanks ==
  search.pc = "answered" =>
    LET answer == search.answer
        counted == (IF search.weight[1] > 0 THEN Range(search.semantic) ELSE {})
             \cup (IF search.weight[2] > 0 THEN Range(search.lexical) ELSE {})
    IN /\ IsInjective(answer) /\ Range(answer) \subseteq counted
       /\ Len(answer) = Smaller(TopK, Cardinality(counted))
       /\ \A j \in DOMAIN answer, c \in counted :
            Dominates(c, answer[j]) => \E k \in 1..(j - 1) : answer[k] = c

\* docs/database.md:37: "Changed content or an embedding-model change creates
\* the next" version, and retrieval serves the latest: when an ingestion ends
\* well, the latest version is the text it was called for.
IngestedIsServed ==
  [][\A i \in Ingestors :
       LET p == ingestor[i].playbook IN
         \/ ingestor[i].pc \notin {"parsed", "embedding"}
         \/ ingestor'[i] # Resting
         \/ UNCHANGED <<document, versions>> /\ ~Known(p, ingestor[i].checksum,
                                                       ingestor[i].model)
         \/ versions'[p][Len(versions'[p])].checksum = ingestor[i].checksum
    ]_vars

=============================================================================
