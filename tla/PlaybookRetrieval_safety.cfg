\* Two processes ingest one playbook that is edited and archived meanwhile.
CONSTANTS
  p1 = p1
  i1 = i1
  i2 = i2
  Playbooks = {p1}
  Texts = {"A", "B"}
  Sections <- MCSections
  Models = {"m1", "m2"}
  SearchModel = "m1"
  Ingestors = {i1, i2}
  Weights <- MCWeights
  CandidateK = 2
  TopK = 2
  RrfK = 60
  MaxVersions = 2
SPECIFICATION Spec
SYMMETRY IngestorSymmetry
INVARIANTS
  TypeOK
  EvidenceIsFresh
  FusionRespectsRanks
