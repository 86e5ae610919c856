\* One process ingests a playbook that is edited.
CONSTANTS
  p1 = p1
  i1 = i1
  i2 = i2
  Playbooks = {p1}
  Texts = {"A", "B", "blank"}
  Sections <- MCSections
  Models = {"m1"}
  SearchModel = "m1"
  Ingestors = {i1}
  Weights <- MCWeights
  CandidateK = 2
  TopK = 2
  RrfK = 60
  MaxVersions = 2
SPECIFICATION Spec
PROPERTY
  IngestedIsServed
