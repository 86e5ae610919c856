\* Two workers that overtake each other on two jobs, one with a retry to spare.
CONSTANTS
  j1 = j1
  j2 = j2
  Jobs = {j1, j2}
  Workers = {w1, w2}
  NoJob = NoJob
  MaxAttempts <- OneAmpleOneShort
  LeaseTerm = 2
  ClockSkew = TRUE
SPECIFICATION Spec
SYMMETRY WorkerSymmetry
INVARIANTS
  TypeOK
  RowConstraints
  OneLeaseHolder
  CheckpointIsTrue
  MutationAuthenticated
  ActionAgreesWithJob
PROPERTIES
  OnlyHolderCommits
  FinalStaysFinal
  ExpiredStaysExpired
  ImplementsLifecycle
