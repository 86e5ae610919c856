\* One job, four attempts, two workers, in either world.
CONSTANTS
  w1 = w1
  w2 = w2
  Workers = {w1, w2}
  MaxAttempts = 4
  MaxCommits = 5
  Worlds = {"late", "reviewed"}
SPECIFICATION Spec
SYMMETRY WorkerSymmetry
INVARIANTS
  TypeOK
  OnePullOnPatch
  PatchesApprovedSource
  SequentialRetries
PROPERTY
  CompletedIsQuiet
