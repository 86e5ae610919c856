\* An approval with the API key, and one worker.
CONSTANTS
  j1 = j1
  j2 = j2
  Jobs = {j1}
  Workers = {w1}
  NoJob = NoJob
  MaxAttempts <- OnePerStage
  LeaseTerm = 1
  ClockSkew = FALSE
SPECIFICATION Spec
INVARIANT
  MutationByGitHubToken
