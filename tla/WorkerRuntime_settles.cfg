\* A process that may be killed, fail and be started again.
CONSTANTS
  j1 = j1
  j2 = j2
  p1 = p1
  analysis = analysis
  patch_generation = patch_generation
  patch_validation = patch_validation
  github_pr = github_pr
  Jobs = {j1, j2}
  Workers = {analysis, patch_generation, patch_validation, github_pr}
  NoJob = NoJob
  MaxAttempts <- FiveAndOne
  LeaseTerm = 1
  ClockSkew = FALSE
  Processes = {p1}
  ProcessOf <- OneProcess
  StageOf <- Stages
SPECIFICATION RuntimeFairSpec
PROPERTIES
  WorkSettles
