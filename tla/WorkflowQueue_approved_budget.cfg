\* The default budget of three claims against a workflow of four stages.
CONSTANTS
  j1 = j1
  j2 = j2
  Jobs = {j1}
  Workers = {w1}
  NoJob = NoJob
  MaxAttempts <- DefaultBudget
  LeaseTerm = 1
  ClockSkew = FALSE
SPECIFICATION FairSpec
PROPERTY
  ApprovedReachesPrWorker
