SPECIFICATION Spec
CONSTANTS
  Texts = {"q1", "Q1", "q2", "q3"}
  Folded <- MCFolded
  Chunks = {"c1", "c2", "c3"}
  RuleOf <- MCRuleOf
  Proposable <- MCProposable
  MaxIterations = 2
  MaxInitial = 1
  MaxAdditional = 2
  MaxTotal = 2
  MaxEvidence = 2
  TopK = 2
  MaxAnswer = 2
  MaxAttempts = 2
INVARIANT SupportedNeedsReview
