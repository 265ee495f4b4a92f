\* The evaluation pipeline in its output root, killed at most once.
CONSTANTS
  Splits <- MCSplits
  Jobs <- MCEvaluationJobs
  Blocks = {1}
  Epochs = 1
  Patience = 1
  Losses = {1}
  MaxKills = 1
  Remnants <- MCRemnants
SPECIFICATION FairSpec
INVARIANTS
  CompleteIncludesAnswers
CHECK_DEADLOCK FALSE
