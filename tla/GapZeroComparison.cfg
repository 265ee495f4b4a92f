\* One condition of the sweep, or one experiment.
CONSTANTS
  Corpora <- MCCorpora
  Answers <- MCAnswers
  Conditions <- MCConditions
  BlockSize = 2
  MaxNew = 5
  IndexMaxNew = 1
  TopN = 2
  Window = 4
  TestPositions = {0}
  QueryTokens = 2
  PositionLimit = 16
  MaxStarts = 1
  NoValue = NoValue
SPECIFICATION AnswerSpec
INVARIANTS
  GapZeroPassedTheComparison
CHECK_DEADLOCK FALSE
