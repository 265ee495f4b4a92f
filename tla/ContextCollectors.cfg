\* A window of two blocks of three tokens, two layers, at most three candidates,
\* every retrieval point of a sequence of 24 tokens, answers of five tokens.
CONSTANTS
  LocalContext = 6
  BlockSize = 3
  MinimumCandidates = 1
  MaximumCandidates = 3
  QueryLength = 4
  Layers = 2
  Tokens = 24
  Horizon = 5
  TopN = 2
  RetrievalLimit = 2
  Whole = 10
  Missing = 2
  Parts = 2
SPECIFICATION BothSpec
INVARIANTS
  RollingServesPlan
  BlocksAccounted
  CollectorsAgree
  AnswersSeeTheirHistory
  SelectionMinimal
PROPERTIES
  BothImplementStream
  BothFinish
CHECK_DEADLOCK FALSE
