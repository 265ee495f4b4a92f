\* The bridge: a block of two records, whose write may fail between them, and that comes
\* a second time; three records and four slots, two time steps.
CONSTANTS
  b1 = b1
  b2 = b2
  g1 = g1
  g2 = g2
  Groups = {g1, g2}
  Blocks = {b1}
  MaxBegins = 2
  Parts <- MCParts
  NoBlock = NoBlock
  MinRecalls = 1
  KeepPerCluster = 1
  Protection = 1
  Patience = 1
  SplitCooldown = 1
  MergeCooldown = 1
  MaxRecords = 3
  MaxSlots = 4
  MaxTime = 2
  Corpora <- MCCorpora
  Answers <- MCAnswers
  Conditions <- MCConditions
  BlockSize = 2
  MaxNew = 5
  IndexMaxNew = 1
  TopN = 2
  Window = 4
  TestPositions = {0}
  QueryTokens = 2
  PositionLimit = 16
  MaxStarts = 2
  NoValue = NoValue
SPECIFICATION AnySpec
INVARIANTS
  FreshSelectionPacks
  StaleSelectionRaisesOrMatches
  RecordsInReach
  HistoryKept
  BlocksAreTheAnswers
  ReplaySeesBlocksAndItself
  ChecksNeverFail
  DistanceIsBetweenBodies
PROPERTIES
  EvictionConfined
  PayloadsFollowMemory
  VersionsApart
CHECK_DEADLOCK FALSE
