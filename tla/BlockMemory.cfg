\* One slot and one record to begin with, so that both tables grow; three block
\* ids and four ingestions, so that an evicted block can come back.  Both banks:
\* windows of one or three tokens, two slots, four records, chunks of two.
CONSTANTS
  Codes = {0}
  Probes <- MCProbesOne
  CandidateCapacity = 2
  Blocks = {0, 1, 2}
  InitialSlots = 1
  InitialRecords = 1
  UsageRates = {0, 16}
  EmaWeight = 1
  EmaScale = 4
  Threshold = 5
  MinRecalls = 1
  MinRecords = 0
  MaxSerial = 4
  MaxRecalls = 1
  Methods = {"camelot", "vmf_records"}
  SlotCapacity = 2
  RecordCapacity = 4
  ChunkSize = 2
  WindowSizes = {1, 3}
  MaxWindows = 4
SPECIFICATION EitherSpec
INVARIANTS
  BlocksFoundByTheirIds
  SlotsSumWhatIsKept
PROPERTIES
  ImplementsClusterStore
  LeastRecentlyUsedGoesFirst
CHECK_DEADLOCK FALSE
