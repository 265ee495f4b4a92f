\* One slot and two records to begin with, so that both tables grow and both
\* free lists recycle; chunks of two rows; a lookup returns one candidate.
CONSTANTS
  Codes = {0, 1}
  Probes <- MCProbes
  CandidateCapacity = 1
  WriteChunk = 2
  InitialSlots = 1
  InitialRecords = 2
  UsageRates = {0, 16}
  EmaWeight = 1
  EmaScale = 4
  Threshold = 5
  MinRecalls = 1
  MinRecords = 0
  MaxSerial = 3
  MaxRecalls = 2
SPECIFICATION Spec
INVARIANTS
  TypeOK
  TablesConsistent
  RoutingConsistent
  RecallNeverMisattributed
PROPERTIES
  ImplementsClusterStore
CHECK_DEADLOCK FALSE
