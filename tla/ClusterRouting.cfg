\* A floor of one record per cluster and two observations before an eviction:
\* one locality code, so that every live slot is in reach, and two candidates.
CONSTANTS
  Codes = {0}
  Probes <- MCProbesOne
  CandidateCapacity = 2
  WriteChunk = 2
  InitialSlots = 2
  InitialRecords = 2
  UsageRates = {0, 16}
  EmaWeight = 1
  EmaScale = 4
  Threshold = 5
  MinRecalls = 2
  MinRecords = 1
  MaxSerial = 3
  MaxRecalls = 2
  Setups <- MCSetups
  FactRanges <- MCFacts
  Clusterings <- MCClusterings
  Criteria <- MCCriteria
  BlockSize = 2
  MaximumVariants = 2
  TopN = 1
  Trials = 1
  Unit = 1000
  MaxLaunches = 2
SPECIFICATION EitherSpec
INVARIANTS
  ClusterMatesObservedTogether
  ChosenStandsOnTheRows
  EndedIsOneRun
PROPERTIES
  EvictionConfined
  ImplementsLocality
CHECK_DEADLOCK FALSE
