\* Two kills, anywhere; three epochs of two losses, stopped after one that does
\* not improve; one block stored per split.
CONSTANTS
  Splits <- MCSplits
  Jobs <- MCJobs
  Blocks = {1}
  Epochs = 3
  Patience = 1
  Losses = {1, 2}
  MaxKills = 2
  Remnants <- MCRemnants
  Sweeps <- MCSweeps
  Usages <- MCUsages
  Thresholds = {1, 2}
  SweepLosses = {0, 2}
  MaxLoss = 1
  MaxReplayLoss = 1
  MinRecalls = 1
  MinRecords = 2
  MaxSweepKills = 2
  MaxStrangers = 1
SPECIFICATION EitherSpec
INVARIANTS
  CommandsReadWholeFiles
  CompleteIsOfOneRun
  SummaryCountsEachOnce
  ThresholdsAreNested
PROPERTIES
  ResumedEnds
CHECK_DEADLOCK FALSE
