\* Two samples, two variants, one shuffling per measurement.
CONSTANTS
  Setups <- MCTwoSamples
  FactRanges <- MCEvenFacts
  Clusterings <- MCPairings
  BlockSize = 2
  MaximumVariants = 2
  TopN = 1
  Trials = 1
  Criteria <- MCStrictCriteria
  Unit = 1000
  MaxLaunches = 2
SPECIFICATION CalibrationSpec
INVARIANTS
  StructuralLimitMeansNoSeparation
CHECK_DEADLOCK FALSE
