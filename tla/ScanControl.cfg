SPECIFICATION FairSpec
CONSTANTS
  TargetCount = 2
  RateUnit = 2
  NicCount = 2
  One = 1
  Of = 1
  Options <- AllOptions
  MaxRetries = 2
  MaxRate = 3
  Wait = 1
  MaxBatch = 1
  MaxPresses = 2
  MaxRuns = 2
INVARIANTS ResumeSkipsNothing EveryTargetProbed
PROPERTIES ScanEnds SecondPressEnds
