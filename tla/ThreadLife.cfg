SPECIFICATION FairSpec
CONSTANTS
  N = 3
  MaxLives = 2
  Uses <- Contract
  SizeMod = 65536
INVARIANTS
  RunsOwnFunction
  EachLifeRunsOnce
  PassedMeansAllDone
  ProgramsCompute
  UtilitiesHold
PROPERTIES
  NewThreadsRun
  ImplementsThreads
CHECK_DEADLOCK FALSE
