SPECIFICATION FairSpec
CONSTANTS
  Threads = {t1, t2}
  NULL = NULL
  MaxNesting = 3
  TimeMod = 15
  TimeInc = 5
  WaitPeriod = 9
  Timeouts = {0, 4, 12, 13, 14}
INVARIANTS
  MutualExclusion
  NoLockLeak
PROPERTIES
  ImplementsAbstract
  BoundedCallsReturn
  FreeLockIsTaken
CHECK_DEADLOCK FALSE
