SPECIFICATION FairSpec
CONSTANTS
  Threads = {t1, t2}
  Ticks = {1, 2}
  Uses <- Contract
INVARIANTS
  RunningIsArmed
  NoNullCallback
PROPERTIES
  StartedFires
  ImplementsTimers
CHECK_DEADLOCK FALSE
