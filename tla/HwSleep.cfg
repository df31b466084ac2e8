SPECIFICATION Spec
CONSTANTS
  Threads <- Both
  First <- T0
  TimeMod = 8
  TimeInc = 1
  Offsets <- FewOffsets
  Ops <- SleepOps
  Wired <- OneLine
INVARIANTS
  WakesOnTime
PROPERTIES
  NeverEarly
