SPECIFICATION FairSpec
CONSTANTS
  Threads <- One
  First <- T0
  TimeMod = 8
  TimeInc = 1
  Offsets <- FewOffsets
  Ops <- AllOps
  Wired <- ItsLine
INVARIANTS
  NoStaleInterrupt
PROPERTIES
  SleepersWake
