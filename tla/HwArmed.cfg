SPECIFICATION Spec
CONSTANTS
  Threads <- Both
  First <- T0
  TimeMod = 8
  TimeInc = 1
  Offsets <- SomeOffsets
  Ops <- TimerOps
  Wired <- NoLine
INVARIANTS
  ArmedIsKept
