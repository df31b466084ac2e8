SPECIFICATION Spec
CONSTANTS
  Threads <- Both
  PcMod = 3
  Targets = {1}
  Evec = 0
  Program <- Mixed
INVARIANTS
  InOrder
  OperandsAreCurrent
  SleepersRest
  LossIsBounded
