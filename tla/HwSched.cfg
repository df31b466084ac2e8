SPECIFICATION FairSpec
CONSTANTS
  NSlots = 3
  NThreads = 2
  SlotValues <- OsSlotValues
  Nobody = Nobody
INVARIANTS
  TurnsAreBounded
PROPERTIES
  CyclesAreUsed
  ServedThreadsRun
