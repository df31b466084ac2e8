SPECIFICATION FairSpec
CONSTANTS
  NThreads = 2
  NSlots = 4
  Creators = {0}
  Managers = {0}
  Victims = {}
  Tuners = {1}
  CreateLate = TRUE
  Counts = {0, 1, 2, 3}
  NULL = NULL
INVARIANTS
  SectionsExclusive
  OneSlotStaysDisabled
PROPERTIES
  SlotsChangeOnlyByRequest
  NobodyFreezesTheHolder
  WaitersAreServed
  ImplementsSlots
CHECK_DEADLOCK FALSE
