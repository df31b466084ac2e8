SPECIFICATION Spec
CONSTANTS
  NThreads = 3
  NSlots = 5
  Creators = {0}
  Managers = {0}
  Victims = {1, 2}
  Tuners = {}
  CreateLate = TRUE
  Counts = {}
  NULL = NULL
INVARIANTS
  HardThreadHasSlot
  NeverStranded
  ReapedHasNoSlot
  SoftSlotHasUser
  PriorityMatchesMode
CHECK_DEADLOCK FALSE
