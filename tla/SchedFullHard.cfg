SPECIFICATION Spec
CONSTANTS
  NThreads = 3
  NSlots = 3
  Creators = {0}
  Managers = {0}
  Victims = {}
  Tuners = {}
  CreateLate = TRUE
  Counts = {}
  NULL = NULL
INVARIANTS
  HardThreadHasSlot
CHECK_DEADLOCK FALSE
