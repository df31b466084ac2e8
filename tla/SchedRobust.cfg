SPECIFICATION Spec
CONSTANTS
  NThreads = 2
  NSlots = 5
  Creators = {0}
  Managers = {0}
  Victims = {1}
  Tuners = {1}
  CreateLate = FALSE
  Counts = {}
  NULL = NULL
INVARIANTS
  SectionsExclusive
CHECK_DEADLOCK FALSE
