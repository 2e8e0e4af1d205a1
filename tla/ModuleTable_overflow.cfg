CONSTANTS
  Loads = {exe, dll1, dll2}
  Excluded = {}
  Readers = {}
  MaxModules = 2
  NULL = NULL
  Serialized = FALSE
SPECIFICATION Spec
INVARIANT SlotsInBounds
