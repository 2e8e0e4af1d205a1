CONSTANTS
  Loads = {exe, dll1, sys}
  Excluded = {sys}
  Readers = {r1}
  MaxModules = 3
  NULL = NULL
  Serialized = TRUE
SPECIFICATION Spec
INVARIANT NoNullRead
