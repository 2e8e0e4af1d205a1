CONSTANTS
  Loads = {exe, dll1, sys}
  Excluded = {sys}
  Readers = {r1}
  MaxModules = 4
  NULL = NULL
  Serialized = FALSE
SPECIFICATION Spec
INVARIANT NoLostRecord
