CONSTANTS
  Mods = {"exe", "dll", "sys"}
  Base <- MCBase
  Size <- MCSize
  Excluded = {"sys"}
  MaxModules = 3
  ArenaSize = 2
  CellMod = 256
  MaxExec = 4
SPECIFICATION Spec
INVARIANTS
  TypeOK
  ArenaCountsVisits
  ExcludedInvisible
