CONSTANTS
  Mods = {"dll", "sys"}
  Base <- ReuseBase
  Size <- ReuseSize
  Excluded = {"sys"}
  MaxModules = 3
  ArenaSize = 2
  CellMod = 256
  MaxExec = 1
SPECIFICATION SpecReuse
INVARIANT ExcludedInvisible
