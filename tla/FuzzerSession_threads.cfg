CONSTANTS
  Threads = {t1, t2}
  NoThread = NoThread
  MaxCalls = 2
SPECIFICATION FairSpec
INVARIANTS
  DumpOnlyAfterCapture
  ArenaContract
PROPERTIES
  CaptureEndsRun
