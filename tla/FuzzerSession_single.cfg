CONSTANTS
  Threads = {t1}
  NoThread = NoThread
  MaxCalls = 3
SPECIFICATION FairSpec
INVARIANTS
  TypeOK
  CrashReported
  DumpMatchesFault
PROPERTIES
  CaptureRefinement
