CONSTANTS
  Threads = {t1, t2}
  NoThread = NoThread
  MaxCalls = 2
SYMMETRY ThreadSymmetry
SPECIFICATION Spec
INVARIANT DumpMatchesFault
