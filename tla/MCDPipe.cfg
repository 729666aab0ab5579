SPECIFICATION PipeFairSpec
CONSTANTS
  Thread = {t1, t2}
  Size = 4
  Cap = 1
INVARIANTS Filtered NoLeak
PROPERTIES SessionReturns
CHECK_DEADLOCK FALSE
