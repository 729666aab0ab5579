SPECIFICATION FairSpec
CONSTANTS
  t1 = t1  t2 = t2  t3 = t3
  Null = Null  Junk = Junk
  N = 2
  ThreadId = {t1, t2, t3}
  HeapKeepsData = FALSE
INVARIANTS SlotHeld PoolBound AnnouncedExactly NoNullHandle
PROPERTIES AcceptLoopReturns CleanReclaims
CHECK_DEADLOCK FALSE
