SPECIFICATION FairSpec
CONSTANTS
  MaxMsg = 2
  MaxLines = 1
  MaxCalls = 6
INVARIANTS RemovedHonestly InStep CutEndsSession
PROPERTIES FreesItsOwn Answered
CHECK_DEADLOCK FALSE
