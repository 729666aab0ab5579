SPECIFICATION Spec
CONSTANTS
  MaxMsg = 2
  MaxLines = 1
  MaxCalls = 6
INVARIANTS RemovedOnlyByQuit
CHECK_DEADLOCK FALSE
