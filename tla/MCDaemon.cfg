SPECIFICATION FairSpec
CONSTANTS
  Proc = {p1, p2}
  MaxSessions = 2
  Busy = {p1}
  Main = Main
  None = None
  MaxLines = 1
  MaxRunning = 4
INVARIANTS TypeOK NoLineAfterEnd KillFindsIt Books
PROPERTIES SignalEnds
CHECK_DEADLOCK FALSE
