SPECIFICATION Spec
CONSTANTS
  Session = {s1}
  a = a
  b = b
  Cr = Cr
  Lf = Lf
  Char <- MCChar
  Line <- MCLine
  MaxSize = 4
  BufSize = 5
  MaxLines = 3
  MaxCalls = 4
INVARIANTS TypeOK RecordsAreLines NoCharLost
CHECK_DEADLOCK FALSE
