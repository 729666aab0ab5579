SPECIFICATION Spec
CONSTANTS
  Session = {s1, s2}
  a = a
  b = b
  Cr = Cr
  Lf = Lf
  Char <- MCChar
  Line <- MCShort
  MaxSize = 4
  BufSize = 5
  MaxLines = 1
  MaxCalls = 1
INVARIANT RecordsAreLines
CHECK_DEADLOCK FALSE
