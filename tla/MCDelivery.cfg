SPECIFICATION Spec
CONSTANTS
  x = x
  Cr = Cr
  Lf = Lf
  Dot = Dot
  Ok = Ok
  Retr = Retr
  Char <- MCChar
  Before <- MCBefore
  Message <- MCMessage
  Size <- MCSize
  MaxLines = 2
  MaxPartial = 1
INVARIANTS SuccessMeansSent InStep DeliveredWhole TopEnough
CHECK_DEADLOCK FALSE
