SPECIFICATION Spec
CONSTANTS
  t1 = t1  t2 = t2  t3 = t3
  k1 = k1  k2 = k2  d1 = d1
  n1 = n1  n2 = n2  n3 = n3  n4 = n4
  Null = Null  Locked = Locked
  Thread = {t1, t2, t3}
  Key = {k1}
  Data = {d1}
  Node = {n1, n2, n3, n4}
SYMMETRY Sym
INVARIANTS NoUseAfterFree
