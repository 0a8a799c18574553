SPECIFICATION Spec
CONSTANTS
  c1 = c1
  c2 = c2
  ip1 = ip1
  i1 = i1
  i2 = i2
  i3 = i3
  Conns = {c1, c2}
  IPOf <- MCIPOf
  Ids = {i1, i2, i3}
  None = None
  ScreenDeadline = 2
  RecheckMin = 1
  RecheckMax = 2
  MaxLag = 1
SYMMETRY Alike
INVARIANTS BooksAgree SilenceHasLimit
