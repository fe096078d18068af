SPECIFICATION Spec
CONSTANTS
  e1 = e1
  e2 = e2
  e3 = e3
  bank = bank
  x1 = x1
  x2 = x2
  s1 = s1
  s2 = s2
  None = None
  Names = {e1, e2, e3}
  Sources = {bank}
  Exts = {x1, x2}
  Amounts = {1}
  Sessions = {s1, s2}
  Readers = {s1}
  Rows <- SharedRows
  MaxLog = 2
  MaxBatch = 1
  MaxImports = 1
INVARIANT ActualsSurvive
INVARIANT ReproducibleRead
CHECK_DEADLOCK FALSE
