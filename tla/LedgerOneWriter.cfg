SPECIFICATION Spec
CONSTANTS
  e1 = e1
  e2 = e2
  e3 = e3
  bank = bank
  x1 = x1
  x2 = x2
  s1 = s1
  s2 = s2
  None = None
  Names = {e1, e2, e3}
  Sources = {bank}
  Exts = {x1, x2}
  Amounts = {1, 2}
  Sessions = {s1}
  Readers = {}
  Rows <- OneWriterRows
  MaxLog = 4
  MaxBatch = 2
  MaxImports = 2
INVARIANT CorrectionChainsAreLinear
INVARIANT ImportLogNeverOverclaims
PROPERTY ImplementsFactBook
CHECK_DEADLOCK FALSE
