SPECIFICATION Spec
CONSTANTS
  w1 = w1
  w2 = w2
  rent = rent
  base = base
  tax = tax
  NoOne = NoOne
  Unreadable = Unreadable
  None = None
  Writers = {w1, w2}
  Items = {}
  Scenarios = {base}
  Levers = {}
  BookFile = BookFile
  ParamsFile = ParamsFile
  Layout <- TwoLayout
  Targets <- AnyScenarios
  MaxOpen = 2
  MaxLedger = 1
  MaxRevisions = 2
SYMMETRY Symmetry
INVARIANT SnapshotsWithinWatermark
CHECK_DEADLOCK FALSE
