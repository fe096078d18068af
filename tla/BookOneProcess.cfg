SPECIFICATION Spec
CONSTANTS
  w1 = w1
  w2 = w2
  rent = rent
  base = base
  tax = tax
  NoOne = NoOne
  Unreadable = Unreadable
  None = None
  Writers = {w1, w2}
  Items = {rent}
  Scenarios = {base}
  Levers = {tax}
  BookFile = BookFile
  ParamsFile = ParamsFile
  Layout <- OneLayout
  Targets <- EveryScenario
  MaxOpen = 1
  MaxLedger = 2
  MaxRevisions = 2
SYMMETRY Symmetry
INVARIANT RevisionsReproduce
INVARIANT DiffsAreAccountedFor
INVARIANT CleanIsOnDisk
PROPERTY ImplementsSnapshotHistory
CHECK_DEADLOCK FALSE
