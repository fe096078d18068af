SPECIFICATION Spec
CONSTANTS
  None = None
  Text = Text
  MaxMonth = 2
  ParityTolerance = 1
  MaxOperations = 4
  Listeners = {"app"}
  Books <- SmallBooks
  Moves <- SmallMoves
  Slug = "budget"
  Sheet <- SmallSheet
  Plans <- SmallPlans
  Answers <- SmallAnswers
  Attempts = 1
  MaxCalls = 3
  ReviseRounds = 1
  Faults = {"database", "book", "shutdown"}
  MaxMoves = 1
INVARIANT ReportIsHonest
INVARIANT StreamsSeeEverything
PROPERTY ForkImportsOnlyAdd
PROPERTY StreamsEnd
CHECK_DEADLOCK FALSE
