SPECIFICATION Spec
CONSTANTS
  None = None
  Requests = {1, 2}
  PoolSize = 2
  MaxCalls = 3
  Attempts = 2
  QaRounds = 1
  Budget = 1
  TurnsPerHour = 2
  Answers <- SmallAnswers
  Refused = {"set_amount"}
  Undated = {"add_event"}
  Other = Other
INVARIANT ClosedTurnsCount
INVARIANT SpendIsBounded
INVARIANT CardsHaveTheirTurn
INVARIANT NoChangeIsLost
PROPERTY TurnsEnd
CHECK_DEADLOCK FALSE
