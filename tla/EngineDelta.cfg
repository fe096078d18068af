SPECIFICATION Spec
CONSTANTS
  sales = sales
  costs = costs
  interest = interest
  balance = balance
  misc = misc
  rev = rev
  cost = cost
  fin = fin
  ev1 = ev1
  ev2 = ev2
  None = None
  Unknown = Unknown
  Credit = Credit
  Liability = Liability
  TaxTag = TaxTag
  Loose = misc
  Policy = "half_up"
  RateScale = 4
  Horizon = 6
  Closed = {2}
  MonthLength = 3
  Cutover = 2
  YearLength = 4
  Authored = {sales, costs, interest, balance}
  Books <- TheBooks
  EventSets <- Ledgers
  Regimes <- TheRegimes
  Replacements <- TheReplacements
  MaxDeltas = 2
  Identifiers <- TheIdentifiers
  Selectors <- TheSelectors
  MaxDepth = 6
  MaxLag = 4
  MaxLiteral = 1000
  Places = 1
  Params <- TheParams
  OpeningBalance <- TheOpening
  Precision = 3
  Sources <- TheSources
INVARIANT OracleAgrees
INVARIANT EvaluatorsAgree
INVARIANT ExplanationsAreTrue
INVARIANT DeltaIsRun
INVARIANT ColumnsSolveTheirFormulas
INVARIANT VatIsConserved
CHECK_DEADLOCK FALSE
