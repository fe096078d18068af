SPECIFICATION Spec
CONSTANTS
  r1 = r1
  r2 = r2
  r3 = r3
  c1 = c1
  c2 = c2
  c3 = c3
  rent = rent
  gym = gym
  paid = paid
  None = None
  Kinds = {"save", "discard", "accept"}
  Requests = {r1, r2}
  Cards = {c1, c2}
  Plans = {rent, gym}
  Facts = {paid}
  Edits <- PlanAndFact
  Faults = TRUE
  MaxRev = 1
SYMMETRY Symmetry
INVARIANT ConfirmedIsApplied
INVARIANT AcceptedMeansApplied
CHECK_DEADLOCK FALSE
