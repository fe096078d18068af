SPECIFICATION FairSpec
CONSTANTS
  r1 = r1
  r2 = r2
  r3 = r3
  c1 = c1
  c2 = c2
  c3 = c3
  rent = rent
  gym = gym
  paid = paid
  None = None
  Kinds = {"activate", "accept", "discard card"}
  Requests = {r1, r2}
  Cards = {c1, c2}
  Plans = {rent, gym}
  Facts = {paid}
  Edits <- OnePlan
  Faults = FALSE
  MaxRev = 1
PROPERTY RequestsAnswer
CHECK_DEADLOCK FALSE
