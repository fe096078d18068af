SPECIFICATION FairLockSpec
CONSTANTS
  w1 = w1
  w2 = w2
  w3 = w3
  NoOne = NoOne
  Unreadable = Unreadable
  Writers = {w1, w2, w3}
INVARIANT ExclusiveUntilReclaimed
PROPERTY AcquireAnswers
PROPERTY DeadLockGoes
CHECK_DEADLOCK FALSE
