SPECIFICATION Spec
CONSTANTS
  Requests = {r1, r2, r3}
  Links = {l1, l2}
  LinkTtl = 1
  LinkDays = 1
  Retention = 1
  None = None
  Gone = Gone
  DaysOfUse = 1
  MaxDay = 2
SYMMETRY Symmetry
INVARIANT LinkOpensOneSession
INVARIANT ErasedIsGone
INVARIANT ClosedWindowsAreTrue
INVARIANT NothingIsOverdue
CHECK_DEADLOCK FALSE
