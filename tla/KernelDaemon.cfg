SPECIFICATION Spec
CONSTANTS
  HistoryCap = 2
  QueueCap = 1
  MaxEntries = 1
  c1 = c1
  c2 = c2
  Conns = {c1, c2}
  Free = Free
  NoFocus = NoFocus
  Screens = {s1, s2}
  Requests <- MCRequests
  EventCap = 2
  MaxRequests = 2
  MaxCrashes = 1
INVARIANTS
  StateFollowsStream
  RestartRemembers
  AnswersInOrder
CHECK_DEADLOCK FALSE
