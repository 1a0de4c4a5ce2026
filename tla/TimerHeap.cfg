SPECIFICATION Spec
CONSTANTS
  Threads = {a}
  NEntries = 6
  None = None
  Pollers = {a}
  Armers = {a}
  Cancellers = {a}
  Rearmed = {}
  Shared = FALSE
  Delays = {0, 1}
  InitSize = 1
  PollMax = 2
  MaxArms = 1
  MaxNow = 0
INVARIANTS IdsSound HeapOrdered
CHECK_DEADLOCK FALSE
