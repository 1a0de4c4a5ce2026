SPECIFICATION Spec
CONSTANTS
  Threads = {p, q, a}
  NEntries = 1
  None = None
  Pollers = {p, q}
  Armers = {a, q}
  Cancellers = {a, q}
  Rearmed = {1}
  Shared = TRUE
  Delays = {0, 1}
  InitSize = 0
  PollMax = 1
  MaxArms = 2
  MaxNow = 2
INVARIANT ScheduledOnce
CHECK_DEADLOCK FALSE
