SPECIFICATION FairSpec
CONSTANTS
  Threads = {p, q, a}
  NEntries = 2
  None = None
  Pollers = {p, q}
  Armers = {a}
  Cancellers = {a, q}
  Rearmed = {1}
  Shared = FALSE
  Delays = {0, 2}
  InitSize = 0
  PollMax = 1
  MaxArms = 2
  MaxNow = 3
PROPERTIES ImplementsTimers DueEntryLeaves
CHECK_DEADLOCK FALSE
