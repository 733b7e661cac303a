\* One processor that may die with the lock and two that recover it.
SPECIFICATION FairSpec
CONSTANTS
  p1 = p1  p2 = p2  p3 = p3
  None = None
  Processors = {p1, p2, p3}
  MayDie = {p1}
  MaxEvent = 2
  MaxAttempts = 2
INVARIANTS TypeOK NoEventVanishes ReceiptsAreTrue
PROPERTIES EventsSettle
CHECK_DEADLOCK FALSE
