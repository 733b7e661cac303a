\* Two workers, two messages, a subscription renewed or replaced once.
SPECIFICATION Spec
CONSTANTS
  r1 = r1  r2 = r2
  None = None
  Workers = {r1, r2}
  MayCrash = {r1, r2}
  MaxMail = 2
  MaxPeriods = 2
  MaxAttempts = 2
  MaxPages = 1
SYMMETRY WorkerSymmetry
INVARIANTS TypeOK CursorPassesQueued MissedMeansQueued
PROPERTIES SettledStays
CHECK_DEADLOCK FALSE
