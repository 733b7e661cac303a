\* One worker, one message, a subscription that is lost and replaced.
SPECIFICATION Spec
CONSTANTS
  r1 = r1  r2 = r2
  None = None
  Workers = {r1}
  MayCrash = {}
  MaxMail = 1
  MaxPeriods = 2
  MaxAttempts = 2
  MaxPages = 1
INVARIANTS DeltaConverges
CHECK_DEADLOCK FALSE
