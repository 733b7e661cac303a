\* A client and two overlapping runs of one worker over one session; any may die.
SPECIFICATION Spec
CONSTANTS
  s1 = s1  s2 = s2  s3 = s3  d1 = d1  c1 = c1  c2 = c2  r1 = r1  r2 = r2  w1 = w1  w2 = w2
  None = None
  Sessions = {s1}
  Documents = {d1}
  Clients = {c1}
  Reconcilers = {r1, r2}
  Workers = {w1}
  WorkerOf <- SameWorker
  Kinds = {"plain", "intake", "corporate"}
  DocOf <- AllOfD1
  Versions = {1}
  MaxAttempts = 2
  Faults = TRUE
  MayCrash <- Everyone
INVARIANTS TypeOK PublishedHasBytes RetryBudget
PROPERTIES LiveLeasesRespected CorporateBytesKept IntakeBytesKept UpdatesPassTrigger
