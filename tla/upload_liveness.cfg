\* Every deadline passes and reconciliation is run again and again.
SPECIFICATION FairSpec
CONSTANTS
  s1 = s1  s2 = s2  s3 = s3  d1 = d1  c1 = c1  c2 = c2  r1 = r1  r2 = r2  w1 = w1  w2 = w2
  None = None
  Sessions = {s1}
  Documents = {d1}
  Clients = {c1}
  Reconcilers = {r1}
  Workers = {w1}
  WorkerOf <- OwnWorker
  Kinds = {"plain", "corporate"}
  DocOf <- AllOfD1
  Versions = {1}
  MaxAttempts = 2
  Faults = TRUE
  MayCrash = {c1}
PROPERTIES EverySessionSettles
