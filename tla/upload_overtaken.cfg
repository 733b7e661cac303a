\* The order of three versions when two of them are published at once.
SPECIFICATION UntimedSpec
CONSTANTS
  s1 = s1  s2 = s2  s3 = s3  d1 = d1  c1 = c1  c2 = c2  r1 = r1  r2 = r2  w1 = w1  w2 = w2
  None = None
  Sessions = {s1, s2, s3}
  Documents = {d1}
  Clients = {c1, c2}
  Reconcilers = {}
  Workers = {w1}
  WorkerOf <- OwnWorker
  Kinds = {"plain"}
  DocOf <- AllOfD1
  Versions = {1, 2, 3}
  MaxAttempts = 1
  Faults = FALSE
  MayCrash = {}
SYMMETRY Alike
INVARIANTS CurrentIsLatest
