\* Two polls race; three mishaps at most, at any moments.
SPECIFICATION FairSpec
CONSTANTS
  w1 = w1  w2 = w2  d1 = d1  d2 = d2
  None = None
  Workers = {w1, w2}
  Digests = {d1, d2}
  Usual = d1
  MayCrash = {w1}
  MaxMishaps = 3
  MaxGeneration = 6
INVARIANTS TypeOK RecordedIsStored OperationIsForMissing
PROPERTIES ArtifactsImmutable CompletionSettles
CHECK_DEADLOCK FALSE
