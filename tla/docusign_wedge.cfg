\* A replayed send interrupts the request between the two artifacts.
SPECIFICATION FairSpec
CONSTANTS
  w1 = w1  w2 = w2  d1 = d1  d2 = d2
  None = None
  Workers = {w1, w2}
  Digests = {d1}
  Usual = d1
  MayCrash = {w1}
  MaxMishaps = 2
  MaxGeneration = 6
PROPERTIES MissingArtifactRetried
CHECK_DEADLOCK FALSE
