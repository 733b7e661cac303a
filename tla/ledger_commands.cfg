\* Two requests with any keys and hashes, a record that changes and one that is written once.
SPECIFICATION FairSpec
CONSTANTS
  q1 = q1  q2 = q2  q3 = q3  k1 = k1  k2 = k2  h1 = h1  h2 = h2
  None = None
  Requests = {q1, q2}
  Keys = {k1, k2}
  Hashes = {h1, h2}
  MaxRecord = 2
  AppendOnly = {2}
  MaxRetries = 1
INVARIANTS TypeOK AnswersAreTrue
PROPERTIES ImplementsPromise RequestsEnd
CHECK_DEADLOCK FALSE
