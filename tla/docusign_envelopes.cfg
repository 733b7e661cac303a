\* Two handlers, one of which polls and may die, two send keys and a reconciliation.
SPECIFICATION Spec
CONSTANTS
  r1 = r1  r2 = r2  w1 = w1  w2 = w2  k1 = k1  k2 = k2  k3 = k3
  None = None
  Requests = {r1}
  Handlers = {w1, w2}
  Pollers = {w2}
  SendKeys = {k1, k2}
  ReconcileKeys = {k3}
  Ends = {"completed"}
  Sequenced = TRUE
  MayCrash = {w2}
  MaxTime = 1
  MaxSeq = 2
SYMMETRY KeySymmetry
INVARIANTS TypeOK CreatedOnce NeverAhead
PROPERTIES SucceededSendsStand NoSecondSending
CHECK_DEADLOCK FALSE
