\* An object store with object lock: two versions, executors that race, fail and die beside holds.
SPECIFICATION Spec
CONSTANTS
  o1 = o1  o2 = o2  c1 = c1  c2 = c2  r1 = r1  r2 = r2
  None = None
  Objects = {o1, o2}
  Clients = {c1}
  Reconcilers = {r1}
  ProviderLock = TRUE
  MaxAttempts = 2
  Faults = TRUE
  MayCrash <- Everyone
INVARIANTS TypeOK TombstoneAfterDestruction ProtectedObjectsKept
PROPERTIES TerminalIntentsSealed
CHECK_DEADLOCK FALSE
