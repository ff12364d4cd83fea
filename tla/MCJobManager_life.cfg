\* One job, from its submission through a restart, store calls that fail.
CONSTANTS
  j1 = j1
  j2 = j2
  w1 = w1
  w2 = w2
  c1 = c1
  c2 = c2
  k1 = k1
  k2 = k2
  None = None
  Jobs = {j1}
  Keys = {k1, k2}
  KeyOf <- SameKey
  Workers = {w1, w2}
  Clients = {c1}
  QueueCap = 1
  HooksOn <- OneHookEach
  Faults = {"lookup", "create", "event", "reload", "cancelPersist", "retryUpdate"}
  MaxBatch = 1
  MaxRetries = 1
  MaxRestarts = 1
CHECK_DEADLOCK FALSE
SPECIFICATION FairSpec
INVARIANTS FinalizeWindowStable DeletedIsQuiet QueuedIsDelivered CompletedIsDone
PROPERTIES ImplementsLifecycle ActiveJobEnds
