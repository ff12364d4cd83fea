\* Two clients, two workers and two jobs with one canonical key.
CONSTANTS
  j1 = j1
  j2 = j2
  w1 = w1
  w2 = w2
  c1 = c1
  c2 = c2
  k1 = k1
  k2 = k2
  None = None
  Jobs = {j1, j2}
  Keys = {k1, k2}
  KeyOf <- SameKey
  Workers = {w1, w2}
  Clients = {c1, c2}
  QueueCap = 1
  HooksOn <- NoHooks
  Faults = {"claim", "persist"}
  MaxBatch = 1
  MaxRetries = 1
  MaxRestarts = 0
CHECK_DEADLOCK FALSE
SPECIFICATION Spec
SYMMETRY All
INVARIANTS CancelReachesRun AdmissionStands
