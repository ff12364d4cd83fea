\* One job and one worker while the process is told to stop.
CONSTANTS
  j1 = j1
  j2 = j2
  w1 = w1
  w2 = w2
  c1 = c1
  c2 = c2
  k1 = k1
  k2 = k2
  None = None
  Jobs = {j1}
  Keys = {k1, k2}
  KeyOf <- SameKey
  Workers = {w1}
  Clients = {c1}
  QueueCap = 1
  HooksOn <- NoHooks
  Faults = {}
  MaxBatch = 1
  MaxRetries = 0
  MaxRestarts = 0
CHECK_DEADLOCK FALSE
SPECIFICATION Spec
INVARIANT InterruptedStaysRunning
