CONSTANTS
    f1 = f1
    Followers = {f1}
    PageSize = 2
    Setups <- MCSetups
    h1 = h1
    h2 = h2
    j1 = j1
    j2 = j2
    Hooks = {h1, h2}
    NoJob = NoJob
    Jobs = {j1, j2}
    MaxConcurrent = 1
    MaxAttempts = 2
SPECIFICATION StreamsSpec
INVARIANTS EventsArrive ViewSettles OutcomesArrive
PROPERTIES WaitsEnd
CHECK_DEADLOCK FALSE
