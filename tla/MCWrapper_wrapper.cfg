CONSTANTS
    Boots = {1, 2, 3}
    Logins = {1}
    MaxStops = 1
    MaxTurns = 1
    Callers = {c1, c2}
    Keys = {"p", "k1", "k2"}
    Pinned = {"p"}
    Streams = {m1}
    Fetches = {"f1", "f2", "f3", "f4"}
    Playback = 2
    MaxRunning = 2
    Keep = 1
    Retries = 1
    MaxCalls = 2
    Accounts = {a1, a2}
    LoginClients = {b1, b2}
    LoginIds = {l1, l2}
SPECIFICATION WrapperSpec
INVARIANTS GuestHolds NoBorrowedCancel ClaimsAreExact
PROPERTIES ServesScrubbed WrapperAnswers
CHECK_DEADLOCK FALSE
