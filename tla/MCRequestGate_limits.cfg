\* Four callers of two ranks over two permits; a Retry-After beyond the cap.
CONSTANTS
    Callers <- MCCallers
    Limit = 2
    Priority <- MCPriority
    Subpriority <- MCSubpriority
    RateLimited = {"twin"}
    Impatient = {"twin"}
    Burst = 1
    MaxCooldown = 2
    Throttled = {"api", "track"}
    Delays = {0, 1, 5}
SPECIFICATION GateSpec
INVARIANTS PermitsAccounted PermitFollowsCall PenaltiesHold
PROPERTIES ImplementsPool NoneOvertaken CallsEnd
CHECK_DEADLOCK FALSE
