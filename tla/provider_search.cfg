CONSTANTS
    Plan = {p1}
    Refresh = {r1}
    j1 = j1
    j2 = j2
    Job = {j1, j2}
    JobOf <- SharedQuery
    Dispatcher = {d1, d2}
    Worker = {w1}
    None = None
    DispatchLimit = 1
    LeaseLimit = 1
    Threshold = 1
    Cap = 2
    MaxOrders = 2
    MaxAttempts = 2
    Mishap = {"kill", "slow"}
    MaxMishaps = 2
SPECIFICATION Spec
INVARIANTS TypeOK BudgetHeld JobsArePaidFor DispatchedIsJoined
PROPERTIES DoneIsFinal EveryJobEnds
CHECK_DEADLOCK FALSE
