CONSTANTS
    Plan = {p1}
    Refresh = {r1}
    j1 = j1
    j2 = j2
    Job = {j1, j2}
    JobOf <- SharedQuery
    Dispatcher = {d1}
    Worker = {w1}
    None = None
    DispatchLimit = 1
    LeaseLimit = 1
    Threshold = 2
    Cap = 2
    MaxOrders = 0
    MaxAttempts = 2
    Mishap = {}
    MaxMishaps = 0
SPECIFICATION Spec
INVARIANT ReturnedOffersAreVerified
CHECK_DEADLOCK FALSE
