CONSTANTS
    Events = 3
    Faulty = {1}
    Invocation = {i1, i2}
    MaxAttempts = 2
    ClaimLimit = 2
    MaxKills = 2
    MaxOverlaps = 1
SPECIFICATION FairSpec
INVARIANTS TypeOK DeadIsReported AloneTicksAreSound
PROPERTIES KeepsContract EveryEventSettles
