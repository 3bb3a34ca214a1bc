CONSTANTS
    Deal = {d1}
    Worker = {w1}
    Cron = {c1}
    Mode = {"PRODUCTION", "SHADOW_ACCEPTANCE"}
    None = None
    ProjectLimit = 1
    LeaseLimit = 1
    LeaseTime = 1
    MaxAttempts = 2
    RetryDelay <- ScaledDelay
    Configured = {"DEAL"}
    MaxAcks = 2
    Killable = {"cron"}
SPECIFICATION FairSpec
INVARIANT DeadDealIsEscalated
PROPERTY EveryDealSettles
CHECK_DEADLOCK FALSE
