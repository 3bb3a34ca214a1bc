CONSTANTS
    Deal = {d1}
    Worker = {w1, w2}
    Cron = {c1}
    Mode = {"PRODUCTION", "SHADOW_ACCEPTANCE"}
    None = None
    ProjectLimit = 1
    LeaseLimit = 1
    LeaseTime = 1
    MaxAttempts = 2
    RetryDelay <- ScaledDelay
    Configured = {"DEAL"}
    MaxAcks = 1
    Killable = {"cron", "ack"}
SPECIFICATION Spec
SYMMETRY Interchangeable
INVARIANTS TypeOK NoAlertLost DeliveredByItsClaimant
PROPERTY KeepsContract
CHECK_DEADLOCK FALSE
