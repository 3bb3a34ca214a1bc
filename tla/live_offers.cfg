CONSTANTS
    Offer = {o1, o2}
    Deal = {d1}
    Confirming <- Singly
    Pass = {p1}
    Job = {j1}
    Plan = {q1}
    None = None
    Straddles = {}
    KillAt <- Recoverable
    MaxKills = 1
SPECIFICATION Spec
INVARIANTS
    TypeOK
    UnsentDealIsSuppressed
    VisibleDealIsCorrected
    ConfirmedIsWatched
    RepriceIsJoined
PROPERTIES ExpiriesAreWorkedOff
CHECK_DEADLOCK FALSE
