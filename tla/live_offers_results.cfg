CONSTANTS
    Offer = {o1, o2}
    Deal = {d1}
    Confirming <- Singly
    Pass = {p1}
    Job = {j1}
    Plan = {q1}
    None = None
    Straddles = {"results"}
    KillAt <- NoSteps
    MaxKills = 0
SPECIFICATION Spec
INVARIANT VisibleDealIsCorrected
CHECK_DEADLOCK FALSE
