CONSTANTS
    Worker = {w1}
    Call = {c1, c2}
    Recheck = {r1, r2}
    Checkout = {k1}
    None = None
    MaxAttempts = 2
    MaxIngests = 2
    MaxKills = 1
SPECIFICATION Spec
CONSTRAINT FewDisturbances
SYMMETRY Symmetry
INVARIANTS
    TypeOK
    ConfirmedHasEvidence
    EndedIsOver
    EndIsCorrected
    WorkIsHandedOn
PROPERTIES SettledWorkStays EndIsFinal
CHECK_DEADLOCK FALSE
