CONSTANTS
    Commit = {h1, h2}
    None = None
    MaxRuns = 3
    Trouble = {"kill", "transport", "late", "blind", "disk"}
SPECIFICATION Spec
INVARIANTS TypeOK FailureRestores ServedIsPreviewed EvidenceIsTrue
PROPERTY ProductionFollowsShadow
CHECK_DEADLOCK FALSE
