CONSTANTS
    Commit = {h1, h2}
    None = None
    MaxRuns = 2
    Trouble = {"transport"}
SPECIFICATION Spec
INVARIANT FailedReleaseIsUndone
CHECK_DEADLOCK FALSE
