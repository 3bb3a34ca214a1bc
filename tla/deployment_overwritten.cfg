CONSTANTS
    Commit = {h1, h2}
    None = None
    MaxRuns = 3
    Trouble = {"blind"}
SPECIFICATION Spec
INVARIANT ProductionIsNotOverwritten
CHECK_DEADLOCK FALSE
