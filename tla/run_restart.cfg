SPECIFICATION FairSpec
CONSTANTS
    NumCalls = 1
    NeedsApproval = {1}
    Effectful = {}
    NonIdempotent = {}
    ToolMaxAttempts = 1
    MaxSteps = 3
    MaxTokens = 2
    MaxAttempts = 1
    Profiles = 1
    MaxRepairs = 0
    Planner = "custom"
    BlankInput = FALSE
    Requests = {r1}
    RequestKinds = {"cancel", "resume"}
    Faults = FALSE
    Deadlines = TRUE
    MaxRestarts = 1
INVARIANTS TerminalEventMatches
PROPERTIES TaskEndsAfterDeadline ShutdownCompletes
CHECK_DEADLOCK FALSE
