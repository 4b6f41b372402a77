SPECIFICATION Spec
CONSTANTS
    NumCalls = 0
    NeedsApproval = {}
    Effectful = {}
    NonIdempotent = {}
    ToolMaxAttempts = 2
    MaxSteps = 2
    MaxTokens = 4
    MaxAttempts = 2
    Profiles = 1
    MaxRepairs = 1
    Planner = "react"
    BlankInput = FALSE
    Requests = {}
    RequestKinds = {"cancel", "resume"}
    Faults = FALSE
    Deadlines = TRUE
    MaxRestarts = 0
PROPERTIES TimeoutIsTerminal
CHECK_DEADLOCK FALSE
