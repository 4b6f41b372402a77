SPECIFICATION Spec
CONSTANTS
    NumCalls = 1
    NeedsApproval = {1}
    Effectful = {1}
    NonIdempotent = {}
    ToolMaxAttempts = 2
    MaxSteps = 5
    MaxTokens = 4
    MaxAttempts = 2
    Profiles = 1
    MaxRepairs = 1
    Planner = "react"
    BlankInput = FALSE
    Requests = {r1}
    RequestKinds = {"resume"}
    Faults = FALSE
    Deadlines = FALSE
    MaxRestarts = 0
INVARIANTS NoStrandedRun
CHECK_DEADLOCK FALSE
