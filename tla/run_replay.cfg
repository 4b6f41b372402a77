SPECIFICATION Spec
CONSTANTS
    NumCalls = 2
    NeedsApproval = {}
    Effectful = {1, 2}
    NonIdempotent = {2}
    ToolMaxAttempts = 2
    MaxSteps = 4
    MaxTokens = 3
    MaxAttempts = 2
    Profiles = 2
    MaxRepairs = 1
    Planner = "react"
    BlankInput = FALSE
    Requests = {}
    RequestKinds = {"cancel"}
    Faults = TRUE
    Deadlines = FALSE
    MaxRestarts = 2
INVARIANTS SideEffectBounded CompletedCallsAreRecorded ModelCallsBounded
CHECK_DEADLOCK FALSE
