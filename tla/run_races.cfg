SPECIFICATION Spec
CONSTANTS
    NumCalls = 1
    NeedsApproval = {1}
    Effectful = {1}
    NonIdempotent = {}
    ToolMaxAttempts = 1
    MaxSteps = 4
    MaxTokens = 3
    MaxAttempts = 1
    Profiles = 1
    MaxRepairs = 0
    Planner = "react"
    BlankInput = FALSE
    Requests = {r1, r2}
    RequestKinds = {"cancel", "resume"}
    Faults = TRUE
    Deadlines = TRUE
    MaxRestarts = 0
INVARIANTS TypeOK TerminalEventMatches
PROPERTIES StatusRefinement DecisionGate NoWorkAfterTerminal
SYMMETRY Symmetry
CHECK_DEADLOCK FALSE
