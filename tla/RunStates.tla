----------------------------- MODULE RunStates -----------------------------
(***************************************************************************)
(* The status vocabulary of a run and the two tables every writer of a run *)
(* goes through: the transitions `validate_transition` accepts and the     *)
(* checkpoint `_recovery_status` rewinds an interrupted run to.            *)
(***************************************************************************)

\* A run that `AgentRuntime.start` has not created yet.
ABSENT == "ABSENT"

TERMINAL_STATUSES == {"COMPLETED", "FAILED", "CANCELLED", "TIMED_OUT"}

PAUSED_STATUSES == {"AWAITING_CLARIFICATION", "AWAITING_APPROVAL"}

RunStatus ==
    TERMINAL_STATUSES \cup PAUSED_STATUSES \cup
    {"RECEIVED", "VALIDATING", "BUILDING_CONTEXT", "PLANNING",
     "INVOKING_MODEL", "INVOKING_TOOL", "VERIFYING", "RETRYING", "COMPOSING"}

\* A status whose run some task is expected to be driving.
RUNNABLE_STATUSES == RunStatus \ (TERMINAL_STATUSES \cup PAUSED_STATUSES)

ALLOWED_TRANSITIONS ==
    [s \in RunStatus |->
      CASE s = "RECEIVED"         -> {"VALIDATING", "CANCELLED"}
        [] s = "VALIDATING"       -> {"BUILDING_CONTEXT", "FAILED", "CANCELLED"}
        [] s = "BUILDING_CONTEXT" -> {"PLANNING", "RETRYING", "FAILED", "CANCELLED"}
        [] s = "PLANNING"         -> {"INVOKING_MODEL", "INVOKING_TOOL",
                                      "AWAITING_CLARIFICATION", "AWAITING_APPROVAL",
                                      "VERIFYING", "COMPOSING", "RETRYING",
                                      "FAILED", "CANCELLED"}
        [] s = "AWAITING_CLARIFICATION" -> {"BUILDING_CONTEXT", "CANCELLED", "TIMED_OUT"}
        [] s = "AWAITING_APPROVAL" -> {"PLANNING", "CANCELLED", "FAILED", "TIMED_OUT"}
        [] s = "INVOKING_MODEL"   -> {"PLANNING", "VERIFYING", "RETRYING",
                                      "FAILED", "CANCELLED", "TIMED_OUT"}
        [] s = "INVOKING_TOOL"    -> {"BUILDING_CONTEXT", "PLANNING", "RETRYING",
                                      "FAILED", "CANCELLED", "TIMED_OUT"}
        [] s = "VERIFYING"        -> {"COMPOSING", "RETRYING", "FAILED", "CANCELLED"}
        [] s = "RETRYING"         -> {"BUILDING_CONTEXT", "PLANNING", "INVOKING_MODEL",
                                      "INVOKING_TOOL", "FAILED", "CANCELLED", "TIMED_OUT"}
        [] s = "COMPOSING"        -> {"COMPLETED", "FAILED", "CANCELLED"}
        [] s \in TERMINAL_STATUSES -> {}]

validate_transition(current, target) == target \in ALLOWED_TRANSITIONS[current]

\* An interrupted provider or tool step is taken again from planning; an
\* interrupted input validation from the start.
recovery_status(status) ==
    CASE status = "VALIDATING" -> "RECEIVED"
      [] status \in {"INVOKING_MODEL", "INVOKING_TOOL", "VERIFYING",
                     "RETRYING", "COMPOSING"} -> "PLANNING"
      [] OTHER -> status

=============================================================================
