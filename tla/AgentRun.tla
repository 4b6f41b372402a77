------------------------------ MODULE AgentRun ------------------------------
(***************************************************************************)
(* The state one run of the agent runtime lives in, in the durable single- *)
(* node deployment: the rows PostgreSQL keeps for it, the asyncio task     *)
(* that drives it, the API requests that address it and the life of the    *)
(* process.  The modules ToolExecutor, AgentDriver and AgentRuntime act on *)
(* this state; the stores' own operations are defined here.                *)
(*                                                                         *)
(* A task is modelled by the await it is suspended at: `pc` names the      *)
(* await, and a step is the effect of that await followed by the code the  *)
(* task runs up to its next await.  Awaits that change nothing another     *)
(* actor can see (policy checks, context building, progress events, audit  *)
(* rows) are merged into the next await that does.                         *)
(***************************************************************************)
EXTENDS Integers, Sequences, FiniteSets, RunStates

CONSTANTS
    NumCalls,       \* tool calls the model may request in all, ids 1..NumCalls
    NeedsApproval,  \* calls for which the plan_tool policy requires approval
    Effectful,      \* calls of tools whose side effect is not none or read
    NonIdempotent,  \* calls of tools declared NON_IDEMPOTENT
    ToolMaxAttempts,\* a tool's retry_policy.max_attempts
    MaxSteps,       \* agent.max_steps
    MaxTokens,      \* agent.budget.max_tokens, one per charged completion
    MaxAttempts,    \* agent.retry_policy.max_attempts
    Profiles,       \* the agent's models: default_model and its fallback_models
    MaxRepairs,     \* agent.verification_policy.max_repairs
    Planner,        \* agent.planning_strategy
    BlankInput,     \* whether the request's input is blank
    Requests,       \* API requests that can be in flight together
    RequestKinds,   \* which of "cancel" and "resume" the clients send
    Faults,         \* whether an await may raise (store, provider, policy)
    Deadlines,      \* whether the run's deadline may pass
    MaxRestarts     \* how often the process may be started again

Calls == 1..NumCalls

ToolAttempts(c) == IF c \in NonIdempotent THEN 1 ELSE ToolMaxAttempts

ApprovalStatus == {"pending", "approved", "rejected", "modified", "expired"}

ASSUME CallsAssumption ==
    /\ NumCalls \in Nat
    /\ NeedsApproval \subseteq Calls
    /\ Effectful \subseteq Calls
    /\ NonIdempotent \subseteq Calls

ASSUME BoundsAssumption ==
    /\ ToolMaxAttempts \in Nat \ {0}
    /\ MaxSteps \in Nat \ {0}
    /\ MaxTokens \in Nat \ {0}
    /\ MaxAttempts \in Nat \ {0}
    /\ Profiles \in Nat \ {0}
    /\ MaxRepairs \in Nat
    /\ MaxRestarts \in Nat

ASSUME EnvironmentAssumption ==
    /\ Planner \in {"direct", "react", "rule_based", "custom"}
    /\ BlankInput \in BOOLEAN
    /\ RequestKinds \subseteq {"cancel", "resume"}
    /\ Faults \in BOOLEAN
    /\ Deadlines \in BOOLEAN

VARIABLES
    run,        \* the row of traccia_runtime_runs: the stored RunState
    ledger,     \* traccia_runtime_tool_executions, by idempotency key run:call
    approvals,  \* traccia_runtime_approvals, in order of creation, with the
                \* decisions taken on each
    ended,      \* terminal events published for the run
    pc,         \* the await the driving task is suspended at, "none" without task
    copy,       \* the RunState object the task works on
    cur,        \* the tool call the task is executing
    attempt,    \* index of the current model or tool attempt
    cause,      \* the exception in flight: an error, a timeout, a cancellation
    goal,       \* the status the exception handler is saving
    cancelReq,  \* a task.cancel() that is not delivered yet
    req,        \* the API requests
    starter,    \* progress of AgentRuntime.start
    phase,      \* the life of the process
    restarts,   \* how often the process was started again
    deadlinePassed,
    invoked,    \* how often a call's handler was really invoked
    modelCalls, \* how often a provider was really called
    tried,      \* how many candidates the present router call has called
    issued      \* tool calls the provider has issued so far

stores  == <<run, ledger, approvals, ended>>
task    == <<pc, copy, cur, attempt, cause, goal, cancelReq>>
process == <<starter, phase, restarts, deadlinePassed>>
history == <<invoked, modelCalls, tried, issued>>
vars    == <<stores, task, req, process, history>>

\* What a step of the driving task leaves to the other actors.
others  == <<req, process>>

-----------------------------------------------------------------------------
(* The stored record and its optimistic save. *)

\* The fields of RunState that decide control: messages, citations and
\* summaries are left out, output is whether output_text is non-empty.
RunRecord ==
    [status: RunStatus \cup {ABSENT}, version: Nat, steps: Nat, attempts: Nat,
     used: Nat, output: BOOLEAN, pending: SUBSET Calls, completed: SUBSET Calls,
     approved: SUBSET Calls, modified: SUBSET Calls, pause: Nat]

NewRun ==
    [status |-> ABSENT, version |-> 0, steps |-> 0, attempts |-> 0, used |-> 0,
     output |-> FALSE, pending |-> {}, completed |-> {}, approved |-> {},
     modified |-> {}, pause |-> 0]

\* Mutant: the UPDATE lost its version condition.
VersionMatchesMutant(c) == TRUE

\* The store replaces the row only if it still has the version that was read.
VersionMatches(c) == c.version = run.version

\* The outcome of a successful save of record c with status target.
Saved(c, target) == [c EXCEPT !.status = target, !.version = @ + 1]

\* _transition succeeds: the table allows it and the version is current.
CanTransition(c, target) ==
    /\ validate_transition(c.status, target)
    /\ VersionMatches(c)

-----------------------------------------------------------------------------
(* Events: only the ones that end a subscriber's stream are recorded. *)

TerminalEvent(status) ==
    CASE status = "COMPLETED" -> "run.completed"
      [] status = "CANCELLED" -> "run.cancelled"
      [] OTHER -> "run.failed"

Publish(status) == ended' = Append(ended, TerminalEvent(status))

-----------------------------------------------------------------------------
(* The ledger of tool executions. *)

LedgerStatus == {"none", "started", "completed", "failed", "indeterminate"}

\* begin reserves a call that has no record or a failed one.
CanReserve(c) == ledger[c] \in {"none", "failed"}

LedgerSet(c, status) == [ledger EXCEPT ![c] = status]

\* Mutant: every failed call may be reserved again.
FailureStatusMutant(c) == "failed"

\* fail: a side effect that may have happened is not known to have failed.
FailureStatus(c) == IF c \in Effectful THEN "indeterminate" ELSE "failed"

-----------------------------------------------------------------------------
(* The awaits of the driving task. *)

\* Inside the executor's try blocks, where any exception marks the ledger.
ToolTry == {"t_run", "t_backoff", "t_complete", "t_return"}

\* From the call's INVOKING_TOOL checkpoint to its completion.
ToolAwaits == ToolTry \cup {"t_begin", "t_wait", "t_fail", "tool_done"}

\* Inside _execute, under asyncio.timeout.
Executing ==
    ToolAwaits \cup
    {"accept", "validate", "context", "plan", "model", "model_reply", "backoff",
     "ask", "verify", "repair", "compose", "emit_pause", "emit_end"}

Handling == {"h_read", "h_save", "h_emit"}

\* "spin" is a loop without an await: the task never yields to anyone.
PCs == Executing \cup Handling \cup {"none", "boot", "finish", "spin"}

TaskAlive == pc # "none"

\* The task goes on from an await no cancellation has reached.
At(p) == pc = p /\ cancelReq = "none"

\* A statement already sent to PostgreSQL takes effect although the task was
\* cancelled meanwhile; the cancellation is then the next thing it sees.
Lands(p) ==
    /\ pc = p
    /\ cancelReq # "due"
    /\ cancelReq' = IF cancelReq = "asked" THEN "due" ELSE "none"

\* The head of _execute's loop, where it goes on from record c.
LoopHead(c) ==
    IF c.status \in TERMINAL_STATUSES \cup PAUSED_STATUSES THEN "finish"
    ELSE IF c.steps >= MaxSteps \/ c.used >= MaxTokens THEN "h_read"
    ELSE IF c.status = "BUILDING_CONTEXT" THEN "context"
    ELSE IF c.status = "PLANNING" THEN "plan"
    ELSE "spin"

\* `await self._transition(state, target)` in the driving task.  A stale version
\* or a transition the table forbids raises ConflictError.
DriverSave(p, c, target, next) ==
    /\ Lands(p)
    /\ IF CanTransition(c, target)
       THEN /\ run' = Saved(c, target)
            /\ copy' = Saved(c, target)
            /\ pc' = next
       ELSE /\ cancelReq = "none"
            /\ pc' = "h_read"
            /\ UNCHANGED <<run, copy>>

\* A task that returns or lets an exception escape; its locals go with it.
TaskEnds ==
    /\ pc' = "none"
    /\ copy' = NewRun
    /\ cur' = 0
    /\ attempt' = 0
    /\ cause' = "error"
    /\ goal' = ABSENT
    /\ cancelReq' = "none"

=============================================================================
