----------------------------- MODULE AgentDriver -----------------------------
(***************************************************************************)
(* The task that drives a run: AgentRuntime._drive, _drive_observed and    *)
(* _execute with the actions it dispatches to, and the ways the task is    *)
(* interrupted.                                                            *)
(***************************************************************************)
EXTENDS ToolExecutor

\* _drive loads the run; _execute starts where the stored status says.
Boot ==
    /\ At("boot")
    /\ copy' = run
    /\ pc' = IF run.status = "RECEIVED" THEN "accept" ELSE LoopHead(run)
    /\ UNCHANGED <<stores, cur, attempt, cause, goal, cancelReq, history, others>>

\* A received run is validated.
Accept ==
    /\ DriverSave("accept", copy, "VALIDATING", "validate")
    /\ UNCHANGED <<ledger, approvals, ended, cur, attempt, cause, goal, history, others>>

\* The input policy passed.
Validate ==
    /\ DriverSave("validate", copy, "BUILDING_CONTEXT",
                  LoopHead(Saved(copy, "BUILDING_CONTEXT")))
    /\ UNCHANGED <<ledger, approvals, ended, cur, attempt, cause, goal, history, others>>

\* The context is built; planning follows without another look at the limits.
BuildContext ==
    /\ DriverSave("context", copy, "PLANNING", "plan")
    /\ UNCHANGED <<ledger, approvals, ended, cur, attempt, cause, goal, history, others>>

-----------------------------------------------------------------------------
(* Planning: the planner's first action, with the step counted before the  *)
(* save that records it.                                                   *)

OpenCalls(c) == c.pending \ c.completed

DirectPlan(c) == IF c.output THEN "complete" ELSE "model"

ReActPlan(c) == IF OpenCalls(c) # {} THEN "tool" ELSE DirectPlan(c)

\* A registered custom planner may choose any action; a tool only if one is open.
Plans(c) ==
    CASE Planner = "direct"     -> {DirectPlan(c)}
      [] Planner = "react"      -> {ReActPlan(c)}
      [] Planner = "rule_based" -> {IF BlankInput THEN "clarify" ELSE ReActPlan(c)}
      [] Planner = "custom"     -> {"clarify", "model", "complete", "fail"} \cup
                                   {a \in {"tool"} : OpenCalls(c) # {}}

\* Providers issue call ids in increasing order: the first call is the least.
FirstOpenCall(c) == {k \in OpenCalls(c) : \A j \in OpenCalls(c) : k <= j}

Planned(action) == pc = "plan" /\ action \in Plans(copy)

Stepped(c) == [c EXCEPT !.steps = @ + 1]

PlanClarify ==
    /\ Planned("clarify")
    /\ DriverSave("plan", Stepped(copy), "AWAITING_CLARIFICATION", "emit_pause")
    /\ UNCHANGED <<ledger, approvals, ended, cur, attempt, cause, goal, history, others>>

PlanModel ==
    /\ Planned("model")
    /\ DriverSave("plan", Stepped(copy), "INVOKING_MODEL", "model")
    /\ attempt' = 0
    /\ UNCHANGED <<ledger, approvals, ended, cur, cause, goal, history, others>>

\* The call needs an approval it does not have: a request is created first.
PlanApproval ==
    /\ Planned("tool")
    /\ Lands("plan")
    /\ \E c \in FirstOpenCall(copy) :
          /\ c \in NeedsApproval \ copy.approved
          /\ approvals' = Append(approvals, [call |-> c, status |-> "pending", taken |-> {}])
    /\ copy' = [Stepped(copy) EXCEPT !.pause = Len(approvals) + 1]
    /\ pc' = "ask"
    /\ UNCHANGED <<run, ledger, ended, cur, attempt, cause, goal, history, others>>

\* The run is paused on the approval it created.
AskApproval ==
    /\ DriverSave("ask", copy, "AWAITING_APPROVAL", "emit_pause")
    /\ UNCHANGED <<ledger, approvals, ended, cur, attempt, cause, goal, history, others>>

PlanTool ==
    /\ Planned("tool")
    /\ \E c \in FirstOpenCall(copy) :
          /\ c \notin NeedsApproval \ copy.approved
          /\ cur' = c
    /\ DriverSave("plan", Stepped(copy), "INVOKING_TOOL", "t_begin")
    /\ UNCHANGED <<ledger, approvals, ended, attempt, cause, goal, history, others>>

PlanComplete ==
    /\ Planned("complete")
    /\ DriverSave("plan", Stepped(copy), "VERIFYING", "verify")
    /\ UNCHANGED <<ledger, approvals, ended, cur, attempt, cause, goal, history, others>>

PlanFail ==
    /\ Planned("fail")
    /\ DriverSave("plan", Stepped(copy), "FAILED", "emit_end")
    /\ UNCHANGED <<ledger, approvals, ended, cur, attempt, cause, goal, history, others>>

-----------------------------------------------------------------------------
(* The model step. *)

\* The router calls its first candidate, at first or after a backoff.
CallModel ==
    /\ At("model")
    /\ modelCalls' = modelCalls + 1
    /\ tried' = 1
    /\ pc' = "model_reply"
    /\ UNCHANGED <<stores, copy, cur, attempt, cause, goal, cancelReq, invoked, issued, others>>

\* Mutant: a candidate that failed is called again.
CallFallbackMutant ==
    /\ At("model_reply")
    /\ tried < Profiles
    /\ modelCalls' = modelCalls + 1
    /\ UNCHANGED <<stores, pc, copy, cur, attempt, cause, goal, cancelReq, invoked, tried, issued,
                   others>>

\* A candidate failed, retryably or not, and the router calls the next one.  It has
\* fewer candidates than profiles when some are not healthy or not allowed.
CallFallback ==
    /\ At("model_reply")
    /\ tried < Profiles
    /\ modelCalls' = modelCalls + 1
    /\ tried' = tried + 1
    /\ UNCHANGED <<stores, pc, copy, cur, attempt, cause, goal, cancelReq, invoked, issued, others>>

\* A reply with n new tool calls, text or none, charged cost.
Replied(c, n, text, cost) ==
    [c EXCEPT !.output = text, !.pending = (issued + 1)..(issued + n), !.used = @ + cost]

ModelDone(p, cost) ==
    /\ \E n \in 0..(NumCalls - issued), text \in BOOLEAN :
          LET c == Replied(copy, n, text, cost)
          IN  /\ DriverSave(p, c, "PLANNING", LoopHead(Saved(c, "PLANNING")))
              /\ issued' = issued + n
    /\ UNCHANGED <<ledger, approvals, ended, cur, attempt, cause, goal, invoked, modelCalls, tried, others>>

\* The response cache answers; a hit is not charged.
CachedReply == attempt = 0 /\ ModelDone("model", 0)

ModelReply == ModelDone("model_reply", 1)

\* Every candidate failed retryably, or the router returned a completion that was rejected and charged.
\* The retry is given up when the charge exhausts the budget.
ModelRetry ==
    /\ attempt + 1 < MaxAttempts
    /\ \E charge \in 0..1 :
          LET c == [copy EXCEPT !.used = @ + charge, !.attempts = @ + 1]
          IN  IF c.used >= MaxTokens
              THEN /\ At("model_reply")
                   /\ pc' = "h_read"
                   /\ UNCHANGED <<run, copy, cancelReq>>
              ELSE DriverSave("model_reply", c, "RETRYING", "backoff")
    /\ UNCHANGED <<ledger, approvals, ended, cur, attempt, cause, goal, history, others>>

ModelBackoff ==
    /\ DriverSave("backoff", copy, "INVOKING_MODEL", "model")
    /\ attempt' = attempt + 1
    /\ UNCHANGED <<ledger, approvals, ended, cur, cause, goal, history, others>>

-----------------------------------------------------------------------------
(* The tool step's end, verification and completion. *)

ToolDone ==
    /\ LET c == [copy EXCEPT !.completed = @ \cup {cur}, !.pending = @ \ {cur},
                             !.output = FALSE]
       IN  DriverSave("tool_done", c, "BUILDING_CONTEXT",
                      LoopHead(Saved(c, "BUILDING_CONTEXT")))
    /\ UNCHANGED <<ledger, approvals, ended, cur, attempt, cause, goal, history, others>>

VerifyPasses ==
    /\ DriverSave("verify", copy, "COMPOSING", "compose")
    /\ UNCHANGED <<ledger, approvals, ended, cur, attempt, cause, goal, history, others>>

\* A repair is one more attempt; attempt_count also counts model retries.
VerifyFails ==
    /\ IF copy.attempts < MaxRepairs
       THEN DriverSave("verify", [copy EXCEPT !.attempts = @ + 1, !.output = FALSE],
                       "RETRYING", "repair")
       ELSE /\ At("verify")
            /\ pc' = "h_read"
            /\ UNCHANGED <<run, copy, cancelReq>>
    /\ UNCHANGED <<ledger, approvals, ended, cur, attempt, cause, goal, history, others>>

Repair ==
    /\ DriverSave("repair", copy, "PLANNING", LoopHead(Saved(copy, "PLANNING")))
    /\ UNCHANGED <<ledger, approvals, ended, cur, attempt, cause, goal, history, others>>

\* The conversation memory is appended, then the run is completed.
Compose ==
    /\ DriverSave("compose", copy, "COMPLETED", "emit_end")
    /\ UNCHANGED <<ledger, approvals, ended, cur, attempt, cause, goal, history, others>>

\* run.completed or run.failed is published by the step that ended the run.
EmitEnd ==
    /\ Lands("emit_end")
    /\ Publish(copy.status)
    /\ pc' = "finish"
    /\ UNCHANGED <<run, ledger, approvals, copy, cur, attempt, cause, goal, history, others>>

\* approval.required or clarification.required is published; the loop ends.
EmitPause ==
    /\ At("emit_pause")
    /\ pc' = "finish"
    /\ UNCHANGED <<stores, copy, cur, attempt, cause, goal, cancelReq, history, others>>

\* _drive reads the run once more for its span, then the task is done.
Finish ==
    /\ At("finish")
    /\ TaskEnds
    /\ UNCHANGED <<stores, history, others>>

-----------------------------------------------------------------------------
(* Exceptions.  One raised inside the executor's try blocks marks the      *)
(* ledger first; one raised inside _execute reaches the handlers of        *)
(* _drive_observed; any other ends the task.                               *)

\* Where an exception raised at the current await goes on.
Unwind ==
    IF pc \in ToolTry THEN "t_fail"
    ELSE IF pc \in Executing THEN "h_read"
    ELSE "none"

Interrupted(kind) ==
    IF Unwind = "none" THEN TaskEnds
    ELSE /\ pc' = Unwind
         /\ cause' = kind
         /\ cancelReq' = "none"
         /\ UNCHANGED <<copy, cur, attempt, goal>>

\* An await raises: a store, policy, provider or event bus error.
Raise ==
    /\ Faults
    /\ TaskAlive /\ pc # "spin" /\ cancelReq = "none"
    /\ Interrupted("error")
    /\ UNCHANGED <<stores, history, others>>

\* CancelledError is thrown into the task.  After a statement landed, "h_read"
\* is where the await inside _execute already led to, not the handler's own read.
DeliverCancel ==
    /\ TaskAlive /\ pc # "spin" /\ cancelReq # "none"
    /\ IF pc = "h_read" /\ cancelReq = "due"
       THEN /\ cause' = "cancel"
            /\ cancelReq' = "none"
            /\ UNCHANGED <<pc, copy, cur, attempt, goal>>
       ELSE Interrupted("cancel")
    /\ UNCHANGED <<stores, history, others>>

\* asyncio.timeout fires, once; a cancellation already in flight prevails.
DeliverTimeout ==
    /\ deadlinePassed
    /\ pc \in Executing /\ cancelReq = "none" /\ cause # "timeout"
    /\ Interrupted(IF cause = "cancel" THEN "cancel" ELSE "timeout")
    /\ UNCHANGED <<stores, history, others>>

HandlerOutcome(kind) ==
    CASE kind = "error"   -> "FAILED"
      [] kind = "timeout" -> "TIMED_OUT"
      [] kind = "cancel"  -> "CANCELLED"

\* The handler reads the run again.  A cancellation by shutdown rewinds to the
\* recovery checkpoint without validation; otherwise a transition the table
\* forbids lets ConflictError escape and ends the task.
HandlerRead ==
    /\ At("h_read")
    /\ \/ /\ run.status \in TERMINAL_STATUSES
          /\ pc' = "finish"
          /\ copy' = run
          /\ UNCHANGED <<cur, attempt, cause, goal, cancelReq>>
       \/ /\ run.status \notin TERMINAL_STATUSES
          /\ cause = "cancel" /\ phase = "stopping"
          /\ pc' = "h_save"
          /\ copy' = run
          /\ goal' = recovery_status(run.status)
          /\ UNCHANGED <<cur, attempt, cause, cancelReq>>
       \/ /\ run.status \notin TERMINAL_STATUSES
          /\ ~(cause = "cancel" /\ phase = "stopping")
          /\ IF validate_transition(run.status, HandlerOutcome(cause))
             THEN /\ pc' = "h_save"
                  /\ copy' = run
                  /\ goal' = HandlerOutcome(cause)
                  /\ UNCHANGED <<cur, attempt, cause, cancelReq>>
             ELSE TaskEnds
    /\ UNCHANGED <<stores, history, others>>

\* The handler's save; a version conflict escapes and ends the task.
HandlerSave ==
    \/ /\ VersionMatches(copy)
       /\ Lands("h_save")
       /\ run' = Saved(copy, goal)
       /\ copy' = Saved(copy, goal)
       /\ pc' = IF goal \in TERMINAL_STATUSES THEN "h_emit" ELSE "finish"
       /\ UNCHANGED <<ledger, approvals, ended, cur, attempt, cause, goal, history, others>>
    \/ /\ ~VersionMatches(copy)
       /\ At("h_save")
       /\ TaskEnds
       /\ UNCHANGED <<stores, history, others>>

HandlerEmit ==
    /\ Lands("h_emit")
    /\ Publish(goal)
    /\ pc' = "finish"
    /\ UNCHANGED <<run, ledger, approvals, copy, cur, attempt, cause, goal, history, others>>

-----------------------------------------------------------------------------

\* Steps the runtime takes by itself once its stores answer.
RuntimeStep ==
    \/ Boot \/ Accept \/ Validate \/ BuildContext
    \/ PlanClarify \/ PlanModel \/ PlanApproval \/ PlanTool \/ PlanComplete \/ PlanFail
    \/ AskApproval \/ CallModel \/ CachedReply \/ ModelBackoff \/ ToolDone
    \/ VerifyPasses \/ VerifyFails \/ Repair \/ Compose
    \/ EmitEnd \/ EmitPause \/ Finish
    \/ HandlerRead \/ HandlerSave \/ HandlerEmit
    \/ ExecutorStep

\* Steps that wait for a provider or for a tool's handler.
ExternalStep == CallFallback \/ ModelReply \/ ModelRetry \/ HandlerStep

Interrupt == DeliverCancel \/ DeliverTimeout

DriverNext == RuntimeStep \/ ExternalStep \/ Interrupt \/ Raise

=============================================================================
