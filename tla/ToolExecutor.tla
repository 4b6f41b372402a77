---------------------------- MODULE ToolExecutor ----------------------------
(***************************************************************************)
(* ToolExecutor.execute: reserve the call in the ledger, wait for the      *)
(* cache and the concurrency semaphore, invoke the handler with retries,   *)
(* and record the outcome.  The driving task runs it for the call `cur`.   *)
(***************************************************************************)
EXTENDS AgentRun

\* Permissions, schema and policy passed; begin() reserves the call, replays a
\* completed one, or refuses one whose outcome is unknown.
Begin ==
    /\ pc = "t_begin"
    /\ \/ /\ CanReserve(cur)
          /\ Lands("t_begin")
          /\ ledger' = LedgerSet(cur, "started")
          /\ pc' = "t_wait"
          /\ attempt' = 0
       \/ /\ ledger[cur] = "completed"
          /\ At("t_begin")
          /\ pc' = "tool_done"
          /\ UNCHANGED <<ledger, attempt, cancelReq>>
       \/ /\ ledger[cur] \in {"started", "indeterminate"}
          /\ At("t_begin")
          /\ pc' = "h_read"
          /\ UNCHANGED <<ledger, attempt, cancelReq>>
    /\ UNCHANGED <<run, approvals, ended, copy, cur, cause, goal, history, others>>

\* The result cache answers for a read-only tool; the handler is not invoked.
CachedResult ==
    /\ cur \notin Effectful \cup NonIdempotent
    /\ Lands("t_wait")
    /\ ledger' = LedgerSet(cur, "completed")
    /\ pc' = "tool_done"
    /\ UNCHANGED <<run, approvals, ended, copy, cur, attempt, cause, goal, history, others>>

\* The semaphore is acquired and the handler starts.
Invoke ==
    /\ At("t_wait")
    /\ invoked' = [invoked EXCEPT ![cur] = @ + 1]
    /\ pc' = "t_run"
    /\ UNCHANGED <<stores, copy, cur, attempt, cause, goal, cancelReq, modelCalls, tried, issued, others>>

\* The handler returns.
HandlerReturns ==
    /\ At("t_run")
    /\ pc' = "t_complete"
    /\ UNCHANGED <<stores, copy, cur, attempt, cause, goal, cancelReq, history, others>>

\* The handler timed out or raised, and has an attempt left.
HandlerFails ==
    /\ At("t_run")
    /\ attempt + 1 < ToolAttempts(cur)
    /\ pc' = "t_backoff"
    /\ UNCHANGED <<stores, copy, cur, attempt, cause, goal, cancelReq, history, others>>

\* The handler failed for good, or its output was refused.
HandlerRaises ==
    /\ \/ At("t_run")
       \/ At("t_complete")
    /\ pc' = "t_fail"
    /\ UNCHANGED <<stores, copy, cur, attempt, cause, goal, cancelReq, history, others>>

\* The backoff is over and the handler is invoked again.
InvokeAgain ==
    /\ At("t_backoff")
    /\ invoked' = [invoked EXCEPT ![cur] = @ + 1]
    /\ attempt' = attempt + 1
    /\ pc' = "t_run"
    /\ UNCHANGED <<stores, copy, cur, cause, goal, cancelReq, modelCalls, tried, issued, others>>

\* Mutant: the result is returned without being recorded.
CompleteMutant ==
    /\ Lands("t_complete")
    /\ pc' = "t_return"
    /\ UNCHANGED <<stores, copy, cur, attempt, cause, goal, history, others>>

\* Output schema and policy passed; complete() records the result.
Complete ==
    /\ Lands("t_complete")
    /\ ledger' = LedgerSet(cur, "completed")
    /\ pc' = "t_return"
    /\ UNCHANGED <<run, approvals, ended, copy, cur, attempt, cause, goal, history, others>>

\* The result is cached and returned; until then an exception still marks it.
Return ==
    /\ At("t_return")
    /\ pc' = "tool_done"
    /\ UNCHANGED <<stores, copy, cur, attempt, cause, goal, cancelReq, history, others>>

\* fail() overwrites the record, then the exception goes on.
Fail ==
    /\ Lands("t_fail")
    /\ ledger' = LedgerSet(cur, FailureStatus(cur))
    /\ pc' = "h_read"
    /\ UNCHANGED <<run, approvals, ended, copy, cur, attempt, cause, goal, history, others>>

\* What execute does by itself; the handler's return is the tool's business.
ExecutorStep ==
    \/ Begin \/ CachedResult \/ Invoke \/ InvokeAgain
    \/ Complete \/ Return \/ Fail

HandlerStep == HandlerReturns \/ HandlerFails \/ HandlerRaises

=============================================================================
