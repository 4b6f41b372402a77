-------------------------- MODULE RunStatusMachine --------------------------
(***************************************************************************)
(* What the runtime promises about the stored status of one run, whoever   *)
(* writes it: the driving task, its exception handlers, an API request, or *)
(* recovery after a restart.  Every write installs the next version, moves *)
(* along the transition table or rewinds to a recovery checkpoint, and a   *)
(* terminal status is never left.                                          *)
(***************************************************************************)
EXTENDS Naturals, RunStates

VARIABLES status, version

vars == <<status, version>>

TypeOK ==
    /\ status \in RunStatus \cup {ABSENT}
    /\ version \in Nat

Init ==
    /\ status = ABSENT
    /\ version = 0

\* AgentRuntime.start: the store inserts version 0.
Create ==
    /\ status = ABSENT
    /\ status' = "RECEIVED"
    /\ version' = 0

\* A save that went through validate_transition.
Transition ==
    /\ status # ABSENT
    /\ status' \in ALLOWED_TRANSITIONS[status]
    /\ version' = version + 1

\* A save of the recovery checkpoint, by `recover` or by a task that shutdown
\* cancelled; neither validates the transition.
Rewind ==
    /\ status \in RunStatus \ TERMINAL_STATUSES
    /\ status' = recovery_status(status)
    /\ version' = version + 1

\* `recover` expires a run whose deadline passed while the process was down.
ExpireOnRecovery ==
    /\ status \in RUNNABLE_STATUSES
    /\ status' = "TIMED_OUT"
    /\ version' = version + 1

Next == Create \/ Transition \/ Rewind \/ ExpireOnRecovery

Spec == Init /\ [][Next]_vars

=============================================================================
