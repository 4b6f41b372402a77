---------------------------- MODULE AgentRuntime ----------------------------
(***************************************************************************)
(* The agent runtime around one run: AgentRuntime.start, cancel, resume,   *)
(* recover and shutdown, the driving task of AgentDriver, and the process  *)
(* that may crash between any two awaits.                                  *)
(***************************************************************************)
EXTENDS AgentDriver

IdleRequest == [pc |-> "idle", copy |-> NewRun, decision |-> "none", goal |-> ABSENT]

Init ==
    /\ run = NewRun
    /\ ledger = [c \in Calls |-> "none"]
    /\ approvals = <<>>
    /\ ended = <<>>
    /\ pc = "none"
    /\ copy = NewRun
    /\ cur = 0
    /\ attempt = 0
    /\ cause = "error"
    /\ goal = ABSENT
    /\ cancelReq = "none"
    /\ req = [r \in Requests |-> IdleRequest]
    /\ starter = "none"
    /\ phase = "up"
    /\ restarts = 0
    /\ deadlinePassed = FALSE
    /\ invoked = [c \in Calls |-> 0]
    /\ modelCalls = 0
    /\ tried = 0
    /\ issued = 0

-----------------------------------------------------------------------------
(* start *)

\* The run is created; a draining runtime refuses it.
StartCreate ==
    /\ phase = "up"
    /\ starter = "none"
    /\ run.status = ABSENT
    /\ run' = [NewRun EXCEPT !.status = "RECEIVED"]
    /\ starter' = "emit"
    /\ UNCHANGED <<ledger, approvals, ended, task, req, phase, restarts, deadlinePassed, history>>

\* run.started is published and the task is created.
StartSchedule ==
    /\ starter = "emit"
    /\ starter' = "done"
    /\ pc' = "boot"
    /\ UNCHANGED <<stores, copy, cur, attempt, cause, goal, cancelReq, req,
                   phase, restarts, deadlinePassed, history>>

\* Publishing run.started fails: the run exists and is not scheduled.
StartFails ==
    /\ Faults
    /\ starter = "emit"
    /\ starter' = "done"
    /\ UNCHANGED <<stores, task, req, phase, restarts, deadlinePassed, history>>

-----------------------------------------------------------------------------
(* cancel and resume.  The client knows the run once start has returned.   *)

Receive(r, kind) ==
    /\ phase = "up"
    /\ starter = "done"
    /\ kind \in RequestKinds
    /\ req[r].pc = "idle"

Answer(r) == req' = [req EXCEPT ![r] = IdleRequest]

\* Mutant: cancel saves the status but leaves the task running.
CancelReadMutant(r) ==
    /\ Receive(r, "cancel")
    /\ run.status \notin TERMINAL_STATUSES
    /\ req' = [req EXCEPT ![r] = [IdleRequest EXCEPT !.pc = "c_save", !.copy = run,
                                                     !.goal = "CANCELLED"]]
    /\ UNCHANGED <<stores, task, process, history>>

\* cancel reads the run and, before anything else can run, cancels its task.
CancelRead(r) ==
    /\ Receive(r, "cancel")
    /\ run.status \notin TERMINAL_STATUSES
    /\ req' = [req EXCEPT ![r] = [IdleRequest EXCEPT !.pc = "c_save", !.copy = run,
                                                     !.goal = "CANCELLED"]]
    /\ cancelReq' = IF TaskAlive /\ cancelReq = "none" THEN "asked" ELSE cancelReq
    /\ UNCHANGED <<stores, pc, copy, cur, attempt, cause, goal, process, history>>

\* Mutant: run.cancelled is published although the save was refused.
CancelSaveMutant(r) ==
    /\ req[r].pc = "c_save"
    /\ run' = IF CanTransition(req[r].copy, "CANCELLED")
              THEN Saved(req[r].copy, "CANCELLED") ELSE run
    /\ req' = [req EXCEPT ![r].pc = "emit"]
    /\ UNCHANGED <<ledger, approvals, ended, task, process, history>>

\* The transition to CANCELLED, on the version that was read.
CancelSave(r) ==
    /\ req[r].pc = "c_save"
    /\ IF CanTransition(req[r].copy, "CANCELLED")
       THEN /\ run' = Saved(req[r].copy, "CANCELLED")
            /\ req' = [req EXCEPT ![r].pc = "emit"]
       ELSE /\ Answer(r)
            /\ UNCHANGED run
    /\ UNCHANGED <<ledger, approvals, ended, task, process, history>>

\* resume reads a paused run; any other status is a conflict.  Every member of
\* ApprovalStatus is taken for a decision.
ResumeRead(r) ==
    /\ Receive(r, "resume")
    /\ \/ /\ run.status = "AWAITING_CLARIFICATION"
          /\ req' = [req EXCEPT ![r] = [IdleRequest EXCEPT !.pc = "r_save", !.copy = run,
                                                           !.goal = "BUILDING_CONTEXT"]]
       \/ /\ run.status = "AWAITING_APPROVAL"
          /\ \E d \in ApprovalStatus :
                req' = [req EXCEPT ![r] = [IdleRequest EXCEPT !.pc = "r_decide", !.copy = run,
                                                              !.decision = d]]
    /\ UNCHANGED <<stores, task, process, history>>

\* Mutant: the pause is cleared before the call's id is read from it.
DecidedOrderMutant(rec, c, d) ==
    IF d = "rejected" THEN rec
    ELSE [rec EXCEPT !.approved = @ \cup {0}, !.pause = 0]

\* Mutant: the modified arguments are dropped.
DecidedMutant(rec, c, d) ==
    IF d = "rejected" THEN rec
    ELSE [rec EXCEPT !.approved = @ \cup {c}, !.pause = 0]

\* The record resume saves after decision d on call c.
Decided(rec, c, d) ==
    IF d = "rejected" THEN rec
    ELSE [rec EXCEPT !.approved = @ \cup {c},
                     !.modified = IF d = "modified" THEN @ \cup (rec.pending \cap {c}) ELSE @,
                     !.pause = 0]

\* approvals.decide: a decided or expired approval is a conflict.
ResumeDecide(r) ==
    /\ req[r].pc = "r_decide"
    /\ LET i == req[r].copy.pause
           d == req[r].decision
       IN  \/ /\ approvals[i].status = "pending"
              /\ approvals' = [approvals EXCEPT ![i].status = d, ![i].taken = @ \cup {d}]
              /\ req' = [req EXCEPT ![r].pc = "r_save", ![r].decision = "none",
                                    ![r].copy = Decided(@, approvals[i].call, d),
                                    ![r].goal = IF d = "rejected" THEN "FAILED" ELSE "PLANNING"]
           \/ /\ approvals[i].status = "pending"
              /\ approvals' = [approvals EXCEPT ![i].status = "expired"]
              /\ Answer(r)
           \/ /\ approvals[i].status # "pending"
              /\ Answer(r)
              /\ UNCHANGED approvals
    /\ UNCHANGED <<run, ledger, ended, task, process, history>>

\* The run leaves its pause and _schedule starts a task, unless one is alive.
ResumeSave(r) ==
    /\ req[r].pc = "r_save"
    /\ IF CanTransition(req[r].copy, req[r].goal)
       THEN /\ run' = Saved(req[r].copy, req[r].goal)
            /\ IF req[r].goal = "FAILED"
               THEN /\ req' = [req EXCEPT ![r].pc = "emit"]
                    /\ UNCHANGED pc
               ELSE /\ Answer(r)
                    /\ pc' = IF TaskAlive THEN pc ELSE "boot"
       ELSE /\ Answer(r)
            /\ UNCHANGED <<run, pc>>
    /\ UNCHANGED <<ledger, approvals, ended, copy, cur, attempt, cause, goal, cancelReq,
                   process, history>>

\* run.cancelled or run.failed is published by the request that ended the run.
RequestEmit(r) ==
    /\ req[r].pc = "emit"
    /\ Publish(req[r].goal)
    /\ Answer(r)
    /\ UNCHANGED <<run, ledger, approvals, task, process, history>>

\* A store or the event bus fails the request.
RequestFails(r) ==
    /\ Faults
    /\ req[r].pc # "idle"
    /\ Answer(r)
    /\ UNCHANGED <<stores, task, process, history>>

RequestNext ==
    \E r \in Requests :
        \/ CancelRead(r) \/ CancelSave(r)
        \/ ResumeRead(r) \/ ResumeDecide(r) \/ ResumeSave(r)
        \/ RequestEmit(r) \/ RequestFails(r)

-----------------------------------------------------------------------------
(* The process: deadline, shutdown, crash, restart and recovery. *)

DeadlinePasses ==
    /\ Deadlines
    /\ run.status # ABSENT
    /\ ~deadlinePassed
    /\ deadlinePassed' = TRUE
    /\ UNCHANGED <<stores, task, req, starter, phase, restarts, history>>

\* The server has finished its requests and closes the container; shutdown
\* stops accepting runs and waits for the tasks it finds.
ShutdownBegin ==
    /\ phase = "up"
    /\ starter # "emit"
    /\ \A r \in Requests : req[r].pc = "idle"
    /\ phase' = IF TaskAlive THEN "draining" ELSE "down"
    /\ UNCHANGED <<stores, task, req, starter, restarts, deadlinePassed, history>>

\* Mutant: shutdown waits for leftover tasks without cancelling them.
GraceExpiresMutant ==
    /\ phase = "draining"
    /\ TaskAlive
    /\ phase' = "stopping"
    /\ UNCHANGED <<stores, task, req, starter, restarts, deadlinePassed, history>>

\* The grace period is over: leftover tasks are cancelled.
GraceExpires ==
    /\ phase = "draining"
    /\ TaskAlive
    /\ phase' = "stopping"
    /\ cancelReq' = IF cancelReq = "none" THEN "asked" ELSE cancelReq
    /\ UNCHANGED <<stores, pc, copy, cur, attempt, cause, goal, req,
                   starter, restarts, deadlinePassed, history>>

\* Every task is done and the process exits.
ShutdownEnds ==
    /\ phase \in {"draining", "stopping"}
    /\ ~TaskAlive
    /\ phase' = "down"
    /\ UNCHANGED <<stores, task, req, starter, restarts, deadlinePassed, history>>

\* The process dies; everything but the stores is lost.
Crash ==
    /\ restarts < MaxRestarts
    /\ phase # "down"
    /\ phase' = "down"
    /\ TaskEnds
    /\ req' = [r \in Requests |-> IdleRequest]
    /\ starter' = IF run.status = ABSENT THEN "none" ELSE "done"
    /\ UNCHANGED <<stores, restarts, deadlinePassed, history>>

Restart == phase = "down" /\ restarts < MaxRestarts /\ restarts' = restarts + 1

\* recover: a terminal, paused or absent run is left alone.
RecoverNothing ==
    /\ Restart
    /\ run.status \notin RUNNABLE_STATUSES
    /\ phase' = "up"
    /\ UNCHANGED <<stores, task, req, starter, deadlinePassed, history>>

\* recover: the deadline passed while nobody drove the run.
RecoverExpired ==
    /\ Restart
    /\ run.status \in RUNNABLE_STATUSES
    /\ deadlinePassed
    /\ run' = Saved(run, "TIMED_OUT")
    /\ phase' = "recovering"
    /\ UNCHANGED <<ledger, approvals, ended, task, req, starter, deadlinePassed, history>>

\* run.failed follows, before requests are served.
RecoverEmit ==
    /\ phase = "recovering"
    /\ Publish("TIMED_OUT")
    /\ phase' = "up"
    /\ UNCHANGED <<run, ledger, approvals, task, req, starter, restarts, deadlinePassed, history>>

\* Mutant: an interrupted run is scheduled without being rewound.
RecoverAsIsMutant ==
    /\ Restart
    /\ run.status \in RUNNABLE_STATUSES
    /\ ~deadlinePassed
    /\ pc' = "boot"
    /\ phase' = "up"
    /\ UNCHANGED <<stores, copy, cur, attempt, cause, goal, cancelReq,
                   req, starter, deadlinePassed, history>>

\* recover: the run is rewound to its checkpoint if need be, and scheduled.
RecoverRun ==
    /\ Restart
    /\ run.status \in RUNNABLE_STATUSES
    /\ ~deadlinePassed
    /\ run' = IF recovery_status(run.status) = run.status
              THEN run ELSE Saved(run, recovery_status(run.status))
    /\ pc' = "boot"
    /\ phase' = "up"
    /\ UNCHANGED <<ledger, approvals, ended, copy, cur, attempt, cause, goal, cancelReq,
                   req, starter, deadlinePassed, history>>

ProcessNext ==
    \/ StartCreate \/ StartSchedule \/ StartFails
    \/ DeadlinePasses \/ ShutdownBegin \/ GraceExpires \/ ShutdownEnds
    \/ Crash \/ RecoverNothing \/ RecoverExpired \/ RecoverEmit \/ RecoverRun

Next == DriverNext \/ RequestNext \/ ProcessNext

Spec == Init /\ [][Next]_vars

\* A suspended task resumes once its store answers, a thrown interrupt arrives,
\* and shutdown goes on; nobody promises that a provider or a tool answers.
Fairness ==
    /\ WF_vars(RuntimeStep)
    /\ WF_vars(Interrupt)
    /\ WF_vars(GraceExpires)
    /\ WF_vars(ShutdownEnds)

FairSpec == Spec /\ Fairness

-----------------------------------------------------------------------------
(* Properties. *)

ApprovalRecord == [call: Calls, status: ApprovalStatus, taken: SUBSET ApprovalStatus]

RequestRecord ==
    [pc: {"idle", "c_save", "r_decide", "r_save", "emit"}, copy: RunRecord,
     decision: ApprovalStatus \cup {"none"}, goal: RunStatus \cup {ABSENT}]

\* Every variable holds a value of the shape the runtime gives it.
TypeOK ==
    /\ run \in RunRecord
    /\ ledger \in [Calls -> LedgerStatus]
    /\ approvals \in Seq(ApprovalRecord)
    /\ ended \in Seq({"run.completed", "run.failed", "run.cancelled"})
    /\ pc \in PCs
    /\ copy \in RunRecord
    /\ cur \in Calls \cup {0}
    /\ attempt \in Nat
    /\ cause \in {"error", "timeout", "cancel"}
    /\ goal \in RunStatus \cup {ABSENT}
    /\ cancelReq \in {"none", "asked", "due"}
    /\ req \in [Requests -> RequestRecord]
    /\ starter \in {"none", "emit", "done"}
    /\ phase \in {"up", "draining", "stopping", "down", "recovering"}
    /\ restarts \in Nat
    /\ deadlinePassed \in BOOLEAN
    /\ invoked \in [Calls -> Nat]
    /\ modelCalls \in Nat
    /\ tried \in Nat
    /\ issued \in Nat

\* The stored status and version of the run, as RunStatusMachine promises them.
Status == INSTANCE RunStatusMachine WITH status <- run.status, version <- run.version

\* A copy of the run some actor holds: one with the stored version has the
\* stored status, so a save that passes the version check validated the right one.
Coherent(c) ==
    /\ c.status \in RunStatus
    /\ c.version <= run.version
    /\ c.version = run.version => c.status = run.status

\* A record that awaits approval names an approval that exists.
PauseResolves(c) ==
    /\ c.pause <= Len(approvals)
    /\ c.status = "AWAITING_APPROVAL" => c.pause > 0

\* What a handler is about to save from its copy is a transition or a rewind.
HandlerGoal ==
    \/ goal \in TERMINAL_STATUSES \cap ALLOWED_TRANSITIONS[copy.status]
    \/ copy.status \notin TERMINAL_STATUSES /\ goal = recovery_status(copy.status)

TaskInv ==
    /\ PauseResolves(copy)
    /\ pc \notin {"none", "boot"} => Coherent(copy)
    /\ pc = "ask" => copy.pause > 0
    /\ pc \in ToolAwaits => cur \in Calls
    /\ pc = "h_save" => HandlerGoal

RequestInv(r) ==
    /\ req[r].copy.pause <= Len(approvals)
    /\ req[r].pc # "idle" => Coherent(req[r].copy)
    /\ req[r].pc = "r_decide" => req[r].copy.pause > 0 /\ req[r].decision \in ApprovalStatus
    /\ req[r].pc = "r_save" => req[r].goal \in {"BUILDING_CONTEXT", "PLANNING", "FAILED"}

\* The inductive invariant behind StatusRefinement: type correctness, coherence of
\* every copy, and that nobody acts on a run that was not created.
IInv ==
    /\ TypeOK
    /\ PauseResolves(run)
    /\ TaskInv
    /\ \A r \in Requests : RequestInv(r)
    /\ run.status = ABSENT => run.version = 0 /\ starter = "none" /\ ~TaskAlive

\* The runtime implements the status machine: whichever of the driving task, its
\* exception handlers, a cancel, a resume, shutdown or recovery wins a race, the
\* stored row only moves along the table, rewinds to a checkpoint, or expires.
StatusRefinement == Status!Spec

\* A run that ended publishes at most one terminal event, of the type that
\* matches the status it ended with, however many actors tried to end it.
TerminalEventMatches ==
    /\ Len(ended) <= 1
    /\ \A i \in DOMAIN ended :
          /\ run.status \in TERMINAL_STATUSES
          /\ ended[i] = TerminalEvent(run.status)

\* A tool with side effects is invoked for a call no more often than its own
\* retry policy allows, across cancellations, restarts and recoveries.
SideEffectBounded == \A c \in Effectful : invoked[c] <= ToolAttempts(c)

\* The inductive invariant behind SideEffectBounded: a call with side effects never
\* returns to a status begin would reserve, so it is reserved at most once, and
\* within the reservation the attempt counter counts its invocations.
EffectsInv ==
    /\ SideEffectBounded
    /\ \A c \in Effectful : ledger[c] # "failed" /\ (ledger[c] = "none" => invoked[c] = 0)
    /\ cur \in Effectful =>
          /\ pc = "t_wait" => attempt = 0 /\ invoked[cur] = 0 /\ ledger[cur] # "none"
          /\ pc \in {"t_run", "t_backoff"} =>
                invoked[cur] = attempt + 1 /\ ledger[cur] # "none"
    /\ pc = "t_backoff" => attempt + 1 < ToolAttempts(cur)

\* The checkpoint says a call is completed only if the ledger kept its result.
CompletedCallsAreRecorded == \A c \in run.completed : ledger[c] = "completed"

\* However often the run is interrupted and recovered, the providers are called, as a
\* first choice or as a fallback, no more often than its steps, the retry policy and
\* the number of its models allow.
ModelCallsBounded == modelCalls <= MaxSteps * (MaxAttempts * Profiles)

\* The decisions resume says it accepts.
DocumentedDecisions == {"approved", "rejected", "modified"}

\* A decision taken on the request a lets call c run, with modified arguments or not;
\* and if only documented decisions were taken, one was, and the row still says which.
Opened(a, c, modified) ==
    /\ a.call = c
    /\ \E d \in a.taken : d # "rejected" /\ (d = "modified" <=> modified)
    /\ a.taken \subseteq DocumentedDecisions => a.taken = {a.status}

\* Whichever clients race to decide, a call that needs approval is invoked only after
\* resume took a decision on a request for it that is not a rejection, with the modified
\* arguments exactly when that decision modified them; and among documented decisions
\* it was the only one.
DecisionGate ==
    [][\A c \in NeedsApproval : invoked'[c] > invoked[c] =>
          \E i \in DOMAIN approvals : Opened(approvals[i], c, c \in copy.modified)]_vars

\* A call that needs approval is invoked only if a request for it is approved or
\* modified: resume refuses every other decision.
ApprovalGate ==
    [][\A c \in NeedsApproval : invoked'[c] > invoked[c] =>
          \E i \in DOMAIN approvals :
              approvals[i].call = c /\ approvals[i].status \in {"approved", "modified"}]_vars

\* Once the stored run is terminal no provider call and no tool handler starts.
NoWorkAfterTerminal ==
    [][run.status \in TERMINAL_STATUSES =>
          modelCalls' = modelCalls /\ invoked' = invoked]_vars

\* A run that a task is expected to be driving has a task, or somebody about to
\* create one.
NoStrandedRun ==
    (/\ phase = "up"
     /\ starter = "done"
     /\ run.status \in RUNNABLE_STATUSES
     /\ \A r \in Requests : req[r].pc = "idle") => TaskAlive

\* A task that ends because the deadline interrupted it leaves a terminal run.
TimeoutIsTerminal ==
    [][cause = "timeout" /\ TaskAlive /\ ~TaskAlive' => run.status \in TERMINAL_STATUSES]_vars

\* Past its deadline every task ends, although a provider or a tool never answers.
TaskEndsAfterDeadline == (deadlinePassed /\ TaskAlive) ~> ~TaskAlive

\* Shutdown ends although a provider or a tool never answers.
ShutdownCompletes == (phase \in {"draining", "stopping"}) ~> (phase = "down")

=============================================================================
