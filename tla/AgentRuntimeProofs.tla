------------------------- MODULE AgentRuntimeProofs -------------------------
(***************************************************************************)
(* Proofs about AgentRuntime, for every value of its constants.  IInv is   *)
(* inductive; type correctness follows from it, and every step that keeps  *)
(* it is a step of RunStatusMachine or leaves status and version alone.    *)
(***************************************************************************)
EXTENDS AgentRuntime, TLAPS

\* The step of RunStatusMachine a step of the runtime stands for.
StatusStep == [Status!Next]_(Status!vars)

-----------------------------------------------------------------------------
(* Tables and records. *)

\* The instance of RunStatusMachine reads the same tables.
LEMMA SameTables ==
    /\ Status!ALLOWED_TRANSITIONS = ALLOWED_TRANSITIONS
    /\ Status!RunStatus = RunStatus
    /\ Status!TERMINAL_STATUSES = TERMINAL_STATUSES
    /\ Status!RUNNABLE_STATUSES = RUNNABLE_STATUSES
    /\ Status!ABSENT = ABSENT
    /\ \A s : Status!recovery_status(s) = recovery_status(s)
  BY DEF Status!ALLOWED_TRANSITIONS, ALLOWED_TRANSITIONS, Status!RunStatus, RunStatus,
         Status!TERMINAL_STATUSES, TERMINAL_STATUSES, Status!PAUSED_STATUSES, PAUSED_STATUSES,
         Status!RUNNABLE_STATUSES, RUNNABLE_STATUSES, Status!ABSENT, ABSENT,
         Status!recovery_status, recovery_status

\* The table and the recovery checkpoint stay within the statuses, and recovery
\* neither ends a run nor pauses one.
LEMMA StatusTables ==
    /\ ABSENT \notin RunStatus
    /\ TERMINAL_STATUSES \subseteq RunStatus
    /\ \A s \in RunStatus : ALLOWED_TRANSITIONS[s] \subseteq RunStatus
    /\ \A s \in RunStatus : recovery_status(s) \in RunStatus
    /\ \A s \in RunStatus : recovery_status(s) = "AWAITING_APPROVAL" => s = "AWAITING_APPROVAL"
    /\ \A s \in RunStatus \ TERMINAL_STATUSES : recovery_status(s) \notin TERMINAL_STATUSES
  BY DEF ABSENT, RunStatus, TERMINAL_STATUSES, PAUSED_STATUSES, ALLOWED_TRANSITIONS,
         recovery_status

\* Updating some fields of a record with values of their types gives a record.
LEMMA RecordUpdate ==
    ASSUME NEW c \in RunRecord
    PROVE  /\ \A t \in RunStatus, n \in Nat : [c EXCEPT !.status = t, !.version = n] \in RunRecord
           /\ \A n \in Nat : [c EXCEPT !.steps = n] \in RunRecord
           /\ \A n \in Nat : [c EXCEPT !.pause = n] \in RunRecord
           /\ \A n, m \in Nat : [c EXCEPT !.used = n, !.attempts = m] \in RunRecord
           /\ \A n \in Nat, b \in BOOLEAN : [c EXCEPT !.attempts = n, !.output = b] \in RunRecord
           /\ \A b \in BOOLEAN, S \in SUBSET Calls, n \in Nat :
                 [c EXCEPT !.output = b, !.pending = S, !.used = n] \in RunRecord
           /\ \A S, T \in SUBSET Calls, b \in BOOLEAN :
                 [c EXCEPT !.completed = S, !.pending = T, !.output = b] \in RunRecord
           /\ \A S, T \in SUBSET Calls, n \in Nat :
                 [c EXCEPT !.approved = S, !.modified = T, !.pause = n] \in RunRecord
  BY DEF RunRecord

LEMMA SavedRecord ==
    ASSUME NEW c \in RunRecord, NEW t \in RunStatus
    PROVE  /\ Saved(c, t) \in RunRecord
           /\ Saved(c, t).status = t
           /\ Saved(c, t).version = c.version + 1
           /\ Saved(c, t).pause = c.pause
           /\ c.version \in Nat
<1>1. c.version + 1 \in Nat  BY DEF RunRecord
<1>2. Saved(c, t) \in RunRecord  BY <1>1, RecordUpdate DEF Saved
<1> QED  BY <1>2 DEF Saved, RunRecord

LEMMA NewRunRecord ==
    /\ NewRun \in RunRecord /\ NewRun.pause = 0 /\ NewRun.version = 0 /\ NewRun.status = ABSENT
    /\ IdleRequest \in RequestRecord
    /\ IdleRequest.pc = "idle"
    /\ IdleRequest.copy = NewRun
<1>1. NewRun \in RunRecord /\ NewRun.pause = 0 /\ NewRun.version = 0 /\ NewRun.status = ABSENT
  BY DEF NewRun, RunRecord
<1> QED  BY <1>1 DEF IdleRequest, RequestRecord

LEMMA LoopHeadPC ==
    ASSUME NEW c
    PROVE  LoopHead(c) \in {"finish", "h_read", "context", "plan", "spin"}
  BY DEF LoopHead

-----------------------------------------------------------------------------
(* Saving: whoever holds a coherent copy and passes the version check makes *)
(* a step of the status machine and leaves every other copy coherent.       *)

\* An optimistic save of a coherent copy c as target.
LEMMA SaveStep ==
    ASSUME IInv, NEW c \in RunRecord, NEW target \in RunStatus,
           Coherent(c), VersionMatches(c),
           \/ target \in ALLOWED_TRANSITIONS[c.status]
           \/ c.status \notin TERMINAL_STATUSES /\ target = recovery_status(c.status),
           run' = Saved(c, target)
    PROVE  /\ StatusStep
           /\ run' \in RunRecord
           /\ run'.status = target
           /\ run'.version = run.version + 1
           /\ run'.pause = c.pause
<1>1. /\ run' \in RunRecord /\ run'.status = target /\ run'.version = run.version + 1
      /\ run'.pause = c.pause
  BY SavedRecord DEF VersionMatches
<1>2. run.status = c.status /\ run.status \in RunStatus
  BY DEF Coherent, VersionMatches
<1>3. Status!Next
  BY <1>1, <1>2, SameTables, StatusTables DEF Status!Next, Status!Transition, Status!Rewind
<1> QED  BY <1>1, <1>3 DEF StatusStep

\* A copy stays coherent when the version moves past it.
LEMMA StaysCoherent ==
    ASSUME IInv, NEW c \in RunRecord, Coherent(c), run'.version = run.version + 1
    PROVE  /\ c.status \in RunStatus
           /\ c.version <= run'.version
           /\ c.version # run'.version
<1>1. c.version \in Nat /\ run.version \in Nat  BY DEF IInv, TypeOK, RunRecord
<1>2. c.version <= run.version /\ c.status \in RunStatus  BY DEF Coherent
<1> QED  BY <1>1, <1>2

\* The requests' part of IInv survives any step that leaves the requests alone,
\* loses no approval, and keeps the row or saves a new version.
LEMMA RequestsKeep ==
    ASSUME IInv, UNCHANGED req,
           Len(approvals') \in Nat, Len(approvals') >= Len(approvals),
           run' = run \/ run'.version = run.version + 1
    PROVE  \A r \in Requests : RequestInv(r)'
<1> SUFFICES ASSUME NEW r \in Requests PROVE RequestInv(r)'
  OBVIOUS
<1>1. RequestInv(r) /\ req[r] \in RequestRecord
  BY DEF IInv, TypeOK
<1>2. req[r].copy \in RunRecord /\ req[r].copy.pause \in Nat
  BY <1>1 DEF RequestRecord, RunRecord
<1>3. req[r].copy.pause <= Len(approvals')
  BY <1>1, <1>2 DEF IInv, TypeOK, RequestInv
<1>4. req[r].pc # "idle" => Coherent(req[r].copy)'
  BY <1>1, <1>2, StaysCoherent DEF RequestInv, Coherent
<1> QED  BY <1>1, <1>2, <1>3, <1>4 DEF RequestInv


-----------------------------------------------------------------------------
(* The shapes the driving task's steps have. *)

\* The types of the variables no step of the task gives a new shape to.
TaskTypes ==
    /\ ledger \in [Calls -> LedgerStatus]
    /\ ended \in Seq({"run.completed", "run.failed", "run.cancelled"})
    /\ cur \in Calls \cup {0}
    /\ attempt \in Nat
    /\ invoked \in [Calls -> Nat]
    /\ modelCalls \in Nat
    /\ tried \in Nat
    /\ issued \in Nat

\* A step that saves the task's copy through _transition.
LEMMA DriverSaveKeeps ==
    ASSUME IInv, NEW p \in Executing, NEW c \in RunRecord, NEW target \in RunStatus,
           NEW next \in PCs \ {"none", "boot", "ask", "h_save"},
           DriverSave(p, c, target, next),
           c.status = copy.status, c.version = copy.version, c.pause <= Len(approvals),
           target = "AWAITING_APPROVAL" => c.pause > 0,
           next \in ToolAwaits => cur' \in Calls,
           UNCHANGED <<approvals, cause, goal, req, starter, phase, restarts, deadlinePassed>>,
           TaskTypes'
    PROVE  IInv' /\ StatusStep
<1>1. /\ pc = p /\ pc \notin {"none", "boot"}
      /\ cancelReq' \in {"none", "asked", "due"}
  BY DEF DriverSave, Lands, Executing, ToolAwaits, ToolTry
<1>2. Coherent(copy) /\ Coherent(c) /\ run.status # ABSENT
  BY <1>1 DEF IInv, TaskInv, Coherent, TaskAlive
<1>3. Len(approvals') \in Nat /\ Len(approvals') >= Len(approvals)
  BY DEF IInv, TypeOK
<1>4. CASE CanTransition(c, target)
  <2>1. /\ run' = Saved(c, target) /\ copy' = run' /\ pc' = next
    BY <1>4 DEF DriverSave
  <2>2. /\ StatusStep /\ run' \in RunRecord /\ run'.status = target
        /\ run'.version = run.version + 1 /\ run'.pause = c.pause
    BY <1>2, <1>4, <2>1, SaveStep DEF CanTransition, validate_transition
  <2>3. Coherent(copy)'
    BY <2>1, <2>2 DEF Coherent, RunRecord
  <2>4. PauseResolves(run)' /\ PauseResolves(copy)'
    BY <2>1, <2>2 DEF PauseResolves
  <2>5. TaskInv'
    BY <2>1, <2>3, <2>4 DEF TaskInv
  <2>6. \A r \in Requests : RequestInv(r)'
    BY <1>3, <2>2, RequestsKeep
  <2>7. TypeOK'
    BY <1>1, <2>1, <2>2 DEF IInv, TypeOK, TaskTypes
  <2> QED
    BY <2>2, <2>4, <2>5, <2>6, <2>7, StatusTables DEF IInv
<1>5. CASE ~CanTransition(c, target)
  <2>1. /\ run' = run /\ copy' = copy /\ pc' = "h_read"
    BY <1>5 DEF DriverSave
  <2>2. TypeOK'
    BY <1>1, <2>1 DEF IInv, TypeOK, TaskTypes, PCs, Handling
  <2>3. PauseResolves(run)' /\ TaskInv'
    BY <1>2, <2>1 DEF PauseResolves, TaskInv, Coherent, IInv, ToolAwaits, ToolTry
  <2>4. \A r \in Requests : RequestInv(r)'
    BY <1>3, <2>1, RequestsKeep
  <2>5. StatusStep
    BY <2>1 DEF StatusStep, Status!vars
  <2> QED
    BY <1>2, <2>1, <2>2, <2>3, <2>4, <2>5 DEF IInv
<1> QED  BY <1>4, <1>5

\* A step that leaves the stored row alone and goes on with the same copy or a
\* copy it has just read.
LEMMA DriverKeeps ==
    ASSUME IInv, TaskAlive,
           copy' = run \/ (copy' = copy /\ pc # "boot"),
           pc' \in PCs \ {"none", "boot", "ask", "h_save"},
           pc' \in ToolAwaits => cur' \in Calls,
           cause' \in {"error", "timeout", "cancel"},
           goal' \in RunStatus \cup {ABSENT},
           cancelReq' \in {"none", "asked", "due"},
           UNCHANGED <<run, approvals, req, starter, phase, restarts, deadlinePassed>>,
           TaskTypes'
    PROVE  IInv' /\ StatusStep
<1>1. TypeOK'
  BY DEF IInv, TypeOK, TaskTypes
<1>2. run.status \in RunStatus /\ Coherent(run)
  BY DEF IInv, TypeOK, Coherent, RunRecord, TaskAlive
<1>3. PauseResolves(run)' /\ TaskInv'
  BY <1>2 DEF PauseResolves, TaskInv, Coherent, IInv, TaskAlive
<1>4. \A r \in Requests : RequestInv(r)'
  BY RequestsKeep DEF IInv, TypeOK
<1>5. StatusStep
  BY DEF StatusStep, Status!vars
<1> QED  BY <1>1, <1>2, <1>3, <1>4, <1>5, StatusTables DEF IInv

\* A step that ends the task.
LEMMA TaskEndsKeeps ==
    ASSUME IInv, TaskEnds,
           UNCHANGED <<stores, req, starter, restarts, deadlinePassed, history>>,
           phase' \in {"up", "draining", "stopping", "down", "recovering"}
    PROVE  IInv' /\ StatusStep
<1>1. TypeOK'
  BY NewRunRecord DEF IInv, TypeOK, TaskEnds, stores, history, PCs
<1>2. PauseResolves(run)' /\ TaskInv'
  BY NewRunRecord DEF PauseResolves, TaskInv, IInv, TypeOK, TaskEnds, stores, ABSENT,
                      ToolAwaits, ToolTry
<1>3. \A r \in Requests : RequestInv(r)'
  BY RequestsKeep DEF IInv, TypeOK, stores
<1>4. StatusStep
  BY DEF StatusStep, Status!vars, stores
<1> QED  BY <1>1, <1>2, <1>3, <1>4 DEF IInv, TaskEnds, TaskAlive, stores


-----------------------------------------------------------------------------
(* Every step of the driving task. *)

\* What the steps of the task know of its copy, and of the names they use.
LEMMA CopyFacts ==
    ASSUME IInv
    PROVE  /\ copy \in RunRecord /\ run \in RunRecord
           /\ copy.pause \in Nat /\ copy.pause <= Len(approvals)
           /\ copy.steps + 1 \in Nat /\ copy.attempts + 1 \in Nat /\ copy.used \in Nat
           /\ Len(approvals) \in Nat
           /\ TaskTypes
<1>1. copy \in RunRecord /\ run \in RunRecord /\ TaskTypes
  BY DEF IInv, TypeOK, TaskTypes
<1>2. copy.pause \in Nat /\ copy.steps + 1 \in Nat /\ copy.attempts + 1 \in Nat /\ copy.used \in Nat
  BY <1>1 DEF RunRecord
<1>3. copy.pause <= Len(approvals) /\ Len(approvals) \in Nat
  BY DEF IInv, TypeOK, TaskInv, PauseResolves
<1> QED  BY <1>1, <1>2, <1>3

LEMMA SteppedRecord ==
    ASSUME IInv
    PROVE  /\ Stepped(copy) \in RunRecord
           /\ Stepped(copy).status = copy.status
           /\ Stepped(copy).version = copy.version
           /\ Stepped(copy).pause = copy.pause
<1>1. Stepped(copy) \in RunRecord  BY CopyFacts, RecordUpdate DEF Stepped
<1> QED  BY CopyFacts, <1>1 DEF Stepped, RunRecord

\* Transitions that save the copy as it is.
LEMMA PlainSaves ==
    ASSUME IInv,
           \/ Accept \/ Validate \/ BuildContext \/ AskApproval \/ ModelBackoff
           \/ VerifyPasses \/ Repair \/ Compose
    PROVE  IInv' /\ StatusStep
<1> USE CopyFacts, LoopHeadPC
        DEF Executing, ToolAwaits, ToolTry, Handling, PCs, RunStatus, TERMINAL_STATUSES, PAUSED_STATUSES
<1>1. CASE Accept
  BY <1>1, DriverSaveKeeps DEF Accept, history, others, process, TaskTypes
<1>2. CASE BuildContext
  BY <1>2, DriverSaveKeeps DEF BuildContext, history, others, process, TaskTypes
<1>3. CASE AskApproval
  <2>1. copy.pause > 0
    BY <1>3 DEF AskApproval, DriverSave, Lands, IInv, TaskInv
  <2> QED  BY <1>3, <2>1, DriverSaveKeeps DEF AskApproval, history, others, process, TaskTypes
<1>4. CASE VerifyPasses
  BY <1>4, DriverSaveKeeps DEF VerifyPasses, history, others, process, TaskTypes
<1>5. CASE Compose
  BY <1>5, DriverSaveKeeps DEF Compose, history, others, process, TaskTypes
<1>6. CASE ModelBackoff
  <2>1. attempt' \in Nat
    BY <1>6 DEF ModelBackoff, TaskTypes
  <2> QED  BY <1>6, <2>1, DriverSaveKeeps DEF ModelBackoff, history, others, process, TaskTypes
<1>7. CASE Validate
  BY <1>7, DriverSaveKeeps DEF Validate, history, others, process, TaskTypes
<1>8. CASE Repair
  BY <1>8, DriverSaveKeeps DEF Repair, history, others, process, TaskTypes
<1> QED  BY <1>1, <1>2, <1>3, <1>4, <1>5, <1>6, <1>7, <1>8

\* The actions a plan starts, each counted as a step in the record it saves.
LEMMA PlannedSaves ==
    ASSUME IInv, PlanClarify \/ PlanModel \/ PlanTool \/ PlanComplete \/ PlanFail
    PROVE  IInv' /\ StatusStep
<1> USE CopyFacts, SteppedRecord
        DEF Executing, ToolAwaits, ToolTry, Handling, PCs, RunStatus, TERMINAL_STATUSES, PAUSED_STATUSES
<1>1. CASE PlanClarify
  BY <1>1, DriverSaveKeeps DEF PlanClarify, history, others, process, TaskTypes
<1>2. CASE PlanModel
  BY <1>2, DriverSaveKeeps DEF PlanModel, history, others, process, TaskTypes
<1>3. CASE PlanTool
  <2>1. cur' \in Calls
    BY <1>3 DEF PlanTool, FirstOpenCall, OpenCalls, RunRecord
  <2> QED  BY <1>3, <2>1, DriverSaveKeeps DEF PlanTool, history, others, process, TaskTypes
<1>4. CASE PlanComplete
  BY <1>4, DriverSaveKeeps DEF PlanComplete, history, others, process, TaskTypes
<1>5. CASE PlanFail
  BY <1>5, DriverSaveKeeps DEF PlanFail, history, others, process, TaskTypes
<1> QED  BY <1>1, <1>2, <1>3, <1>4, <1>5


\* Transitions that save a copy with other changes.
LEMMA ChangedSaves ==
    ASSUME IInv, ModelReply \/ CachedReply \/ ModelRetry \/ ToolDone \/ VerifyFails
    PROVE  IInv' /\ StatusStep
<1> USE CopyFacts, LoopHeadPC
        DEF Executing, ToolAwaits, ToolTry, Handling, PCs, RunStatus, TERMINAL_STATUSES, PAUSED_STATUSES
<1>1. ASSUME NEW p \in {"model", "model_reply"}, NEW cost \in 0..1, ModelDone(p, cost)
      PROVE  IInv' /\ StatusStep
  <2>1. PICK n \in 0..(NumCalls - issued), text \in BOOLEAN :
           /\ DriverSave(p, Replied(copy, n, text, cost), "PLANNING",
                         LoopHead(Saved(Replied(copy, n, text, cost), "PLANNING")))
           /\ issued' = issued + n
    BY <1>1 DEF ModelDone
  <2> DEFINE c == Replied(copy, n, text, cost)
  <2>2. /\ (issued + 1)..(issued + n) \in SUBSET Calls
        /\ issued + n \in Nat
        /\ copy.used + cost \in Nat
    <3>1. issued \in Nat /\ NumCalls \in Nat /\ n \in Nat /\ issued + n <= NumCalls
      BY CallsAssumption DEF TaskTypes
    <3>2. copy.used + cost \in Nat
      BY SMTT(30)
    <3> QED  BY <3>1, <3>2 DEF Calls
  <2>3. c \in RunRecord
    BY <2>2, RecordUpdate DEF Replied
  <2>4. c.status = copy.status /\ c.version = copy.version /\ c.pause = copy.pause
    BY DEF Replied, RunRecord
  <2>5. TaskTypes'
    BY <1>1, <2>1, <2>2 DEF ModelDone, TaskTypes
  <2>6. DriverSave(p, c, "PLANNING", LoopHead(Saved(c, "PLANNING")))
    BY <2>1
  <2> HIDE DEF c
  <2> QED
    BY <1>1, <2>3, <2>4, <2>5, <2>6, DriverSaveKeeps DEF ModelDone, others, process
<1>2. CASE ModelReply \/ CachedReply
  BY <1>1, <1>2 DEF ModelReply, CachedReply
<1>3. CASE ModelRetry
  <2>1. PICK charge \in 0..1 :
           LET c == [copy EXCEPT !.used = @ + charge, !.attempts = @ + 1]
           IN  IF c.used >= MaxTokens
               THEN /\ At("model_reply")
                    /\ pc' = "h_read"
                    /\ UNCHANGED <<run, copy, cancelReq>>
               ELSE DriverSave("model_reply", c, "RETRYING", "backoff")
    BY <1>3 DEF ModelRetry
  <2> DEFINE c == [copy EXCEPT !.used = @ + charge, !.attempts = @ + 1]
  <2>2. copy.used + charge \in Nat
    OBVIOUS
  <2>3. c \in RunRecord
    BY <2>2, RecordUpdate
  <2>4. c.status = copy.status /\ c.version = copy.version /\ c.pause = copy.pause
    BY DEF RunRecord
  <2>5. TaskTypes'
    BY <1>3 DEF ModelRetry, history, TaskTypes
  <2>6. CASE c.used >= MaxTokens
    BY <1>3, <2>1, <2>5, <2>6, DriverKeeps, SMTT(30)
       DEF ModelRetry, At, TaskAlive, others, process, IInv, TypeOK
  <2>7. CASE ~(c.used >= MaxTokens)
    <3>1. DriverSave("model_reply", c, "RETRYING", "backoff")
      BY <2>1, <2>7
    <3>2. UNCHANGED <<approvals, cause, goal, req, starter, phase, restarts, deadlinePassed>>
      BY <1>3 DEF ModelRetry, others, process
    <3> HIDE DEF c
    <3>3. "model_reply" \in Executing /\ "backoff" \in PCs \ {"none", "boot", "ask", "h_save"}
          /\ "RETRYING" \in RunStatus /\ "backoff" \notin ToolAwaits /\ c.pause <= Len(approvals)
      BY <2>4
    <3> QED  BY <2>3, <2>4, <2>5, <3>1, <3>2, <3>3, DriverSaveKeeps, SMTT(30)
  <2> QED  BY <2>6, <2>7
<1>4. CASE ToolDone
  <2> DEFINE c == [copy EXCEPT !.completed = @ \cup {cur}, !.pending = @ \ {cur},
                               !.output = FALSE]
  <2>1. DriverSave("tool_done", c, "BUILDING_CONTEXT", LoopHead(Saved(c, "BUILDING_CONTEXT")))
    BY <1>4 DEF ToolDone
  <2>2. cur \in Calls
    BY <2>1 DEF DriverSave, Lands, IInv, TaskInv
  <2>3. copy.completed \cup {cur} \in SUBSET Calls /\ copy.pending \ {cur} \in SUBSET Calls
    BY <2>2 DEF RunRecord
  <2>4. c \in RunRecord
    BY <2>3, RecordUpdate
  <2>5. c.status = copy.status /\ c.version = copy.version /\ c.pause = copy.pause
    BY DEF RunRecord
  <2>6. TaskTypes'
    BY <1>4, SMTT(30) DEF ToolDone, history, TaskTypes
  <2> HIDE DEF c
  <2> QED  BY <1>4, <2>1, <2>4, <2>5, <2>6, DriverSaveKeeps DEF ToolDone, others, process
<1>5. CASE VerifyFails
  <2> DEFINE c == [copy EXCEPT !.attempts = @ + 1, !.output = FALSE]
  <2>1. c \in RunRecord
    BY RecordUpdate
  <2>2. c.status = copy.status /\ c.version = copy.version /\ c.pause = copy.pause
    BY DEF RunRecord
  <2>3. TaskTypes'
    BY <1>5, SMTT(30) DEF VerifyFails, history, TaskTypes
  <2>4. CASE copy.attempts < MaxRepairs
    <3>1. DriverSave("verify", c, "RETRYING", "repair")
      BY <1>5, <2>4 DEF VerifyFails
    <3> HIDE DEF c
    <3> QED  BY <1>5, <2>1, <2>2, <2>3, <3>1, DriverSaveKeeps DEF VerifyFails, others, process
  <2>5. CASE ~(copy.attempts < MaxRepairs)
    BY <1>5, <2>3, <2>5, DriverKeeps
       DEF VerifyFails, At, TaskAlive, others, process, IInv, TypeOK
  <2> QED  BY <2>4, <2>5
<1> QED  BY <1>2, <1>3, <1>4, <1>5


\* Creating the approval the run is going to wait for.
LEMMA ApprovalSteps ==
    ASSUME IInv, PlanApproval
    PROVE  IInv' /\ StatusStep
<1>1. PICK c \in FirstOpenCall(copy) :
         approvals' = Append(approvals, [call |-> c, status |-> "pending", taken |-> {}])
  BY DEF PlanApproval
<1>2. c \in Calls
  BY CopyFacts DEF FirstOpenCall, OpenCalls, RunRecord
<1>3. /\ approvals' \in Seq(ApprovalRecord)
      /\ Len(approvals') = Len(approvals) + 1
  BY <1>1, <1>2 DEF IInv, TypeOK, ApprovalStatus, ApprovalRecord
<1>4. /\ copy' = [Stepped(copy) EXCEPT !.pause = Len(approvals) + 1]
      /\ pc = "plan" /\ pc' = "ask" /\ run' = run
      /\ cancelReq' \in {"none", "asked", "due"}
  BY DEF PlanApproval, Lands
<1>5. /\ copy' \in RunRecord
      /\ copy'.pause = Len(approvals) + 1
      /\ copy'.status = copy.status /\ copy'.version = copy.version
  <2>1. copy' \in RunRecord
    <3>1. Len(approvals) + 1 \in Nat  BY CopyFacts
    <3> QED  BY <1>4, <3>1, SteppedRecord, RecordUpdate
  <2> QED  BY <1>4, <2>1, SteppedRecord DEF RunRecord
<1>6. TypeOK'
  BY <1>3, <1>4, <1>5 DEF IInv, TypeOK, PlanApproval, history, others, process, PCs, Executing
<1>7. PauseResolves(run)' /\ TaskInv'
  <2>1. Coherent(copy)'
    BY <1>4, <1>5 DEF IInv, TaskInv, Coherent
  <2>2. run.pause \in Nat /\ run.pause <= Len(approvals) /\ Len(approvals) \in Nat
    BY CopyFacts DEF RunRecord, IInv, PauseResolves
  <2>3. PauseResolves(run)'
    BY <1>3, <1>4, <2>2 DEF PauseResolves, IInv
  <2>4. PauseResolves(copy)' /\ copy'.pause > 0
    BY <1>3, <1>5, <2>2 DEF PauseResolves
  <2> QED  BY <1>4, <2>1, <2>3, <2>4 DEF TaskInv, ToolAwaits, ToolTry
<1>8. \A r \in Requests : RequestInv(r)'
  BY <1>3, <1>4, CopyFacts, RequestsKeep DEF PlanApproval, others
<1>9. StatusStep
  BY <1>4 DEF StatusStep, Status!vars
<1> QED
  BY <1>4, <1>6, <1>7, <1>8, <1>9 DEF IInv, TaskAlive, PlanApproval, others, process

\* Steps that change neither the row nor an approval, and go on.
LEMMA LocalSteps ==
    ASSUME IInv,
           \/ Boot \/ CallModel \/ CallFallback \/ EmitEnd \/ EmitPause \/ HandlerEmit
    PROVE  IInv' /\ StatusStep
<1> USE CopyFacts
        DEF Executing, ToolAwaits, ToolTry, Handling, PCs, At, Lands, TaskAlive, others, process
<1>1. /\ cause \in {"error", "timeout", "cancel"}
      /\ goal \in RunStatus \cup {ABSENT}
      /\ cancelReq \in {"none", "asked", "due"}
  BY DEF IInv, TypeOK
<1>2. CASE Boot
  BY <1>1, <1>2, DriverKeeps, LoopHeadPC DEF Boot, stores, history, TaskTypes
<1>3. CASE CallModel \/ CallFallback
  <2>1. TaskTypes'
    BY <1>3 DEF CallModel, CallFallback, stores, TaskTypes
  <2> QED  BY <1>1, <1>3, <2>1, DriverKeeps DEF CallModel, CallFallback, stores
<1>4. CASE EmitEnd
  <2>1. TaskTypes'
    BY <1>4 DEF EmitEnd, Publish, TerminalEvent, history, TaskTypes
  <2> QED  BY <1>1, <1>4, <2>1, DriverKeeps DEF EmitEnd
<1>5. CASE EmitPause
  BY <1>1, <1>5, DriverKeeps DEF EmitPause, stores, history, TaskTypes
<1>6. CASE HandlerEmit
  <2>1. TaskTypes'
    BY <1>6 DEF HandlerEmit, Publish, TerminalEvent, history, TaskTypes
  <2> QED  BY <1>1, <1>6, <2>1, DriverKeeps DEF HandlerEmit
<1> QED  BY <1>2, <1>3, <1>4, <1>5, <1>6

\* The steps of the tool executor and of the handler it runs.
LEMMA ExecutorSteps ==
    ASSUME IInv, ExecutorStep \/ HandlerStep
    PROVE  IInv' /\ StatusStep
<1> USE DEF At, Lands, TaskAlive, others, process
<1>1. /\ TaskTypes
      /\ cause \in {"error", "timeout", "cancel"}
      /\ goal \in RunStatus \cup {ABSENT}
      /\ cancelReq \in {"none", "asked", "due"}
  BY CopyFacts DEF IInv, TypeOK
<1>2. \A status \in LedgerStatus : LedgerSet(cur, status) \in [Calls -> LedgerStatus]
  BY <1>1 DEF TaskTypes, LedgerSet
<1>3. /\ {"started", "completed"} \subseteq LedgerStatus
      /\ FailureStatus(cur) \in LedgerStatus
  BY DEF LedgerStatus, FailureStatus
<1>4. /\ pc \in ToolAwaits
      /\ pc' \in {"t_wait", "t_run", "t_backoff", "t_complete", "t_return", "t_fail",
                  "tool_done", "h_read"}
      /\ UNCHANGED <<run, approvals, ended, copy, cur, cause, goal, modelCalls, tried, issued,
                     req, starter, phase, restarts, deadlinePassed>>
      /\ cancelReq' \in {"none", "asked", "due"}
  BY <1>1
     DEF ExecutorStep, HandlerStep, Begin, CachedResult, Invoke, InvokeAgain, Complete, Return,
         Fail, HandlerReturns, HandlerFails, HandlerRaises, stores, history, ToolAwaits, ToolTry
<1>5. cur \in Calls
  BY <1>4 DEF IInv, TaskInv
<1>6. ledger' \in [Calls -> LedgerStatus]
  BY <1>1, <1>2, <1>3
     DEF ExecutorStep, HandlerStep, Begin, CachedResult, Invoke, InvokeAgain, Complete, Return,
         Fail, HandlerReturns, HandlerFails, HandlerRaises, stores, TaskTypes
<1>7. invoked' \in [Calls -> Nat]
  BY <1>1, <1>5
     DEF ExecutorStep, HandlerStep, Begin, CachedResult, Invoke, InvokeAgain, Complete, Return,
         Fail, HandlerReturns, HandlerFails, HandlerRaises, history, TaskTypes
<1>8. attempt' \in Nat
  BY <1>1
     DEF ExecutorStep, HandlerStep, Begin, CachedResult, Invoke, InvokeAgain, Complete, Return,
         Fail, HandlerReturns, HandlerFails, HandlerRaises, TaskTypes
<1>9. TaskTypes'
  BY <1>1, <1>4, <1>6, <1>7, <1>8 DEF TaskTypes
<1>10. pc' \in PCs \ {"none", "boot", "ask", "h_save"} /\ pc \notin {"none", "boot"}
  BY <1>4 DEF PCs, Executing, ToolAwaits, ToolTry, Handling
<1> QED  BY <1>1, <1>4, <1>5, <1>9, <1>10, DriverKeeps


\* The end of the task, and exceptions thrown into it.
LEMMA InterruptSteps ==
    ASSUME IInv, Finish \/ Raise \/ DeliverCancel \/ DeliverTimeout
    PROVE  IInv' /\ StatusStep
<1> USE DEF others, process
<1>1. /\ TaskTypes /\ phase \in {"up", "draining", "stopping", "down", "recovering"}
      /\ goal \in RunStatus \cup {ABSENT}
  BY CopyFacts DEF IInv, TypeOK
<1>2. CASE Finish
  BY <1>1, <1>2, TaskEndsKeeps DEF Finish
<1>3. ASSUME NEW kind \in {"error", "timeout", "cancel"}, Interrupted(kind), TaskAlive,
             UNCHANGED <<stores, history, others>>
      PROVE  IInv' /\ StatusStep
  <2>1. CASE Unwind = "none"
    BY <1>1, <1>3, <2>1, TaskEndsKeeps DEF Interrupted
  <2>2. CASE Unwind # "none"
    <3>1. /\ pc \in Executing
          /\ pc' \in {"t_fail", "h_read"}
          /\ pc' = "t_fail" => pc \in ToolAwaits
          /\ cause' = kind /\ cancelReq' = "none" /\ UNCHANGED <<copy, cur, attempt, goal>>
      BY <1>3, <2>2 DEF Interrupted, Unwind, Executing, ToolAwaits, ToolTry
    <3>2. pc' \in ToolAwaits => cur' \in Calls
      BY <3>1 DEF IInv, TaskInv, ToolAwaits, ToolTry
    <3>3. pc' \in PCs \ {"none", "boot", "ask", "h_save"} /\ pc # "boot"
      BY <3>1 DEF PCs, Executing, ToolAwaits, ToolTry, Handling
    <3>4. TaskTypes'
      BY <1>1, <1>3, <3>1 DEF TaskTypes, stores, history
    <3> QED  BY <1>1, <1>3, <3>1, <3>2, <3>3, <3>4, DriverKeeps DEF stores
  <2> QED  BY <2>1, <2>2
<1>4. CASE Raise
  BY <1>3, <1>4 DEF Raise
<1>5. CASE DeliverCancel
  <2>1. CASE pc = "h_read" /\ cancelReq = "due"
    <3>1. TaskTypes'
      BY <1>1, <1>5, <2>1 DEF DeliverCancel, TaskTypes, stores, history
    <3> QED
      BY <1>1, <1>5, <2>1, <3>1, DriverKeeps
         DEF DeliverCancel, stores, PCs, Handling, ToolAwaits, ToolTry
  <2>2. CASE ~(pc = "h_read" /\ cancelReq = "due")
    BY <1>3, <1>5, <2>2 DEF DeliverCancel
  <2> QED  BY <2>1, <2>2
<1>6. CASE DeliverTimeout
  <2>1. TaskAlive
    BY <1>6 DEF DeliverTimeout, TaskAlive, Executing, ToolAwaits, ToolTry
  <2> QED  BY <1>3, <1>6, <2>1 DEF DeliverTimeout
<1> QED  BY <1>2, <1>4, <1>5, <1>6

\* The exception handlers of _drive_observed.
LEMMA HandlerReadSteps ==
    ASSUME IInv, HandlerRead
    PROVE  IInv' /\ StatusStep
<1> USE DEF others, process
<1>1. /\ TaskTypes /\ phase \in {"up", "draining", "stopping", "down", "recovering"}
      /\ cause \in {"error", "timeout", "cancel"} /\ goal \in RunStatus \cup {ABSENT}
      /\ pc = "h_read" /\ cancelReq = "none"
      /\ run \in RunRecord /\ run.status \in RunStatus
  BY CopyFacts DEF IInv, TypeOK, HandlerRead, At, TaskAlive, RunRecord
<1>2. UNCHANGED <<stores, history, others>>
  BY DEF HandlerRead
<1>3. CASE run.status \in TERMINAL_STATUSES
  <2>1. pc' = "finish" /\ copy' = run /\ UNCHANGED <<cur, attempt, cause, goal, cancelReq>>
    BY <1>3 DEF HandlerRead
  <2>2. TaskTypes'
    BY <1>1, <1>2, <2>1 DEF TaskTypes, stores, history
  <2> QED
    BY <1>1, <1>2, <2>1, <2>2, DriverKeeps
       DEF stores, PCs, ToolAwaits, ToolTry, TaskAlive
<1>4. CASE TaskEnds
  BY <1>1, <1>2, <1>4, TaskEndsKeeps
<1>5. CASE /\ pc' = "h_save" /\ copy' = run /\ UNCHANGED <<cur, attempt, cause, cancelReq>>
           /\ \/ goal' \in TERMINAL_STATUSES \cap ALLOWED_TRANSITIONS[run.status]
              \/ run.status \notin TERMINAL_STATUSES /\ goal' = recovery_status(run.status)
  <2>1. goal' \in RunStatus
    BY <1>1, <1>5, StatusTables
  <2>2. TypeOK'
    BY <1>1, <1>2, <1>5, <2>1 DEF IInv, TypeOK, TaskTypes, stores, history, PCs, Handling
  <2>3. Coherent(copy)'
    BY <1>1, <1>2, <1>5 DEF Coherent, stores, RunRecord
  <2>4. PauseResolves(run)' /\ TaskInv'
    BY <1>2, <1>5, <2>3 DEF IInv, PauseResolves, TaskInv, HandlerGoal, stores, ToolAwaits, ToolTry
  <2>5. \A r \in Requests : RequestInv(r)'
    BY <1>2, CopyFacts, RequestsKeep DEF stores
  <2>6. StatusStep
    BY <1>2 DEF StatusStep, Status!vars, stores
  <2> QED
    BY <1>1, <1>2, <2>2, <2>4, <2>5, <2>6, StatusTables DEF IInv, stores
<1> QED
  BY <1>1, <1>3, <1>4, <1>5
     DEF HandlerRead, validate_transition, HandlerOutcome, TERMINAL_STATUSES

LEMMA HandlerSaveSteps ==
    ASSUME IInv, HandlerSave
    PROVE  IInv' /\ StatusStep
<1> USE DEF others, process
<1>1. /\ TaskTypes /\ phase \in {"up", "draining", "stopping", "down", "recovering"}
      /\ pc = "h_save" /\ copy \in RunRecord /\ Coherent(copy) /\ HandlerGoal
      /\ copy.pause <= Len(approvals)
  BY CopyFacts DEF IInv, TypeOK, HandlerSave, Lands, At, TaskInv
<1>2. CASE ~VersionMatches(copy)
  BY <1>1, <1>2, TaskEndsKeeps DEF HandlerSave
<1>3. CASE VersionMatches(copy)
  <2>1. /\ run' = Saved(copy, goal) /\ copy' = run'
        /\ pc' \in {"h_emit", "finish"}
        /\ cancelReq' \in {"none", "asked", "due"}
        /\ UNCHANGED <<ledger, approvals, ended, cur, attempt, cause, goal, history, others>>
    BY <1>3 DEF HandlerSave, Lands
  <2>2. goal \in RunStatus /\ (goal = "AWAITING_APPROVAL" => copy.status = "AWAITING_APPROVAL")
    BY <1>1, StatusTables DEF HandlerGoal, Coherent, TERMINAL_STATUSES
  <2>3. /\ StatusStep /\ run' \in RunRecord /\ run'.status = goal
        /\ run'.version = run.version + 1 /\ run'.pause = copy.pause
    BY <1>1, <1>3, <2>1, <2>2, SaveStep DEF HandlerGoal
  <2>4. TypeOK'
    BY <2>1, <2>3 DEF IInv, TypeOK, history, PCs, Handling
  <2>5. Coherent(copy)'
    BY <2>1, <2>2, <2>3 DEF Coherent, RunRecord
  <2>6. PauseResolves(run)'
    BY <1>1, <2>1, <2>2, <2>3 DEF PauseResolves, IInv, TaskInv
  <2>7. TaskInv'
    BY <2>1, <2>5, <2>6 DEF TaskInv, PauseResolves, ToolAwaits, ToolTry
  <2>8. \A r \in Requests : RequestInv(r)'
    BY <2>1, <2>3, CopyFacts, RequestsKeep
  <2> QED
    BY <2>2, <2>3, <2>4, <2>6, <2>7, <2>8, StatusTables DEF IInv
<1> QED  BY <1>2, <1>3


\* Every step of the driving task keeps the invariant and the status machine.
LEMMA DriverSteps ==
    ASSUME IInv, DriverNext
    PROVE  IInv' /\ StatusStep
  BY PlainSaves, PlannedSaves, ChangedSaves, ApprovalSteps, LocalSteps, ExecutorSteps,
     InterruptSteps, HandlerReadSteps, HandlerSaveSteps
     DEF DriverNext, RuntimeStep, ExternalStep, Interrupt

-----------------------------------------------------------------------------
(* Every step of a request. *)

\* The task's part of IInv survives a request's step.
LEMMA TaskKeeps ==
    ASSUME IInv, UNCHANGED <<copy, cur, attempt, cause, goal, starter, phase, restarts,
                             deadlinePassed, ledger, history>>,
           pc' = pc \/ (pc' = "boot" /\ run.status # ABSENT),
           cancelReq' \in {"none", "asked", "due"},
           approvals' \in Seq(ApprovalRecord),
           Len(approvals') = Len(approvals),
           ended' \in Seq({"run.completed", "run.failed", "run.cancelled"}),
           req' \in [Requests -> RequestRecord],
           \/ run' = run
           \/ /\ run' \in RunRecord
              /\ run'.version = run.version + 1
              /\ run'.status \in RunStatus \ {"AWAITING_APPROVAL"}
              /\ run'.pause <= Len(approvals)
    PROVE  /\ TypeOK' /\ PauseResolves(run)' /\ TaskInv'
           /\ (run.status = ABSENT => run.version = 0 /\ starter = "none" /\ ~TaskAlive)'
<1>1. TypeOK'
  BY DEF IInv, TypeOK, history, PCs
<1>2. PauseResolves(run)' /\ PauseResolves(copy)'
  BY DEF IInv, TaskInv, PauseResolves
<1>3. pc \notin {"none", "boot"} => Coherent(copy)'
  BY CopyFacts, StaysCoherent DEF IInv, TaskInv, Coherent
<1>4. TaskInv'
  BY <1>2, <1>3 DEF IInv, TaskInv, HandlerGoal, ToolAwaits, ToolTry
<1> QED  BY <1>1, <1>2, <1>4, StatusTables DEF IInv, TaskAlive

\* The requests that take no step keep their part of IInv.
LEMMA OtherRequestsKeep ==
    ASSUME IInv, NEW r \in Requests, NEW x \in RequestRecord, req' = [req EXCEPT ![r] = x],
           Len(approvals') = Len(approvals),
           run' = run \/ run'.version = run.version + 1
    PROVE  /\ req' \in [Requests -> RequestRecord]
           /\ req'[r] = x
           /\ \A q \in Requests \ {r} : RequestInv(q)'
<1>1. req' \in [Requests -> RequestRecord] /\ req'[r] = x
  BY DEF IInv, TypeOK
<1>2. ASSUME NEW q \in Requests \ {r} PROVE RequestInv(q)'
  <2>1. req'[q] = req[q] /\ RequestInv(q) /\ req[q].copy \in RunRecord
    BY <1>1 DEF IInv, TypeOK, RequestRecord
  <2>2. req[q].pc # "idle" => Coherent(req[q].copy)'
    BY <2>1, StaysCoherent DEF RequestInv, Coherent
  <2> QED  BY <2>1, <2>2 DEF RequestInv, Coherent
<1> QED  BY <1>1, <1>2

\* An idle request satisfies its part of IInv.
LEMMA IdleKeeps ==
    ASSUME IInv, NEW r \in Requests, req'[r] = IdleRequest, Len(approvals') = Len(approvals)
    PROVE  RequestInv(r)'
  BY NewRunRecord, CopyFacts DEF RequestInv

LEMMA RequestReads ==
    ASSUME IInv, NEW r \in Requests, CancelRead(r) \/ ResumeRead(r)
    PROVE  IInv' /\ StatusStep
<1>1. /\ run \in RunRecord /\ run.status \in RunStatus /\ req[r].pc = "idle"
      /\ run.pause <= Len(approvals)
      /\ run.status = "AWAITING_APPROVAL" => run.pause > 0
  BY CopyFacts DEF CancelRead, ResumeRead, Receive, IInv, TypeOK, RunRecord, PauseResolves
<1>2. PICK x \in RequestRecord :
         /\ req' = [req EXCEPT ![r] = x]
         /\ x.copy = run
         /\ x.pc \in {"c_save", "r_save", "r_decide"}
         /\ x.pc = "r_decide" => run.pause > 0 /\ x.decision \in ApprovalStatus
         /\ x.pc = "r_save" => x.goal = "BUILDING_CONTEXT"
  <2>1. CASE CancelRead(r)
    <3> DEFINE x == [IdleRequest EXCEPT !.pc = "c_save", !.copy = run, !.goal = "CANCELLED"]
    <3>1. x \in RequestRecord /\ x.copy = run /\ x.pc = "c_save"
      BY <1>1, NewRunRecord DEF IdleRequest, RequestRecord, RunStatus, TERMINAL_STATUSES
    <3> QED  BY <2>1, <3>1 DEF CancelRead
  <2>2. CASE ResumeRead(r) /\ run.status = "AWAITING_CLARIFICATION"
    <3> DEFINE x == [IdleRequest EXCEPT !.pc = "r_save", !.copy = run,
                                        !.goal = "BUILDING_CONTEXT"]
    <3>1. x \in RequestRecord /\ x.copy = run /\ x.pc = "r_save" /\ x.goal = "BUILDING_CONTEXT"
      BY <1>1, NewRunRecord DEF IdleRequest, RequestRecord, RunStatus
    <3> QED  BY <2>2, <3>1 DEF ResumeRead
  <2>3. CASE ResumeRead(r) /\ run.status = "AWAITING_APPROVAL"
    <3>1. PICK d \in ApprovalStatus :
             req' = [req EXCEPT ![r] = [IdleRequest EXCEPT !.pc = "r_decide", !.copy = run,
                                                           !.decision = d]]
      BY <2>3 DEF ResumeRead
    <3> DEFINE x == [IdleRequest EXCEPT !.pc = "r_decide", !.copy = run, !.decision = d]
    <3>2. /\ x \in RequestRecord /\ x.copy = run /\ x.pc = "r_decide"
          /\ x.decision \in ApprovalStatus
      BY <1>1, NewRunRecord, EnvironmentAssumption DEF IdleRequest, RequestRecord
    <3> QED  BY <1>1, <2>3, <3>1, <3>2
  <2> QED  BY <2>1, <2>2, <2>3 DEF ResumeRead
<1>3. /\ UNCHANGED <<stores, pc, copy, cur, attempt, cause, goal, process, history>>
      /\ cancelReq' \in {"none", "asked", "due"}
  BY DEF CancelRead, ResumeRead, task, IInv, TypeOK
<1>4. /\ req' \in [Requests -> RequestRecord] /\ req'[r] = x
      /\ \A q \in Requests \ {r} : RequestInv(q)'
  BY <1>2, <1>3, OtherRequestsKeep DEF stores
<1>5. RequestInv(r)'
  BY <1>1, <1>2, <1>3, <1>4 DEF RequestInv, Coherent, stores, RunRecord
<1>6. /\ TypeOK' /\ PauseResolves(run)' /\ TaskInv'
      /\ (run.status = ABSENT => run.version = 0 /\ starter = "none" /\ ~TaskAlive)'
  BY <1>3, <1>4, TaskKeeps DEF stores, process, IInv, TypeOK
<1>7. StatusStep
  BY <1>3 DEF StatusStep, Status!vars, stores
<1> QED  BY <1>4, <1>5, <1>6, <1>7 DEF IInv

\* A request's save: its record moves along the table, or the request is refused.
LEMMA RequestSaves ==
    ASSUME IInv, NEW r \in Requests, CancelSave(r) \/ ResumeSave(r)
    PROVE  IInv' /\ StatusStep
<1>1. /\ req[r] \in RequestRecord /\ req[r].pc \in {"c_save", "r_save"} /\ RequestInv(r)
      /\ UNCHANGED <<ledger, approvals, ended, copy, cur, attempt, cause, goal, cancelReq,
                     process, history>>
  BY DEF CancelSave, ResumeSave, IInv, TypeOK, task
<1>2. /\ req[r].copy \in RunRecord /\ Coherent(req[r].copy)
      /\ req[r].copy.pause <= Len(approvals)
  BY <1>1 DEF RequestRecord, RequestInv
<1>3. VersionMatches(req[r].copy) => run.status # ABSENT
  BY <1>2, StatusTables DEF Coherent, VersionMatches
<1>4. CASE run' = run /\ pc' = pc /\ Answer(r)
  <2>1. /\ req' \in [Requests -> RequestRecord] /\ req'[r] = IdleRequest
        /\ \A q \in Requests \ {r} : RequestInv(q)'
    BY <1>1, <1>4, NewRunRecord, OtherRequestsKeep DEF Answer
  <2>2. RequestInv(r)'
    BY <1>1, <2>1, IdleKeeps
  <2>3. /\ TypeOK' /\ PauseResolves(run)' /\ TaskInv'
        /\ (run.status = ABSENT => run.version = 0 /\ starter = "none" /\ ~TaskAlive)'
    BY <1>1, <1>4, <2>1, TaskKeeps DEF process, IInv, TypeOK
  <2>4. StatusStep
    BY <1>4 DEF StatusStep, Status!vars
  <2> QED  BY <2>1, <2>2, <2>3, <2>4 DEF IInv
<1>5. ASSUME NEW target \in RunStatus \ {"AWAITING_APPROVAL"},
             CanTransition(req[r].copy, target), run' = Saved(req[r].copy, target),
             pc' = pc \/ (pc' = "boot" /\ ~TaskAlive),
             Answer(r) \/ req' = [req EXCEPT ![r].pc = "emit"]
      PROVE  IInv' /\ StatusStep
  <2>1. /\ StatusStep /\ run' \in RunRecord /\ run'.status = target
        /\ run'.version = run.version + 1 /\ run'.pause = req[r].copy.pause
    BY <1>2, <1>5, SaveStep DEF CanTransition, validate_transition
  <2>2. PICK x \in RequestRecord :
           /\ req' = [req EXCEPT ![r] = x]
           /\ x = IdleRequest \/ (x.pc = "emit" /\ x.copy = req[r].copy)
    <3>1. CASE Answer(r)
      BY <3>1, NewRunRecord DEF Answer
    <3>2. CASE req' = [req EXCEPT ![r].pc = "emit"]
      <4> DEFINE x == [req[r] EXCEPT !.pc = "emit"]
      <4>1. x \in RequestRecord /\ x.pc = "emit" /\ x.copy = req[r].copy
        BY <1>1 DEF RequestRecord
      <4> QED  BY <3>2, <4>1
    <3> QED  BY <1>5, <3>1, <3>2
  <2>3. /\ req' \in [Requests -> RequestRecord] /\ req'[r] = x
        /\ \A q \in Requests \ {r} : RequestInv(q)'
    BY <1>1, <2>1, <2>2, OtherRequestsKeep
  <2>4. RequestInv(r)'
    <3>1. CASE x = IdleRequest
      BY <1>1, <2>3, <3>1, IdleKeeps
    <3>2. CASE x.pc = "emit" /\ x.copy = req[r].copy
      <4>1. Coherent(req[r].copy)'
        BY <1>1, <1>2, <2>1, <2>2, <2>3, <3>2, StaysCoherent DEF Coherent
      <4> QED  BY <1>1, <1>2, <2>3, <3>2, <4>1 DEF RequestInv
    <3> QED  BY <2>2, <3>1, <3>2
  <2>5. /\ TypeOK' /\ PauseResolves(run)' /\ TaskInv'
        /\ (run.status = ABSENT => run.version = 0 /\ starter = "none" /\ ~TaskAlive)'
    BY <1>1, <1>2, <1>3, <1>5, <2>1, <2>3, TaskKeeps DEF process, IInv, TypeOK, CanTransition
  <2> QED  BY <2>1, <2>3, <2>4, <2>5 DEF IInv
<1>6. CASE CancelSave(r)
  BY <1>4, <1>5, <1>6 DEF CancelSave, task, RunStatus, TERMINAL_STATUSES
<1>7. CASE ResumeSave(r)
  <2>1. req[r].goal \in RunStatus \ {"AWAITING_APPROVAL"}
    BY <1>1, <1>7 DEF ResumeSave, RequestInv, RunStatus, TERMINAL_STATUSES
  <2> QED  BY <1>4, <1>5, <1>7, <2>1 DEF ResumeSave
<1> QED  BY <1>6, <1>7

\* Replacing an element of a sequence by another of its type.
LEMMA SeqUpdate ==
    ASSUME NEW S, NEW s \in Seq(S), NEW i \in Nat, i > 0, i <= Len(s)
    PROVE  /\ s[i] \in S
           /\ \A v \in S : /\ [s EXCEPT ![i] = v] \in Seq(S)
                           /\ Len([s EXCEPT ![i] = v]) = Len(s)
  OBVIOUS

\* A request's step that leaves the row alone: approvals keep their number, and
\* the request goes on with record x.
LEMMA RequestMoves ==
    ASSUME IInv, NEW r \in Requests, NEW x \in RequestRecord, req' = [req EXCEPT ![r] = x],
           UNCHANGED <<run, ledger, task, process, history>>,
           approvals' \in Seq(ApprovalRecord),
           Len(approvals') = Len(approvals),
           ended' \in Seq({"run.completed", "run.failed", "run.cancelled"}),
           x = IdleRequest \/ (/\ x.pc = "r_save" /\ Coherent(x.copy)
                               /\ x.copy.pause <= Len(approvals)
                               /\ x.goal \in {"PLANNING", "FAILED"})
    PROVE  IInv' /\ StatusStep
<1>1. /\ req' \in [Requests -> RequestRecord] /\ req'[r] = x
      /\ \A q \in Requests \ {r} : RequestInv(q)'
  BY OtherRequestsKeep
<1>2. RequestInv(r)'
  <2>1. CASE x = IdleRequest
    BY <1>1, <2>1, IdleKeeps
  <2>2. CASE x # IdleRequest
    BY <1>1, <2>2 DEF RequestInv, Coherent
  <2> QED  BY <2>1, <2>2
<1>3. /\ TypeOK' /\ PauseResolves(run)' /\ TaskInv'
      /\ (run.status = ABSENT => run.version = 0 /\ starter = "none" /\ ~TaskAlive)'
  BY <1>1, TaskKeeps DEF task, process, IInv, TypeOK
<1>4. StatusStep
  BY DEF StatusStep, Status!vars
<1> QED  BY <1>1, <1>2, <1>3, <1>4 DEF IInv

\* The record resume saves keeps status and version and resolves its pause.
LEMMA DecidedRecord ==
    ASSUME NEW rec \in RunRecord, NEW c \in Calls, NEW d
    PROVE  /\ Decided(rec, c, d) \in RunRecord
           /\ Decided(rec, c, d).status = rec.status
           /\ Decided(rec, c, d).version = rec.version
           /\ Decided(rec, c, d).pause \in {rec.pause, 0}
<1>1. CASE d = "rejected"
  BY <1>1 DEF Decided
<1>2. CASE d # "rejected"
  <2> DEFINE S == rec.approved \cup {c}
             T == IF d = "modified" THEN rec.modified \cup (rec.pending \cap {c}) ELSE rec.modified
  <2>1. S \in SUBSET Calls /\ T \in SUBSET Calls
    BY DEF RunRecord
  <2>2. Decided(rec, c, d) = [rec EXCEPT !.approved = S, !.modified = T, !.pause = 0]
    BY <1>2 DEF Decided
  <2> HIDE DEF S, T
  <2>3. [rec EXCEPT !.approved = S, !.modified = T, !.pause = 0] \in RunRecord
    BY <2>1, RecordUpdate
  <2> QED  BY <2>2, <2>3 DEF RunRecord
<1> QED  BY <1>1, <1>2

LEMMA RequestDecides ==
    ASSUME IInv, NEW r \in Requests, ResumeDecide(r)
    PROVE  IInv' /\ StatusStep
<1> DEFINE i == req[r].copy.pause
           d == req[r].decision
<1>1. /\ req[r] \in RequestRecord /\ req[r].pc = "r_decide" /\ RequestInv(r)
      /\ UNCHANGED <<run, ledger, ended, task, process, history>>
      /\ approvals \in Seq(ApprovalRecord)
      /\ ended' \in Seq({"run.completed", "run.failed", "run.cancelled"})
  BY DEF ResumeDecide, IInv, TypeOK
<1>2. /\ req[r].copy \in RunRecord /\ Coherent(req[r].copy) /\ i \in Nat /\ d \in ApprovalStatus \cup {"none"}
      /\ i <= Len(approvals) /\ i > 0
  BY <1>1 DEF RequestRecord, RequestInv, RunRecord
<1>3. /\ approvals[i] \in ApprovalRecord
      /\ \A v \in ApprovalRecord :
            /\ [approvals EXCEPT ![i] = v] \in Seq(ApprovalRecord)
            /\ Len([approvals EXCEPT ![i] = v]) = Len(approvals)
  <2> DEFINE S == ApprovalRecord
  <2>1. approvals \in Seq(S) /\ i \in Nat /\ i > 0 /\ i <= Len(approvals)
    BY <1>1, <1>2
  <2>2. /\ approvals[i] \in S
        /\ \A v \in S : /\ [approvals EXCEPT ![i] = v] \in Seq(S)
                        /\ Len([approvals EXCEPT ![i] = v]) = Len(approvals)
    <3> HIDE DEF i, S
    <3> QED  BY <2>1, SeqUpdate
  <2> QED  BY <2>2
<1>4. CASE Answer(r) /\ approvals' = approvals
  BY <1>1, <1>4, NewRunRecord, RequestMoves DEF Answer
<1>5. CASE Answer(r) /\ approvals' = [approvals EXCEPT ![i].status = "expired"]
  <2>1. approvals' \in Seq(ApprovalRecord) /\ Len(approvals') = Len(approvals)
    <3> DEFINE v == [approvals[i] EXCEPT !.status = "expired"]
    <3>1. v \in ApprovalRecord /\ approvals' = [approvals EXCEPT ![i] = v]
      BY <1>3, <1>5 DEF ApprovalStatus, ApprovalRecord
    <3> QED  BY <1>3, <3>1
  <2> QED  BY <1>1, <1>5, <2>1, NewRunRecord, RequestMoves DEF Answer
<1>6. CASE /\ approvals' = [approvals EXCEPT ![i].status = d, ![i].taken = @ \cup {d}]
           /\ req' = [req EXCEPT ![r].pc = "r_save", ![r].decision = "none",
                                 ![r].copy = Decided(@, approvals[i].call, d),
                                 ![r].goal = IF d = "rejected" THEN "FAILED" ELSE "PLANNING"]
  <2>0. d \in ApprovalStatus
    BY <1>1 DEF RequestInv
  <2>1. approvals' \in Seq(ApprovalRecord) /\ Len(approvals') = Len(approvals)
    <3> DEFINE v == [approvals[i] EXCEPT !.status = d, !.taken = @ \cup {d}]
    <3>1. v \in ApprovalRecord /\ approvals' = [approvals EXCEPT ![i] = v]
      BY <1>3, <1>6, <2>0 DEF ApprovalRecord
    <3> QED  BY <1>3, <3>1
  <2> DEFINE rec == Decided(req[r].copy, approvals[i].call, d)
             x == [req[r] EXCEPT !.pc = "r_save", !.decision = "none", !.copy = rec,
                                 !.goal = IF d = "rejected" THEN "FAILED" ELSE "PLANNING"]
  <2>2. /\ rec \in RunRecord /\ rec.status = req[r].copy.status /\ rec.version = req[r].copy.version
        /\ rec.pause \in {i, 0}
    BY <1>2, <1>3, DecidedRecord DEF ApprovalRecord
  <2>3. req' = [req EXCEPT ![r] = x]
    BY <1>1, <1>6 DEF IInv, TypeOK
  <2> HIDE DEF rec
  <2>4. /\ x \in RequestRecord /\ x.pc = "r_save" /\ x.copy = rec
        /\ x.goal \in {"PLANNING", "FAILED"}
    BY <1>1, <2>2 DEF RequestRecord, RunStatus, TERMINAL_STATUSES
  <2>5. Coherent(x.copy) /\ x.copy.pause <= Len(approvals)
    BY <1>2, <2>2, <2>4 DEF Coherent
  <2> HIDE DEF x
  <2> QED  BY <1>1, <2>1, <2>3, <2>4, <2>5, RequestMoves
<1> QED  BY <1>4, <1>5, <1>6 DEF ResumeDecide

\* Every step of a request keeps the invariant and the status machine.
LEMMA RequestSteps ==
    ASSUME IInv, RequestNext
    PROVE  IInv' /\ StatusStep
<1>1. PICK r \in Requests :
         \/ CancelRead(r) \/ CancelSave(r) \/ ResumeRead(r) \/ ResumeDecide(r) \/ ResumeSave(r)
         \/ RequestEmit(r) \/ RequestFails(r)
  BY DEF RequestNext
<1>2. CASE RequestEmit(r)
  <2>1. ended' \in Seq({"run.completed", "run.failed", "run.cancelled"})
    BY <1>2 DEF RequestEmit, Publish, TerminalEvent, IInv, TypeOK
  <2> QED  BY <1>2, <2>1, NewRunRecord, RequestMoves DEF RequestEmit, Answer, IInv, TypeOK
<1>3. CASE RequestFails(r)
  BY <1>3, NewRunRecord, RequestMoves DEF RequestFails, Answer, stores, IInv, TypeOK
<1> QED  BY <1>1, <1>2, <1>3, RequestReads, RequestSaves, RequestDecides

-----------------------------------------------------------------------------
(* Every step of the process. *)

\* A step that leaves the stores, the task's copy and the requests alone.
LEMMA ProcessKeeps ==
    ASSUME IInv, UNCHANGED <<run, ledger, approvals, copy, cur, attempt, cause, goal, req, history>>,
           pc' = pc \/ (pc' = "boot" /\ run.status # ABSENT),
           cancelReq' \in {"none", "asked", "due"},
           ended' \in Seq({"run.completed", "run.failed", "run.cancelled"}),
           starter' = starter \/ (starter' \in {"emit", "done"} /\ run.status # ABSENT),
           phase' \in {"up", "draining", "stopping", "down", "recovering"},
           restarts' \in Nat,
           deadlinePassed' \in BOOLEAN
    PROVE  IInv' /\ StatusStep
<1>1. TypeOK'
  BY DEF IInv, TypeOK, history, PCs
<1>2. PauseResolves(run)' /\ TaskInv'
  BY DEF IInv, TaskInv, PauseResolves, Coherent, HandlerGoal, ToolAwaits, ToolTry
<1>3. \A r \in Requests : RequestInv(r)'
  BY CopyFacts, RequestsKeep
<1>4. StatusStep
  BY DEF StatusStep, Status!vars
<1> QED  BY <1>1, <1>2, <1>3, <1>4 DEF IInv, TaskAlive

\* start and the steps of the clock and of shutdown.
LEMMA LifeSteps ==
    ASSUME IInv,
           \/ StartSchedule \/ StartFails \/ DeadlinePasses \/ ShutdownBegin \/ GraceExpires
           \/ ShutdownEnds \/ RecoverNothing \/ RecoverEmit
    PROVE  IInv' /\ StatusStep
<1>1. /\ cancelReq \in {"none", "asked", "due"}
      /\ ended \in Seq({"run.completed", "run.failed", "run.cancelled"})
      /\ phase \in {"up", "draining", "stopping", "down", "recovering"}
      /\ restarts \in Nat /\ restarts + 1 \in Nat /\ deadlinePassed \in BOOLEAN
      /\ starter = "emit" => run.status # ABSENT
  BY DEF IInv, TypeOK
<1>2. CASE StartSchedule
  BY <1>1, <1>2, ProcessKeeps DEF StartSchedule, stores
<1>3. CASE StartFails
  BY <1>1, <1>3, ProcessKeeps DEF StartFails, stores, task
<1>4. CASE DeadlinePasses
  BY <1>1, <1>4, ProcessKeeps DEF DeadlinePasses, stores, task
<1>5. CASE ShutdownBegin
  BY <1>1, <1>5, ProcessKeeps DEF ShutdownBegin, stores, task
<1>6. CASE GraceExpires
  BY <1>1, <1>6, ProcessKeeps DEF GraceExpires, stores
<1>7. CASE ShutdownEnds
  BY <1>1, <1>7, ProcessKeeps DEF ShutdownEnds, stores, task
<1>8. CASE RecoverNothing
  BY <1>1, <1>8, ProcessKeeps DEF RecoverNothing, Restart, stores, task
<1>9. CASE RecoverEmit
  <2>1. ended' \in Seq({"run.completed", "run.failed", "run.cancelled"})
    BY <1>1, <1>9 DEF RecoverEmit, Publish, TerminalEvent
  <2> QED  BY <1>1, <1>9, <2>1, ProcessKeeps DEF RecoverEmit, task
<1> QED  BY <1>2, <1>3, <1>4, <1>5, <1>6, <1>7, <1>8, <1>9

\* start creates the run; nobody holds a copy of it yet.
LEMMA CreateStep ==
    ASSUME IInv, StartCreate
    PROVE  IInv' /\ StatusStep
<1>1. /\ run.status = ABSENT /\ ~TaskAlive
      /\ starter' = "emit" /\ run' = [NewRun EXCEPT !.status = "RECEIVED"]
      /\ UNCHANGED <<ledger, approvals, ended, task, req, phase, restarts, deadlinePassed, history>>
  BY DEF StartCreate, IInv
<1>2. run' \in RunRecord /\ run'.status = "RECEIVED" /\ run'.version = 0 /\ run'.pause = 0
  BY <1>1 DEF NewRun, RunRecord, RunStatus
<1>3. TypeOK'
  BY <1>1, <1>2 DEF IInv, TypeOK, task, history
<1>4. PauseResolves(run)' /\ TaskInv'
  BY <1>1, <1>2, CopyFacts
     DEF IInv, PauseResolves, TaskInv, TaskAlive, task, ToolAwaits, ToolTry
<1>5. \A r \in Requests : RequestInv(r)'
  <2> SUFFICES ASSUME NEW r \in Requests PROVE RequestInv(r)'
    OBVIOUS
  <2>1. RequestInv(r) /\ req[r].copy \in RunRecord
    BY DEF IInv, TypeOK, RequestRecord
  <2>2. run.version = 0
    BY <1>1 DEF IInv
  <2>3. req[r].pc = "idle"
    BY <1>1, <2>1, <2>2, StatusTables DEF RequestInv, Coherent, RunRecord
  <2> QED  BY <1>1, <2>1, <2>3 DEF RequestInv
<1>6. StatusStep
  BY <1>1, <1>2, SameTables DEF StatusStep, Status!Next, Status!Create
<1> QED  BY <1>2, <1>3, <1>4, <1>5, <1>6, StatusTables DEF IInv, RunStatus, ABSENT

\* A crash loses the task and the requests.
LEMMA CrashStep ==
    ASSUME IInv, Crash
    PROVE  IInv' /\ StatusStep
<1>1. /\ TaskEnds /\ UNCHANGED <<stores, restarts, deadlinePassed, history>>
      /\ phase' = "down" /\ req' = [r \in Requests |-> IdleRequest]
      /\ starter' \in {"none", "done"} /\ (starter' # "none" => run.status # ABSENT)
  BY DEF Crash
<1>2. TypeOK'
  BY <1>1, NewRunRecord DEF IInv, TypeOK, TaskEnds, stores, history, PCs
<1>3. PauseResolves(run)' /\ TaskInv'
  BY <1>1, NewRunRecord, CopyFacts
     DEF PauseResolves, TaskInv, IInv, TaskEnds, stores, ABSENT, ToolAwaits, ToolTry
<1>4. \A r \in Requests : RequestInv(r)'
  <2> SUFFICES ASSUME NEW r \in Requests PROVE RequestInv(r)'
    OBVIOUS
  <2> QED  BY <1>1, IdleKeeps DEF stores
<1>5. StatusStep
  BY <1>1 DEF StatusStep, Status!vars, stores
<1> QED  BY <1>1, <1>2, <1>3, <1>4, <1>5 DEF IInv, TaskEnds, TaskAlive, stores

\* recover writes the row: an expired run is timed out, an interrupted one rewound.
LEMMA RecoverSteps ==
    ASSUME IInv, RecoverExpired \/ RecoverRun
    PROVE  IInv' /\ StatusStep
<1>1. /\ run \in RunRecord /\ run.pause <= Len(approvals) /\ run.version \in Nat
      /\ restarts \in Nat /\ restarts + 1 \in Nat
      /\ copy.pause <= Len(approvals)
  <2>1. run \in RunRecord /\ copy.pause <= Len(approvals)
    BY CopyFacts
  <2>2. run.pause <= Len(approvals)
    BY DEF IInv, PauseResolves
  <2>3. restarts \in Nat
    BY DEF IInv, TypeOK
  <2>4. run.version \in Nat
    BY <2>1 DEF RunRecord
  <2> QED  BY <2>1, <2>2, <2>3, <2>4
<1>0. /\ run.status \in RUNNABLE_STATUSES
      /\ UNCHANGED <<ledger, approvals, ended, copy, cur, attempt, cause, goal, cancelReq,
                     req, starter, deadlinePassed, history>>
      /\ pc' \in {pc, "boot"} /\ phase' \in {"up", "recovering"} /\ restarts' = restarts + 1
  BY DEF RecoverExpired, RecoverRun, Restart, task
<1>2. run.status \in RunStatus \ TERMINAL_STATUSES /\ run.status # "AWAITING_APPROVAL"
  BY <1>1, <1>0 DEF RUNNABLE_STATUSES, PAUSED_STATUSES
<1>3. CASE run' = run
  BY <1>1, <1>0, <1>2, <1>3, StatusTables, ProcessKeeps DEF IInv, TypeOK
<1>4. ASSUME NEW target \in RunStatus \ {"AWAITING_APPROVAL"}, run' = Saved(run, target),
             target = "TIMED_OUT" \/ target = recovery_status(run.status)
      PROVE  IInv' /\ StatusStep
  <2>1. /\ run' \in RunRecord /\ run'.status = target /\ run'.version = run.version + 1
        /\ run'.pause = run.pause
    BY <1>1, <1>0, <1>4, SavedRecord
  <2>2. Status!Next
    BY <1>1, <1>0, <1>2, <1>4, <2>1, SameTables DEF Status!Next, Status!Rewind, Status!ExpireOnRecovery
  <2>3. TypeOK'
    BY <1>1, <1>0, <2>1 DEF IInv, TypeOK, history, PCs
  <2>4. PauseResolves(run)' /\ PauseResolves(copy)'
    BY <1>1, <1>0, <2>1 DEF IInv, TaskInv, PauseResolves
  <2>5. pc \notin {"none", "boot"} => Coherent(copy)'
    BY <1>1, <1>0, <2>1, CopyFacts, StaysCoherent DEF IInv, TaskInv, Coherent
  <2>6. TaskInv'
    BY <1>1, <1>0, <2>4, <2>5 DEF IInv, TaskInv, HandlerGoal, ToolAwaits, ToolTry
  <2>7. \A r \in Requests : RequestInv(r)'
    BY <1>1, <1>0, <2>1, CopyFacts, RequestsKeep
  <2> QED  BY <2>1, <2>2, <2>3, <2>4, <2>6, <2>7, StatusTables DEF IInv, StatusStep
<1>5. CASE RecoverExpired
  BY <1>4, <1>5 DEF RecoverExpired, RunStatus, TERMINAL_STATUSES
<1>6. CASE RecoverRun
  <2>1. recovery_status(run.status) \in RunStatus \ {"AWAITING_APPROVAL"}
    BY <1>2, StatusTables
  <2> QED  BY <1>3, <1>4, <1>6, <2>1 DEF RecoverRun
<1> QED  BY <1>5, <1>6

-----------------------------------------------------------------------------
(* The theorems. *)

LEMMA InitInvariant == Init => IInv /\ Status!Init
<1> SUFFICES ASSUME Init PROVE IInv /\ Status!Init
  OBVIOUS
<1>1. TypeOK
  <2>1. run \in RunRecord /\ copy \in RunRecord /\ req \in [Requests -> RequestRecord]
    BY NewRunRecord DEF Init
  <2>2. /\ ledger \in [Calls -> LedgerStatus] /\ invoked \in [Calls -> Nat]
        /\ approvals \in Seq(ApprovalRecord)
        /\ ended \in Seq({"run.completed", "run.failed", "run.cancelled"})
    BY DEF Init, LedgerStatus
  <2> QED  BY <2>1, <2>2 DEF Init, TypeOK, PCs
<1>2. PauseResolves(run) /\ TaskInv
  BY NewRunRecord DEF Init, PauseResolves, TaskInv, ABSENT, ToolAwaits, ToolTry
<1>3. \A r \in Requests : RequestInv(r)
  BY NewRunRecord DEF Init, RequestInv
<1>4. Status!Init
  BY NewRunRecord, SameTables DEF Init, Status!Init
<1> QED  BY <1>1, <1>2, <1>3, <1>4, NewRunRecord DEF IInv, Init, TaskAlive

LEMMA StepInvariant == IInv /\ [Next]_vars => IInv' /\ StatusStep
<1> SUFFICES ASSUME IInv, [Next]_vars PROVE IInv' /\ StatusStep
  OBVIOUS
<1>1. CASE UNCHANGED vars
  BY <1>1, ProcessKeeps DEF vars, stores, task, process, history, IInv, TypeOK
<1>2. CASE ProcessNext
  BY <1>2, LifeSteps, CreateStep, CrashStep, RecoverSteps DEF ProcessNext
<1> QED  BY <1>1, <1>2, DriverSteps, RequestSteps DEF Next

\* Every reachable state of the runtime is well typed, for any number of calls,
\* requests and restarts and any budgets: no record an actor reads, edits and saves
\* around an await ever leaves the shape of a RunState.
THEOREM TypeCorrect == Spec => []TypeOK
<1>1. IInv => TypeOK  BY DEF IInv
<1> QED  BY <1>1, InitInvariant, StepInvariant, PTL DEF Spec

\* The runtime implements the status machine of a run, for any number of
\* concurrent requests: the optimistic version check of the store is enough to keep
\* every interleaved save on the transition table.
THEOREM StatusRefines == Spec => StatusRefinement
<1>1. Init => IInv /\ Status!Init  BY InitInvariant
<1>2. IInv /\ [Next]_vars => IInv' /\ [Status!Next]_(Status!vars)
  BY StepInvariant DEF StatusStep
<1> QED  BY <1>1, <1>2, PTL DEF Spec, StatusRefinement, Status!Spec

\* A run that ended has no step left in the status machine.
LEMMA TerminalStep ==
    ASSUME StatusStep, run.status \in TERMINAL_STATUSES
    PROVE  run'.status = run.status /\ run'.version = run.version
<1>1. \A s \in TERMINAL_STATUSES : ALLOWED_TRANSITIONS[s] = {} /\ s # ABSENT
  BY DEF ALLOWED_TRANSITIONS, RunStatus, TERMINAL_STATUSES, PAUSED_STATUSES, ABSENT
<1>2. RUNNABLE_STATUSES \cap TERMINAL_STATUSES = {}
  BY DEF RUNNABLE_STATUSES
<1> QED
  BY <1>1, <1>2, SameTables
     DEF StatusStep, Status!Next, Status!vars, Status!Create, Status!Transition, Status!Rewind,
         Status!ExpireOnRecovery

\* The row of a run that ended is never written again, by any number of requests,
\* handlers, restarts and recoveries.
THEOREM TerminalIsFinal ==
    Spec => [][run.status \in TERMINAL_STATUSES =>
                  UNCHANGED <<run.status, run.version>>]_vars
<1>1. StatusStep /\ run.status \in TERMINAL_STATUSES => UNCHANGED <<run.status, run.version>>
  BY TerminalStep
<1>2. IInv /\ [Next]_vars =>
         IInv' /\ (run.status \in TERMINAL_STATUSES => UNCHANGED <<run.status, run.version>>)
  BY <1>1, StepInvariant
<1> QED  BY <1>2, InitInvariant, PTL DEF Spec

=============================================================================
