--------------------------- MODULE RunRecordProofs ---------------------------
(***************************************************************************)
(* What the record of a run carries through its copies: completed calls,   *)
(* approvals and steps.  Every actor reads the record, edits its copy and  *)
(* saves it; recovery and resume go on from whatever was saved last.       *)
(***************************************************************************)
EXTENDS RunEndProofs

-----------------------------------------------------------------------------
(* Edits of the task's copy. *)

\* c is the task's copy as the current await edits it before it saves it.
EditedCopy(c) ==
    /\ c \in RunRecord
    /\ pc \in Executing \cup {"h_save"}
    /\ c.status = copy.status /\ c.version = copy.version
    /\ c.approved = copy.approved /\ c.modified = copy.modified /\ c.pause = copy.pause
    /\ c.steps = IF pc = "plan" THEN copy.steps + 1 ELSE copy.steps
    /\ c.completed = IF pc = "tool_done" THEN copy.completed \cup {cur} ELSE copy.completed
    /\ pc \notin {"model", "model_reply", "tool_done"} => c.pending = copy.pending

\* The task saved an edit of its copy, on the version it had read.
TaskSaves ==
    \E c \in RunRecord, target \in RunStatus :
        /\ EditedCopy(c) /\ VersionMatches(c)
        /\ run' = Saved(c, target) /\ copy' = run'

\* The task left the row alone and goes on with its copy, with the row it has just read,
\* or not at all.
TaskRests ==
    /\ run' = run
    /\ copy' \in {copy, run, NewRun}
    /\ pc' \notin {"ask", "model", "backoff"}
    /\ \/ /\ copy' = run
          /\ \/ pc' \in {"h_save", "finish"} \/ pc' = LoopHead(run)
             \/ pc' = "accept" /\ run.status = "RECEIVED"
       \/ copy' = copy /\ pc \in Executing \ {"ask", "emit_pause", "emit_end"} /\ pc' # "h_save"
       \/ pc' \notin Executing \cup {"h_save"}

\* Saving changes status and version only.
LEMMA SavedFields ==
    ASSUME NEW c \in RunRecord, NEW t
    PROVE  /\ Saved(c, t).steps = c.steps /\ Saved(c, t).pending = c.pending
           /\ Saved(c, t).completed = c.completed /\ Saved(c, t).approved = c.approved
           /\ Saved(c, t).modified = c.modified /\ Saved(c, t).pause = c.pause
  BY DEF Saved, RunRecord

LEMMA SaveOrNot ==
    ASSUME NEW p, NEW c \in RunRecord, NEW target \in RunStatus, NEW next,
           EditedCopy(c), DriverSave(p, c, target, next)
    PROVE  (TaskSaves /\ pc' = next) \/ TaskRests
<1>1. CASE CanTransition(c, target)
  BY <1>1 DEF DriverSave, CanTransition, TaskSaves
<1>2. CASE ~CanTransition(c, target)
  BY <1>2 DEF DriverSave, TaskRests, Executing, ToolAwaits, ToolTry
<1> QED  BY <1>1, <1>2

\* A step of the driving task saves an edit of its copy or leaves the row alone.
LEMMA DriverSaves ==
    ASSUME IInv, DriverNext, ~PlanApproval
    PROVE  TaskSaves \/ TaskRests
<1> USE CopyFacts, SteppedRecord
<1>1. CASE \/ Accept \/ Validate \/ BuildContext \/ AskApproval \/ ModelBackoff
           \/ VerifyPasses \/ Repair \/ Compose
  <2>1. PICK target, next : /\ target \in RunStatus
                            /\ DriverSave(pc, copy, target, next)
                            /\ pc \in Executing \ {"plan", "tool_done"}
    BY <1>1
       DEF Accept, Validate, BuildContext, AskApproval, ModelBackoff, VerifyPasses, Repair, Compose,
           DriverSave, Lands, RunStatus, TERMINAL_STATUSES, PAUSED_STATUSES, Executing
  <2>2. EditedCopy(copy)
    BY <2>1 DEF EditedCopy
  <2> QED  BY <2>1, <2>2, SaveOrNot
<1>2. CASE PlanClarify \/ PlanModel \/ PlanTool \/ PlanComplete \/ PlanFail
  <2>1. PICK target, next : target \in RunStatus /\ DriverSave(pc, Stepped(copy), target, next) /\ pc = "plan"
    BY <1>2
       DEF PlanClarify, PlanModel, PlanTool, PlanComplete, PlanFail, Planned,
           RunStatus, TERMINAL_STATUSES, PAUSED_STATUSES
  <2>2. EditedCopy(Stepped(copy))
    BY <2>1 DEF EditedCopy, Stepped, RunRecord, Executing
  <2> QED  BY <2>1, <2>2, SaveOrNot
<1>3. CASE ModelReply \/ CachedReply
  <2>0. PICK p \in {"model", "model_reply"}, cost \in 0..1 : ModelDone(p, cost)
    BY <1>3 DEF ModelReply, CachedReply
  <2>1. PICK n \in 0..(NumCalls - issued), text \in BOOLEAN :
           DriverSave(p, Replied(copy, n, text, cost), "PLANNING",
                      LoopHead(Saved(Replied(copy, n, text, cost), "PLANNING")))
    BY <2>0 DEF ModelDone
  <2> DEFINE c == Replied(copy, n, text, cost)
  <2>2. (issued + 1)..(issued + n) \in SUBSET Calls /\ copy.used + cost \in Nat
    <3>1. issued \in Nat /\ NumCalls \in Nat /\ n \in Nat /\ issued + n <= NumCalls
      BY CallsAssumption DEF TaskTypes
    <3> QED  BY <3>1 DEF Calls
  <2>3. c \in RunRecord
    BY <2>2, RecordUpdate DEF Replied
  <2>4. PICK next : DriverSave(p, c, "PLANNING", next)
    BY <2>1
  <2>5. EditedCopy(c)
    BY <2>0, <2>1, <2>3 DEF EditedCopy, Replied, RunRecord, DriverSave, Lands, Executing
  <2> HIDE DEF c
  <2> QED  BY <2>3, <2>4, <2>5, SaveOrNot DEF RunStatus
<1>4. CASE ModelRetry
  <2>1. PICK charge \in 0..1 :
           LET c == [copy EXCEPT !.used = @ + charge, !.attempts = @ + 1]
           IN  IF c.used >= MaxTokens
               THEN /\ At("model_reply")
                    /\ pc' = "h_read"
                    /\ UNCHANGED <<run, copy, cancelReq>>
               ELSE DriverSave("model_reply", c, "RETRYING", "backoff")
    BY <1>4 DEF ModelRetry
  <2> DEFINE c == [copy EXCEPT !.used = @ + charge, !.attempts = @ + 1]
  <2>2. copy.used + charge \in Nat
    OBVIOUS
  <2>3. c \in RunRecord
    BY <2>2, RecordUpdate
  <2>4. CASE DriverSave("model_reply", c, "RETRYING", "backoff")
    <3>1. pc = "model_reply"
      BY <2>4 DEF DriverSave, Lands
    <3>2. EditedCopy(c)
      BY <2>3, <3>1 DEF EditedCopy, RunRecord, Executing, ToolAwaits
    <3> HIDE DEF c
    <3> QED  BY <2>3, <2>4, <3>2, SaveOrNot DEF RunStatus
  <2>5. CASE run' = run /\ copy' = copy /\ pc' = "h_read"
    BY <2>5 DEF TaskRests, Executing, ToolAwaits, ToolTry
  <2> QED  BY <2>1, <2>4, <2>5
<1>5. CASE ToolDone
  <2> DEFINE c == [copy EXCEPT !.completed = @ \cup {cur}, !.pending = @ \ {cur},
                               !.output = FALSE]
  <2>1. PICK next : DriverSave("tool_done", c, "BUILDING_CONTEXT", next)
    BY <1>5 DEF ToolDone
  <2>2. cur \in Calls /\ pc = "tool_done"
    BY <2>1 DEF DriverSave, Lands, IInv, TaskInv, ToolAwaits
  <2>3. copy.completed \cup {cur} \in SUBSET Calls /\ copy.pending \ {cur} \in SUBSET Calls
    BY <2>2 DEF RunRecord
  <2>4. c \in RunRecord
    BY <2>3, RecordUpdate
  <2>5. EditedCopy(c)
    BY <2>2, <2>4 DEF EditedCopy, RunRecord, Executing, ToolAwaits
  <2> HIDE DEF c
  <2> QED  BY <2>1, <2>4, <2>5, SaveOrNot DEF RunStatus
<1>6. CASE VerifyFails
  <2> DEFINE c == [copy EXCEPT !.attempts = @ + 1, !.output = FALSE]
  <2>1. c \in RunRecord
    BY RecordUpdate
  <2>2. CASE DriverSave("verify", c, "RETRYING", "repair")
    <3>1. pc = "verify"
      BY <2>2 DEF DriverSave, Lands
    <3>2. EditedCopy(c)
      BY <2>1, <3>1 DEF EditedCopy, RunRecord, Executing, ToolAwaits
    <3> HIDE DEF c
    <3> QED  BY <2>1, <2>2, <3>2, SaveOrNot DEF RunStatus
  <2>3. CASE run' = run /\ copy' = copy /\ pc' = "h_read"
    BY <2>3 DEF TaskRests, Executing, ToolAwaits, ToolTry
  <2> QED  BY <1>6, <2>2, <2>3 DEF VerifyFails
<1>7. CASE HandlerSave
  <2>1. CASE VersionMatches(copy) /\ pc = "h_save" /\ run' = Saved(copy, goal) /\ copy' = run'
    <3>1. goal \in RunStatus
      BY <2>1, StatusTables DEF IInv, TaskInv, HandlerGoal, Coherent
    <3>2. EditedCopy(copy)
      BY <2>1 DEF EditedCopy
    <3> QED  BY <2>1, <3>1, <3>2 DEF TaskSaves
  <2>2. CASE run' = run /\ copy' = NewRun /\ pc' = "none"
    BY <2>2 DEF TaskRests, Executing, ToolAwaits, ToolTry
  <2> QED  BY <1>7, <2>1, <2>2 DEF HandlerSave, TaskEnds, Lands, stores
<1> USE LoopHeadPC DEF TaskRests, Executing, ToolAwaits, ToolTry
<1>8. CASE Boot \/ CallModel \/ CallFallback \/ EmitEnd \/ EmitPause \/ Finish \/ HandlerRead \/ HandlerEmit
  BY <1>8
     DEF Boot, CallModel, CallFallback, EmitEnd, EmitPause, Finish, HandlerRead, HandlerEmit, TaskEnds, At, stores
<1>9. CASE Raise \/ DeliverCancel \/ DeliverTimeout
  BY <1>9 DEF Raise, DeliverCancel, DeliverTimeout, Interrupted, Unwind, TaskEnds, stores
<1>10. CASE ExecutorStep \/ HandlerStep
  BY <1>10
     DEF ExecutorStep, HandlerStep, Begin, CachedResult, Invoke, InvokeAgain, Complete, Return,
         Fail, HandlerReturns, HandlerFails, HandlerRaises, At, Lands, stores
<1> QED
  BY <1>1, <1>2, <1>3, <1>4, <1>5, <1>6, <1>7, <1>8, <1>9, <1>10
     DEF DriverNext, RuntimeStep, ExternalStep, Interrupt

\* A step of a request saves its copy, or leaves the row alone; the copy is the row it
\* has read or what its decision made of it.
LEMMA RequestRecords ==
    ASSUME IInv, NEW r \in Requests,
           \/ CancelRead(r) \/ CancelSave(r) \/ ResumeRead(r) \/ ResumeDecide(r) \/ ResumeSave(r)
           \/ RequestEmit(r) \/ RequestFails(r)
    PROVE  /\ UNCHANGED <<copy, cur, attempt, cause, goal, ledger, history>>
           /\ pc' = pc \/ (pc' = "boot" /\ pc = "none")
           /\ \A q \in Requests \ {r} : req'[q] = req[q]
           /\ req[r] \in RequestRecord /\ req[r].copy \in RunRecord
           /\ \/ run' = run
              \/ \E target \in RunStatus : /\ run' = Saved(req[r].copy, target)
                                           /\ VersionMatches(req[r].copy) /\ req[r].pc # "idle"
           /\ \/ req'[r] = IdleRequest
              \/ req'[r].copy = run /\ run' = run
              \/ req'[r].copy = req[r].copy /\ req[r].pc # "idle"
              \/ /\ req[r].pc = "r_decide" /\ run' = run
                 /\ req'[r].copy = Decided(req[r].copy, approvals[req[r].copy.pause].call,
                                           req[r].decision)
<1>1. /\ UNCHANGED <<copy, cur, attempt, cause, goal, ledger, history>>
      /\ pc' = pc \/ (pc' = "boot" /\ pc = "none")
  BY DEF CancelRead, CancelSave, ResumeRead, ResumeDecide, ResumeSave, RequestEmit, RequestFails,
         stores, task, TaskAlive
<1>2. req \in [Requests -> RequestRecord] /\ req[r] \in RequestRecord /\ req[r].copy \in RunRecord
  BY DEF IInv, TypeOK, RequestRecord
<1>3. \/ run' = run
      \/ \E target \in RunStatus : /\ run' = Saved(req[r].copy, target)
                                   /\ VersionMatches(req[r].copy) /\ req[r].pc # "idle"
  <2>1. CASE CancelSave(r)
    BY <2>1 DEF CancelSave, CanTransition, RunStatus, TERMINAL_STATUSES
  <2>2. CASE ResumeSave(r)
    <3>1. req[r].goal \in RunStatus /\ req[r].pc # "idle"
      BY <2>2 DEF ResumeSave, IInv, RequestInv, RunStatus, TERMINAL_STATUSES
    <3> QED  BY <2>2, <3>1 DEF ResumeSave, CanTransition
  <2>3. CASE CancelRead(r) \/ ResumeRead(r) \/ ResumeDecide(r) \/ RequestEmit(r) \/ RequestFails(r)
    BY <2>3 DEF CancelRead, ResumeRead, ResumeDecide, RequestEmit, RequestFails, stores
  <2> QED  BY <2>1, <2>2, <2>3
<1>4. \/ req'[r] = IdleRequest
      \/ req'[r].copy = run /\ run' = run
      \/ req'[r].copy = req[r].copy /\ req[r].pc # "idle"
      \/ /\ req[r].pc = "r_decide" /\ run' = run
         /\ req'[r].copy = Decided(req[r].copy, approvals[req[r].copy.pause].call, req[r].decision)
  <2>1. CASE Answer(r)
    BY <1>2, <2>1, NewRunRecord DEF Answer
  <2>2. CASE CancelRead(r) \/ ResumeRead(r)
    BY <1>2, <2>2 DEF CancelRead, ResumeRead, IdleRequest, stores
  <2>3. CASE ~Answer(r) /\ (CancelSave(r) \/ ResumeSave(r))
    BY <1>2, <2>3 DEF CancelSave, ResumeSave, RequestRecord
  <2>4. CASE ~Answer(r) /\ ResumeDecide(r)
    <3> DEFINE d == req[r].decision
               call == approvals[req[r].copy.pause].call
    <3>1. /\ req[r].pc = "r_decide" /\ run' = run
          /\ req' = [req EXCEPT ![r].pc = "r_save", ![r].decision = "none",
                                ![r].copy = Decided(@, call, d),
                                ![r].goal = IF d = "rejected" THEN "FAILED" ELSE "PLANNING"]
      BY <2>4 DEF ResumeDecide
    <3>2. req'[r].copy = Decided(req[r].copy, call, d)
      BY <1>2, <3>1 DEF RequestRecord
    <3> QED  BY <3>1, <3>2
  <2> QED  BY <2>1, <2>2, <2>3, <2>4 DEF RequestEmit, RequestFails
<1> QED  BY <1>1, <1>2, <1>3, <1>4, RequestFrame

\* Outside the approval and the pause a decision leaves the record alone.
LEMMA DecidedFields ==
    ASSUME NEW rec \in RunRecord, NEW c, NEW d
    PROVE  /\ Decided(rec, c, d).completed = rec.completed
           /\ Decided(rec, c, d).steps = rec.steps
           /\ Decided(rec, c, d).pending = rec.pending
           /\ Decided(rec, c, d).version = rec.version
           /\ Decided(rec, c, d).status = rec.status
  BY DEF Decided, RunRecord

\* The process creates the row, or rewinds or times out one that nobody drives; a crash
\* loses every copy.
LEMMA ProcessRecords ==
    ASSUME IInv, LifeInv, ProcessNext
    PROVE  /\ UNCHANGED <<ledger, approvals, history>>
           /\ \/ run' = run
              \/ /\ run.status = ABSENT /\ run' = [NewRun EXCEPT !.status = "RECEIVED"]
                 /\ UNCHANGED <<pc, copy>> /\ ~TaskAlive
              \/ /\ run.status \in RUNNABLE_STATUSES /\ ~TaskAlive
                 /\ \/ run' = Saved(run, "TIMED_OUT")
                    \/ run' = Saved(run, recovery_status(run.status))
           /\ \/ UNCHANGED <<copy, req, cur, attempt>> /\ pc' \in {pc, "boot"}
              \/ /\ pc' = "none" /\ copy' = NewRun /\ cur' = 0 /\ run' = run
                 /\ req' = [r \in Requests |-> IdleRequest]
           /\ pc' = "boot" /\ pc # "boot" => starter = "emit" \/ ~TaskAlive
<1>1. CASE Crash
  BY <1>1 DEF Crash, TaskEnds, stores, history
<1>2. CASE \/ StartCreate \/ StartSchedule \/ StartFails \/ DeadlinePasses \/ ShutdownBegin
           \/ GraceExpires \/ ShutdownEnds
  BY <1>2
     DEF StartCreate, StartSchedule, StartFails, DeadlinePasses, ShutdownBegin, GraceExpires,
         ShutdownEnds, stores, task, history, IInv
<1>3. CASE RecoverNothing \/ RecoverExpired \/ RecoverEmit \/ RecoverRun
  BY <1>3
     DEF RecoverNothing, RecoverExpired, RecoverEmit, RecoverRun, Restart, stores, task, history,
         LifeInv
<1> QED  BY <1>1, <1>2, <1>3 DEF ProcessNext

-----------------------------------------------------------------------------
(* Completed calls are recorded. *)

\* From the reservation of a call to its outcome, where the ledger row still changes.
Reserved == ToolTry \cup {"t_wait", "t_fail"}

\* The calls the row or anybody's copy of it says are completed.
Listed ==
    {c \in Calls : \/ c \in run.completed \cup copy.completed
                   \/ \E r \in Requests : c \in req[r].copy.completed}

\* The inductive invariant behind CompletedCallsAreRecorded: what any copy says is
\* completed has its result in the ledger, and the call the executor has reserved, whose
\* row it may still mark as failed, is in no copy yet.
RecordedInv ==
    /\ \A c \in Listed : ledger[c] = "completed"
    /\ pc \in {"t_return", "tool_done"} => ledger[cur] = "completed"
    /\ pc \in Reserved => cur \notin Listed

\* A step that leaves the ledger alone and makes no call completed.
LEMMA RecordedKept ==
    ASSUME RecordedInv, UNCHANGED ledger, Listed' \subseteq Listed,
           pc' \in {"t_return", "tool_done"} => ledger[cur'] = "completed",
           pc' \in Reserved => pc \in Reserved /\ cur' = cur
    PROVE  RecordedInv'
  BY DEF RecordedInv

LEMMA DriverRecorded ==
    ASSUME IInv, RecordedInv, DriverNext
    PROVE  RecordedInv'
<1>1. /\ UNCHANGED req /\ copy \in RunRecord /\ run \in RunRecord
      /\ cur \in Calls \cup {0} /\ ledger \in [Calls -> LedgerStatus]
      /\ NewRun.completed = {}
  BY DriverFrame DEF IInv, TypeOK, NewRun
<1>2. /\ run'.completed \subseteq run.completed \cup copy.completed \cup
                                  (IF pc = "tool_done" THEN {cur} ELSE {})
      /\ copy'.completed \subseteq run.completed \cup copy.completed \cup
                                  (IF pc = "tool_done" THEN {cur} ELSE {})
  <2>1. CASE PlanApproval
    <3>1. run' = run /\ copy' = [Stepped(copy) EXCEPT !.pause = Len(approvals) + 1]
      BY <2>1 DEF PlanApproval
    <3>2. copy'.completed = copy.completed
      BY <1>1, <3>1, SteppedRecord DEF Stepped, RunRecord
    <3> QED  BY <3>1, <3>2
  <2>2. CASE TaskSaves
    <3>1. PICK c \in RunRecord, target \in RunStatus :
             EditedCopy(c) /\ run' = Saved(c, target) /\ copy' = run'
      BY <2>2 DEF TaskSaves
    <3>2. run'.completed = c.completed
      BY <3>1, SavedFields
    <3> QED  BY <3>1, <3>2 DEF EditedCopy
  <2>3. CASE run' = run /\ copy' \in {copy, run, NewRun}
    BY <1>1, <2>3
  <2> QED  BY <2>1, <2>2, <2>3, DriverSaves DEF TaskRests
<1>3. CASE UNCHANGED ledger /\ pc' \notin Reserved \cup {"tool_done"}
  <2>1. \A c \in Listed' : c \in Listed \/ (pc = "tool_done" /\ c = cur)
    BY <1>1, <1>2 DEF Listed
  <2> QED  BY <1>3, <2>1 DEF RecordedInv, Reserved, ToolTry
<1>4. CASE ExecutorStep \/ HandlerStep
  <2>1. cur \in Calls /\ cur' = cur /\ run' = run /\ copy' = copy /\ pc # "tool_done"
    BY <1>4
       DEF ExecutorStep, HandlerStep, Begin, CachedResult, Invoke, InvokeAgain, Complete, Return,
           Fail, HandlerReturns, HandlerFails, HandlerRaises, At, Lands, stores, IInv, TaskInv,
           ToolAwaits, ToolTry
  <2>2. Listed' = Listed
    BY <1>1, <2>1 DEF Listed
  <2>3. CASE Begin
    <3>1. CASE CanReserve(cur) /\ ledger' = LedgerSet(cur, "started") /\ pc' = "t_wait"
      <4>1. cur \notin Listed
        BY <3>1 DEF CanReserve, RecordedInv
      <4>2. \A c \in Calls \ {cur} : ledger'[c] = ledger[c]
        BY <1>1, <2>1, <3>1 DEF LedgerSet
      <4> QED  BY <2>1, <2>2, <3>1, <4>1, <4>2 DEF RecordedInv, Listed
    <3>2. CASE UNCHANGED ledger /\ pc' \in {"tool_done", "h_read"}
      BY <2>1, <2>2, <2>3, <3>2, RecordedKept DEF Begin, Reserved, ToolTry
    <3> QED  BY <2>3, <3>1, <3>2 DEF Begin
  <2>4. CASE CachedResult \/ Complete
    <3>1. /\ ledger' = LedgerSet(cur, "completed") /\ pc \in Reserved
          /\ pc' \in {"tool_done", "t_return"}
      BY <2>4 DEF CachedResult, Complete, Lands, Reserved, ToolTry
    <3>2. ledger'[cur] = "completed" /\ \A c \in Calls \ {cur} : ledger'[c] = ledger[c]
      BY <1>1, <2>1, <3>1 DEF LedgerSet
    <3> QED  BY <2>1, <2>2, <3>1, <3>2 DEF RecordedInv, Listed
  <2>5. CASE Fail
    <3>1. ledger' = LedgerSet(cur, FailureStatus(cur)) /\ pc \in Reserved /\ pc' = "h_read"
      BY <2>5 DEF Fail, Lands, Reserved
    <3>2. \A c \in Calls \ {cur} : ledger'[c] = ledger[c]
      BY <1>1, <2>1, <3>1 DEF LedgerSet
    <3> QED  BY <2>1, <2>2, <3>1, <3>2 DEF RecordedInv, Listed, Reserved, ToolTry
  <2>6. CASE Return
    <3>1. UNCHANGED ledger /\ pc = "t_return" /\ pc' = "tool_done"
      BY <2>6 DEF Return, At, stores
    <3> QED  BY <2>1, <2>2, <3>1, RecordedKept DEF RecordedInv, Reserved, ToolTry
  <2>7. CASE Invoke \/ InvokeAgain \/ HandlerReturns \/ HandlerFails \/ HandlerRaises
    <3>1. UNCHANGED ledger /\ pc \in Reserved /\ pc' \notin {"t_return", "tool_done"}
      BY <2>7 DEF Invoke, InvokeAgain, HandlerReturns, HandlerFails, HandlerRaises, At, stores,
                  Reserved, ToolTry
    <3> QED  BY <2>1, <2>2, <3>1, RecordedKept
  <2> QED  BY <1>4, <2>3, <2>4, <2>5, <2>6, <2>7 DEF ExecutorStep, HandlerStep
<1>5. CASE Raise \/ DeliverCancel \/ DeliverTimeout
  <2>1. /\ UNCHANGED ledger /\ run' = run
        /\ \/ pc' \notin Reserved \cup {"tool_done"}
           \/ pc \in Reserved /\ pc' = "t_fail" /\ copy' = copy /\ cur' = cur
    BY <1>5
       DEF Raise, DeliverCancel, DeliverTimeout, Interrupted, Unwind, TaskEnds, stores, Reserved,
           ToolTry
  <2>2. CASE pc \in Reserved /\ pc' = "t_fail" /\ copy' = copy /\ cur' = cur
    <3>1. Listed' = Listed
      BY <1>1, <2>1, <2>2 DEF Listed
    <3> QED  BY <2>1, <2>2, <3>1, RecordedKept
  <2> QED  BY <1>3, <2>1, <2>2
<1> USE LoopHeadPC DEF Reserved, ToolTry
<1>6. CASE \/ Accept \/ Validate \/ BuildContext \/ PlanClarify \/ PlanModel \/ PlanTool
           \/ PlanComplete \/ PlanFail \/ AskApproval \/ ModelBackoff
           \/ VerifyPasses \/ Repair \/ Compose
  BY <1>3, <1>6
     DEF Accept, Validate, BuildContext, PlanClarify, PlanModel, PlanTool, PlanComplete, PlanFail,
         AskApproval, ModelBackoff, VerifyPasses, Repair, Compose, DriverSave
<1>7. CASE ModelReply \/ CachedReply \/ ModelRetry \/ ToolDone \/ VerifyFails
  BY <1>3, <1>7
     DEF ModelReply, CachedReply, ModelDone, ModelRetry, ToolDone, VerifyFails, DriverSave
<1>8. CASE Boot \/ PlanApproval \/ CallModel \/ CallFallback \/ EmitEnd \/ EmitPause \/ HandlerEmit
  BY <1>3, <1>8
     DEF Boot, PlanApproval, CallModel, CallFallback, At, EmitEnd, EmitPause, HandlerEmit, stores
<1>9. CASE Finish \/ HandlerRead \/ HandlerSave
  BY <1>3, <1>9 DEF Finish, HandlerRead, HandlerSave, TaskEnds, stores
<1> QED
  BY <1>4, <1>5, <1>6, <1>7, <1>8, <1>9 DEF DriverNext, RuntimeStep, ExternalStep, Interrupt

\* Requests and the process write no ledger row, and what they save or copy was read
\* from the row.
LEMMA OthersRecorded ==
    ASSUME IInv, LifeInv, RecordedInv, RequestNext \/ ProcessNext \/ UNCHANGED vars
    PROVE  RecordedInv'
<1>0. copy \in RunRecord /\ run \in RunRecord /\ NewRun.completed = {}
  BY DEF IInv, TypeOK, NewRun
<1>1. CASE RequestNext
  <2>1. PICK r \in Requests :
           \/ CancelRead(r) \/ CancelSave(r) \/ ResumeRead(r) \/ ResumeDecide(r) \/ ResumeSave(r)
           \/ RequestEmit(r) \/ RequestFails(r)
    BY <1>1 DEF RequestNext
  <2>2. /\ UNCHANGED <<copy, cur, ledger>> /\ pc' \in {pc, "boot"}
        /\ \A q \in Requests \ {r} : req'[q] = req[q]
        /\ req[r].copy \in RunRecord
    BY <2>1, RequestRecords
  <2>3. run'.completed \in {run.completed, req[r].copy.completed}
    BY <2>1, <2>2, RequestRecords, SavedFields
  <2>4. req'[r].copy.completed \in {run.completed, req[r].copy.completed, {}}
    BY <1>0, <2>1, <2>2, RequestRecords, DecidedFields, NewRunRecord
  <2>5. Listed' \subseteq Listed
    BY <2>2, <2>3, <2>4 DEF Listed
  <2> QED  BY <2>2, <2>5, RecordedKept DEF RecordedInv, Reserved, ToolTry
<1>2. CASE ProcessNext
  <2>1. run'.completed \in {run.completed, {}} /\ UNCHANGED ledger
    BY <1>0, <1>2, ProcessRecords, SavedFields DEF NewRun
  <2>2. CASE UNCHANGED <<copy, req, cur>> /\ pc' \in {pc, "boot"}
    <3>1. Listed' \subseteq Listed
      BY <2>1, <2>2 DEF Listed
    <3> QED  BY <2>1, <2>2, <3>1, RecordedKept DEF RecordedInv, Reserved, ToolTry
  <2>3. CASE pc' = "none" /\ copy' = NewRun /\ req' = [r \in Requests |-> IdleRequest]
    <3>1. Listed' \subseteq Listed
      BY <1>0, <2>1, <2>3, NewRunRecord DEF Listed
    <3> QED  BY <2>1, <2>3, <3>1, RecordedKept DEF Reserved, ToolTry
  <2> QED  BY <1>2, <2>2, <2>3, ProcessRecords
<1>3. CASE UNCHANGED vars
  <2>1. UNCHANGED <<run, copy, req, pc, cur, ledger>>
    BY <1>3 DEF vars, stores, task
  <2> QED  BY <2>1 DEF RecordedInv, Listed
<1> QED  BY <1>1, <1>2, <1>3

-----------------------------------------------------------------------------
(* Provider calls are bounded by the steps. *)

\* The provider calls that n attempts, a step and n steps allow.
Spent(n) == n * Profiles
PerStep == MaxAttempts * Profiles
Budget(n) == n * PerStep

LEMMA ProductFacts ==
    ASSUME NEW k \in Nat
    PROVE  /\ 0 * k = 0
           /\ \A n \in Nat : n * k \in Nat /\ (n + 1) * k = n * k + k
           /\ \A m, n \in Nat : m <= n => m * k <= n * k
<1>1. \A n \in Nat : n * k \in Nat /\ (n + 1) * k = n * k + k
  OBVIOUS
<1>2. ASSUME NEW m \in Nat, NEW n \in Nat, m <= n
      PROVE  m * k <= n * k
  <2>1. PICK j \in Nat : n = m + j
    <3>1. n - m \in Nat /\ n = m + (n - m)
      BY <1>2
    <3> QED  BY <3>1
  <2>2. n * k = m * k + j * k /\ j * k \in Nat
    BY <2>1
  <2>3. m * k \in Nat
    OBVIOUS
  <2> QED  BY <2>2, <2>3
<1> QED  BY <1>1, <1>2

LEMMA BudgetFacts ==
    /\ Budget(0) = 0 /\ Spent(0) = 0
    /\ PerStep \in Nat /\ Profiles \in Nat /\ PerStep = Spent(MaxAttempts)
    /\ \A n \in Nat : Budget(n) \in Nat /\ Budget(n + 1) = Budget(n) + PerStep
    /\ \A m, n \in Nat : m <= n => Budget(m) <= Budget(n)
    /\ \A n \in Nat : Spent(n) \in Nat /\ Spent(n + 1) = Spent(n) + Profiles
    /\ \A m, n \in Nat : m <= n => Spent(m) <= Spent(n)
<1>1. Profiles \in Nat /\ MaxAttempts \in Nat
  BY BoundsAssumption
<1>2. PerStep \in Nat
  BY <1>1, ProductFacts DEF PerStep
<1>3. PerStep = Spent(MaxAttempts)
  BY DEF PerStep, Spent
<1>4. /\ Budget(0) = 0
      /\ \A n \in Nat : Budget(n) \in Nat /\ Budget(n + 1) = Budget(n) + PerStep
      /\ \A m, n \in Nat : m <= n => Budget(m) <= Budget(n)
  BY <1>2, ProductFacts DEF Budget
<1>5. /\ Spent(0) = 0
      /\ \A n \in Nat : Spent(n) \in Nat /\ Spent(n + 1) = Spent(n) + Profiles
      /\ \A m, n \in Nat : m <= n => Spent(m) <= Spent(n)
  BY <1>1, ProductFacts DEF Spent
<1> QED  BY <1>1, <1>2, <1>3, <1>4, <1>5

AskingModel == {"model", "model_reply", "backoff"}

\* The most calls the present attempt may have made.
Called == IF pc = "model" THEN 0 ELSE IF pc = "model_reply" THEN tried ELSE Profiles

\* The inductive invariant behind ModelCallsBounded: the row counts every step whose
\* provider calls were made, because the step is saved before the first of them and no
\* actor saves a copy with another count; within a step the attempts and
\* the candidates tried count the calls.
CallsInv ==
    /\ run.steps <= MaxSteps
    /\ run.status = ABSENT => run.steps = 0
    /\ modelCalls <= Budget(run.steps)
    /\ \A r \in Requests :
          req[r].pc # "idle" /\ VersionMatches(req[r].copy) => req[r].copy.steps = run.steps
    /\ pc \in Executing \cup {"h_save"} /\ VersionMatches(copy) =>
          copy.steps = IF pc = "ask" THEN run.steps + 1 ELSE run.steps
    /\ pc \in {"context", "plan"} => copy.steps < MaxSteps
    /\ pc = "ask" => copy.steps <= MaxSteps
    /\ pc \in AskingModel =>
          /\ attempt < MaxAttempts
          /\ copy.steps <= run.steps
          /\ modelCalls + PerStep <= Budget(copy.steps) + Spent(attempt) + Called
    /\ pc = "model_reply" => tried <= Profiles
    /\ pc = "backoff" => attempt + 1 < MaxAttempts

\* The head of the loop goes on only below the limit of steps.
LEMMA LoopHeadSteps ==
    ASSUME NEW c \in RunRecord, LoopHead(c) \in {"context", "plan"}
    PROVE  c.steps < MaxSteps
  BY BoundsAssumption DEF LoopHead, RunRecord

\* What a save of the task does to the counts.
LEMMA CallsSaved ==
    ASSUME IInv, CallsInv, TaskSaves, UNCHANGED <<req, modelCalls>>
    PROVE  /\ copy' = run' /\ run' \in RunRecord /\ run'.status # ABSENT
           /\ run'.version = run.version + 1
           /\ run'.steps = IF pc = "plan" \/ pc = "ask" THEN run.steps + 1 ELSE run.steps
           /\ run'.steps = IF pc = "plan" THEN copy.steps + 1 ELSE copy.steps
           /\ run'.steps <= MaxSteps
           /\ modelCalls' <= Budget(run'.steps)
           /\ \A r \in Requests : req[r].pc # "idle" => req[r].copy.version # run'.version
<1>1. PICK c \in RunRecord, target \in RunStatus :
         /\ EditedCopy(c) /\ VersionMatches(c)
         /\ run' = Saved(c, target) /\ copy' = run'
  BY DEF TaskSaves
<1>2. /\ copy \in RunRecord /\ run \in RunRecord /\ copy.steps \in Nat /\ run.steps \in Nat
      /\ MaxSteps \in Nat /\ MaxAttempts \in Nat /\ modelCalls \in Nat
  BY BoundsAssumption DEF IInv, TypeOK, RunRecord
<1>3. /\ run' \in RunRecord /\ run'.status = target /\ run'.version = run.version + 1
      /\ run'.steps = c.steps
  BY <1>1, SavedRecord, SavedFields DEF VersionMatches
<1>4. copy.steps = IF pc = "ask" THEN run.steps + 1 ELSE run.steps
  BY <1>1 DEF EditedCopy, VersionMatches, CallsInv
<1>5. /\ run'.steps = IF pc = "plan" \/ pc = "ask" THEN run.steps + 1 ELSE run.steps
      /\ run'.steps = IF pc = "plan" THEN copy.steps + 1 ELSE copy.steps
      /\ run'.steps <= MaxSteps
  BY <1>1, <1>2, <1>3, <1>4 DEF EditedCopy, CallsInv
<1>6. modelCalls <= Budget(run'.steps)
  <2>1. run.steps <= run'.steps /\ run'.steps \in Nat
    BY <1>2, <1>5
  <2>2. Budget(run.steps) <= Budget(run'.steps) /\ Budget(run.steps) \in Nat /\ Budget(run'.steps) \in Nat
    BY <1>2, <2>1, BudgetFacts
  <2> QED  BY <1>2, <2>2 DEF CallsInv
<1>7. ASSUME NEW r \in Requests, req[r].pc # "idle"
      PROVE  req[r].copy.version # run'.version
  <2>1. Coherent(req[r].copy) /\ req[r].copy \in RunRecord
    BY <1>7 DEF IInv, TypeOK, RequestInv, RequestRecord
  <2> QED  BY <1>3, <2>1, StaysCoherent
<1> QED  BY <1>1, <1>3, <1>5, <1>6, <1>7, StatusTables

\* A save after which the task does not wait for a provider.
LEMMA CallsAfterSave ==
    ASSUME IInv, CallsInv, TaskSaves, UNCHANGED <<req, modelCalls>>,
           pc' \notin AskingModel \cup {"ask"},
           pc' \in {"context", "plan"} => run'.steps < MaxSteps
    PROVE  CallsInv'
  BY CallsSaved DEF CallsInv, VersionMatches, AskingModel

\* A step that leaves the row alone and does not lead to a provider.
LEMMA CallsKept ==
    ASSUME CallsInv, UNCHANGED <<run, req, modelCalls>>,
           pc' \notin AskingModel \cup {"ask"},
           pc' \in {"context", "plan"} => copy'.steps < MaxSteps,
           \/ copy' = run
           \/ copy' = copy /\ pc \in Executing \ {"ask"}
           \/ pc' \notin Executing \cup {"h_save"}
    PROVE  CallsInv'
  BY DEF CallsInv, VersionMatches, AskingModel

\* The loop plans only below the limit of steps.
LEMMA PlanBelowLimit ==
    ASSUME IInv, CallsInv, DriverNext, pc' \in {"context", "plan"}
    PROVE  copy'.steps < MaxSteps
<1>0. copy \in RunRecord /\ run \in RunRecord  BY CopyFacts
<1>1. CASE BuildContext
  <2>1. CASE CanTransition(copy, "PLANNING")
    <3>1. copy' = Saved(copy, "PLANNING") /\ pc = "context"
      BY <1>1, <2>1 DEF BuildContext, DriverSave, Lands
    <3> QED  BY <1>0, <3>1, SavedFields DEF CallsInv
  <2> QED  BY <1>1, <2>1 DEF BuildContext, DriverSave
<1>2. CASE ~BuildContext
  <2>1. copy' \in RunRecord /\ pc' = LoopHead(copy')
    <3>1. copy' \in RunRecord
      BY StepInvariant DEF Next, IInv, TypeOK
    <3> DEFINE Heads == copy' \in RunRecord /\ pc' = LoopHead(copy')
    <3>0. ASSUME NEW p, NEW c, NEW target, DriverSave(p, c, target, LoopHead(Saved(c, target)))
          PROVE  Heads
      <4>1. CanTransition(c, target)
        BY <3>0 DEF DriverSave
      <4>2. copy' = Saved(c, target) /\ pc' = LoopHead(Saved(c, target))
        BY <3>0, <4>1 DEF DriverSave
      <4> QED  BY <3>1, <4>2
    <3>2. CASE Boot \/ Accept
      BY <3>1, <3>2 DEF Boot, Accept, DriverSave
    <3>3. CASE Validate \/ Repair \/ ToolDone \/ CachedReply \/ ModelReply
      <4>1. PICK p, c, target : DriverSave(p, c, target, LoopHead(Saved(c, target)))
        BY <3>3 DEF Validate, Repair, ToolDone, CachedReply, ModelReply, ModelDone
      <4> QED  BY <3>0, <4>1
    <3>4. CASE \/ PlanClarify \/ PlanModel \/ PlanApproval \/ PlanTool \/ PlanComplete \/ PlanFail
               \/ AskApproval \/ ModelBackoff \/ ModelRetry \/ VerifyPasses \/ VerifyFails \/ Compose
      BY <3>4
         DEF PlanClarify, PlanModel, PlanApproval, PlanTool, PlanComplete, PlanFail, AskApproval,
             ModelBackoff, ModelRetry, VerifyPasses, VerifyFails, Compose, DriverSave
    <3>5. CASE CallModel \/ CallFallback \/ EmitEnd \/ EmitPause \/ Finish \/ HandlerRead \/ HandlerSave \/ HandlerEmit
      BY <3>5
         DEF CallModel, CallFallback, At, EmitEnd, EmitPause, Finish, HandlerRead, HandlerSave, HandlerEmit, TaskEnds
    <3>6. CASE Raise \/ DeliverCancel \/ DeliverTimeout
      BY <3>6 DEF Raise, DeliverCancel, DeliverTimeout, Interrupted, Unwind, TaskEnds
    <3>7. CASE ExecutorStep \/ HandlerStep
      BY <3>7
         DEF ExecutorStep, HandlerStep, Begin, CachedResult, Invoke, InvokeAgain, Complete, Return,
             Fail, HandlerReturns, HandlerFails, HandlerRaises
    <3> QED
      BY <1>2, <3>1, <3>2, <3>3, <3>4, <3>5, <3>6, <3>7
         DEF DriverNext, RuntimeStep, ExternalStep, Interrupt
  <2> QED  BY <2>1, LoopHeadSteps
<1> QED  BY <1>1, <1>2

\* How the task comes to wait for a provider.
LEMMA ReachesModel ==
    ASSUME DriverNext, pc' \in AskingModel \cup {"ask"}
    PROVE  PlanModel \/ CallModel \/ CallFallback \/ ModelRetry \/ ModelBackoff \/ PlanApproval
<1> USE LoopHeadPC DEF AskingModel
<1>1. ~(\/ Boot \/ Accept \/ Validate \/ BuildContext \/ PlanClarify \/ PlanTool \/ PlanComplete
        \/ PlanFail \/ AskApproval)
  BY DEF Boot, Accept, Validate, BuildContext, PlanClarify, PlanTool, PlanComplete, PlanFail,
         AskApproval, DriverSave
<1>2. ~(CachedReply \/ ModelReply \/ ToolDone \/ VerifyPasses \/ VerifyFails \/ Repair \/ Compose)
  BY DEF CachedReply, ModelReply, ModelDone, ToolDone, VerifyPasses, VerifyFails, Repair, Compose,
         DriverSave
<1>3. ~(EmitEnd \/ EmitPause \/ Finish \/ HandlerRead \/ HandlerSave \/ HandlerEmit)
  BY DEF EmitEnd, EmitPause, Finish, HandlerRead, HandlerSave, HandlerEmit, TaskEnds
<1>4. ~(Raise \/ DeliverCancel \/ DeliverTimeout)
  BY DEF Raise, DeliverCancel, DeliverTimeout, Interrupted, Unwind, TaskEnds
<1>5. ~(ExecutorStep \/ HandlerStep)
  BY DEF ExecutorStep, HandlerStep, Begin, CachedResult, Invoke, InvokeAgain, Complete, Return,
         Fail, HandlerReturns, HandlerFails, HandlerRaises
<1> QED
  BY <1>1, <1>2, <1>3, <1>4, <1>5 DEF DriverNext, RuntimeStep, ExternalStep, Interrupt

LEMMA DriverCalls ==
    ASSUME IInv, CallsInv, DriverNext
    PROVE  CallsInv'
<1>0. /\ UNCHANGED req /\ copy \in RunRecord /\ run \in RunRecord
      /\ copy.steps \in Nat /\ run.steps \in Nat /\ attempt \in Nat /\ modelCalls \in Nat
      /\ MaxAttempts \in Nat \ {0} /\ MaxSteps \in Nat \ {0} /\ tried \in Nat
      /\ Profiles \in Nat \ {0} /\ PerStep \in Nat
      /\ Budget(copy.steps) \in Nat /\ Budget(run.steps) \in Nat
      /\ Budget(run.steps + 1) = Budget(run.steps) + PerStep
      /\ Spent(0) = 0 /\ Spent(attempt) \in Nat
      /\ Spent(attempt + 1) = Spent(attempt) + Profiles
      /\ copy.steps <= run.steps => Budget(copy.steps) <= Budget(run.steps)
  BY DriverFrame, BoundsAssumption, BudgetFacts DEF IInv, TypeOK, RunRecord
<1>1. CASE CallModel \/ CallFallback
  <2>1. /\ pc \in {"model", "model_reply"} /\ pc' = "model_reply" /\ modelCalls' = modelCalls + 1
        /\ Called' = Called + 1 /\ tried' <= Profiles
        /\ UNCHANGED <<run, copy, attempt>>
    <3>1. CASE CallModel
      <4>1. /\ pc = "model" /\ pc' = "model_reply" /\ modelCalls' = modelCalls + 1 /\ tried' = 1
            /\ UNCHANGED <<run, copy, attempt>>
        BY <3>1 DEF CallModel, At, stores
      <4> QED  BY <1>0, <4>1 DEF Called
    <3>2. CASE CallFallback
      <4>1. /\ pc = "model_reply" /\ pc' = pc /\ modelCalls' = modelCalls + 1
            /\ tried < Profiles /\ tried' = tried + 1 /\ UNCHANGED <<run, copy, attempt>>
        BY <3>2 DEF CallFallback, At, stores
      <4> QED  BY <1>0, <4>1 DEF Called
    <3> QED  BY <1>1, <3>1, <3>2
  <2>2. modelCalls + PerStep <= Budget(copy.steps) + Spent(attempt) + Called
    BY <2>1 DEF CallsInv, AskingModel
  <2>3. /\ Called' <= Profiles /\ Called \in Nat /\ Called' \in Nat
        /\ attempt < MaxAttempts /\ copy.steps <= run.steps
    BY <1>0, <2>1 DEF Called, CallsInv, AskingModel
  <2>4. Spent(attempt) + Profiles <= PerStep
    BY <1>0, <2>3, BudgetFacts
  <2>5. /\ modelCalls' + PerStep <= Budget(copy.steps) + Spent(attempt) + Called'
        /\ modelCalls' <= Budget(run.steps)
    BY <1>0, <2>1, <2>2, <2>3, <2>4
  <2> QED
    BY <1>0, <2>1, <2>3, <2>5 DEF CallsInv, AskingModel, VersionMatches, Executing
<1>2. CASE PlanApproval
  <2>1. /\ pc = "plan" /\ pc' = "ask" /\ UNCHANGED <<run, modelCalls>>
        /\ copy' = [Stepped(copy) EXCEPT !.pause = Len(approvals) + 1]
    BY <1>2 DEF PlanApproval, Planned, history
  <2>2. copy'.steps = copy.steps + 1 /\ copy'.version = copy.version
    BY <1>0, <2>1 DEF Stepped, RunRecord
  <2>3. copy.steps < MaxSteps /\ (VersionMatches(copy) => copy.steps = run.steps)
    BY <2>1 DEF CallsInv, Executing
  <2>4. /\ run'.steps <= MaxSteps /\ (run'.status = ABSENT => run'.steps = 0)
        /\ modelCalls' <= Budget(run'.steps)
        /\ \A r \in Requests :
              req'[r].pc # "idle" /\ VersionMatches(req[r].copy)' => req'[r].copy.steps = run'.steps
    BY <1>0, <2>1 DEF CallsInv, VersionMatches
  <2>5. copy'.steps <= MaxSteps /\ (VersionMatches(copy)' => copy'.steps = run'.steps + 1)
    BY <1>0, <2>1, <2>2, <2>3 DEF VersionMatches
  <2>6. /\ pc' \notin AskingModel /\ pc' \notin {"context", "plan"}
        /\ pc' # "model_reply" /\ pc' # "backoff"
    BY <2>1 DEF AskingModel
  <2> QED
    BY <2>1, <2>4, <2>5, <2>6 DEF CallsInv
<1>3. CASE pc' \in {"model", "backoff"} /\ ~CallModel /\ ~CallFallback /\ ~PlanApproval
  <2>1. TaskSaves /\ modelCalls' = modelCalls
    BY <1>3, DriverSaves, OnlyWorkCounts DEF TaskRests, Next
  <2>2. /\ copy' = run' /\ run' \in RunRecord /\ run'.status # ABSENT
        /\ run'.version = run.version + 1
        /\ run'.steps = IF pc = "plan" \/ pc = "ask" THEN run.steps + 1 ELSE run.steps
        /\ run'.steps = IF pc = "plan" THEN copy.steps + 1 ELSE copy.steps
        /\ run'.steps <= MaxSteps
        /\ modelCalls' <= Budget(run'.steps)
        /\ \A r \in Requests : req[r].pc # "idle" => req[r].copy.version # run'.version
    BY <1>0, <2>1, CallsSaved
  <2>3. \/ /\ pc = "plan" /\ pc' = "model" /\ attempt' = 0
        \/ /\ pc = "model_reply" /\ pc' = "backoff" /\ attempt' = attempt /\ attempt + 1 < MaxAttempts
        \/ /\ pc = "backoff" /\ pc' = "model" /\ attempt' = attempt + 1
    BY <1>3, ReachesModel
       DEF PlanModel, Planned, ModelRetry, ModelBackoff, DriverSave, Lands, At, AskingModel
  <2>4. /\ attempt' < MaxAttempts
        /\ pc' = "backoff" => attempt' + 1 < MaxAttempts
        /\ modelCalls' + PerStep <= Budget(run'.steps) + Spent(attempt') + Called'
    <3>0. Called' = IF pc' = "model" THEN 0 ELSE Profiles
      BY <2>3 DEF Called
    <3>1. CASE pc = "plan"
      <4>1. Budget(run'.steps) = Budget(run.steps) + PerStep
        BY <1>0, <2>2, <3>1
      <4> QED  BY <1>0, <2>1, <2>3, <3>0, <3>1, <4>1 DEF CallsInv
    <3>2. CASE pc # "plan"
      <4>1. Budget(run'.steps) = Budget(copy.steps)
        BY <2>2, <3>2
      <4>2. /\ modelCalls + PerStep <= Budget(copy.steps) + Spent(attempt) + Called
            /\ attempt < MaxAttempts
            /\ pc = "model_reply" => tried <= Profiles
            /\ pc = "backoff" => attempt + 1 < MaxAttempts
        BY <2>3, <3>2 DEF CallsInv, AskingModel
      <4>3. CASE pc = "model_reply"
        BY <1>0, <2>1, <2>3, <3>0, <4>1, <4>2, <4>3 DEF Called
      <4>4. CASE pc = "backoff"
        BY <1>0, <2>1, <2>3, <3>0, <4>1, <4>2, <4>4 DEF Called
      <4> QED  BY <2>3, <3>2, <4>3, <4>4
    <3> QED  BY <3>1, <3>2
  <2> QED  BY <1>0, <1>3, <2>2, <2>4 DEF CallsInv, AskingModel, VersionMatches
<1>4. CASE pc' \notin {"model", "backoff"} /\ ~CallModel /\ ~CallFallback /\ ~PlanApproval
  <2>1. modelCalls' = modelCalls /\ (TaskSaves \/ TaskRests)
    BY <1>4, DriverSaves, OnlyWorkCounts DEF Next
  <2>2. pc' \notin AskingModel \cup {"ask"}
    BY <1>4, ReachesModel DEF AskingModel, PlanModel, ModelRetry, ModelBackoff, DriverSave
  <2>3. pc' \in {"context", "plan"} => copy'.steps < MaxSteps
    BY PlanBelowLimit
  <2>4. CASE TaskSaves
    BY <1>0, <2>1, <2>2, <2>3, <2>4, CallsAfterSave DEF TaskSaves
  <2>5. CASE TaskRests
    BY <1>0, <2>1, <2>2, <2>3, <2>5, CallsKept DEF TaskRests
  <2> QED  BY <2>1, <2>4, <2>5
<1> QED  BY <1>1, <1>2, <1>3, <1>4

\* A request saves the count it has read, and a version nobody else has read.
LEMMA RequestCalls ==
    ASSUME IInv, CallsInv, RequestNext
    PROVE  CallsInv'
<1>1. PICK r \in Requests :
         \/ CancelRead(r) \/ CancelSave(r) \/ ResumeRead(r) \/ ResumeDecide(r) \/ ResumeSave(r)
         \/ RequestEmit(r) \/ RequestFails(r)
  BY DEF RequestNext
<1>2. /\ UNCHANGED <<copy, attempt, modelCalls, tried>>
      /\ pc' = pc \/ (pc' = "boot" /\ pc = "none")
      /\ \A q \in Requests \ {r} : req'[q] = req[q]
      /\ req[r].copy \in RunRecord /\ run \in RunRecord /\ copy \in RunRecord
  BY <1>1, RequestRecords, CopyFacts DEF history
<1>3. run'.steps = run.steps /\ (run' = run \/ (/\ run'.version = run.version + 1
                                                /\ run'.status # ABSENT))
  <2>1. CASE run' # run
    <3>1. PICK target \in RunStatus :
             /\ run' = Saved(req[r].copy, target)
             /\ VersionMatches(req[r].copy) /\ req[r].pc # "idle"
      BY <1>1, <2>1, RequestRecords
    <3>2. req[r].copy.steps = run.steps
      BY <3>1 DEF CallsInv
    <3> QED  BY <1>2, <3>1, <3>2, SavedRecord, SavedFields, StatusTables DEF VersionMatches
  <2> QED  BY <2>1
<1>4. ASSUME NEW q \in Requests, req'[q].pc # "idle", req'[q].copy.version = run'.version
      PROVE  req'[q].copy.steps = run'.steps
  <2>1. CASE req'[q].copy = req[q].copy /\ req[q].pc # "idle"
    <3>1. Coherent(req[q].copy) /\ req[q].copy \in RunRecord
      BY <2>1 DEF IInv, TypeOK, RequestInv, RequestRecord
    <3>2. run' = run
      BY <1>3, <1>4, <2>1, <3>1, StaysCoherent
    <3> QED  BY <1>4, <2>1, <3>2 DEF CallsInv, VersionMatches
  <2>2. CASE q = r /\ req'[r].copy = run /\ run' = run
    BY <2>2
  <2>3. CASE /\ q = r /\ req[r].pc = "r_decide" /\ run' = run
             /\ req'[r].copy = Decided(req[r].copy, approvals[req[r].copy.pause].call,
                                       req[r].decision)
    <3>1. req'[r].copy.version = req[r].copy.version /\ req'[r].copy.steps = req[r].copy.steps
      BY <1>2, <2>3, DecidedFields
    <3> QED  BY <1>4, <2>3, <3>1 DEF CallsInv, VersionMatches
  <2>4. CASE q = r /\ req'[r] = IdleRequest
    BY <1>4, <2>4, NewRunRecord
  <2> QED  BY <1>1, <1>2, <1>4, <2>1, <2>2, <2>3, <2>4, RequestRecords
<1>5. pc \in Executing \cup {"h_save"} /\ copy.version = run'.version => run' = run
  <2>1. pc \in Executing \cup {"h_save"} => Coherent(copy)
    BY DEF IInv, TaskInv, Executing, ToolAwaits, ToolTry
  <2> QED  BY <1>2, <1>3, <2>1, StaysCoherent
<1>6. pc' \in AskingModel => pc' = pc /\ Called' = Called
  BY <1>2 DEF AskingModel, Called
<1> QED
  BY <1>2, <1>3, <1>4, <1>5, <1>6
     DEF CallsInv, VersionMatches, AskingModel, Executing, ToolAwaits, ToolTry

\* The process keeps the count it finds.
LEMMA ProcessCalls ==
    ASSUME IInv, LifeInv, CallsInv, ProcessNext
    PROVE  CallsInv'
<1>0. copy \in RunRecord /\ run \in RunRecord /\ NewRun.steps = 0
  BY CopyFacts DEF NewRun
<1>1. modelCalls' = modelCalls /\ tried' = tried
  BY ProcessRecords DEF history
<1>2. CASE pc' = "none" /\ run' = run /\ req' = [r \in Requests |-> IdleRequest]
  BY <1>1, <1>2, NewRunRecord
     DEF CallsInv, VersionMatches, AskingModel, Executing, ToolAwaits, ToolTry
<1>3. CASE UNCHANGED <<copy, req, attempt>> /\ pc' \in {pc, "boot"} /\ run' = run
  BY <1>1, <1>3
     DEF CallsInv, Called, VersionMatches, AskingModel, Executing, ToolAwaits, ToolTry
<1>4. CASE UNCHANGED req /\ pc' \in {pc, "boot"} /\ ~TaskAlive /\ run' # run
  <2>1. run'.steps = run.steps /\ run'.status # ABSENT
    <3>1. CASE run.status = ABSENT /\ run' = [NewRun EXCEPT !.status = "RECEIVED"]
      BY <1>0, <3>1 DEF CallsInv, NewRun, ABSENT
    <3>2. CASE \/ run' = Saved(run, "TIMED_OUT")
               \/ run' = Saved(run, recovery_status(run.status)) /\ run.status \in RUNNABLE_STATUSES
      <4>1. PICK target \in RunStatus : run' = Saved(run, target)
        BY <3>2, StatusTables DEF RUNNABLE_STATUSES, RunStatus, TERMINAL_STATUSES
      <4> QED  BY <1>0, <4>1, SavedRecord, SavedFields, StatusTables
    <3> QED  BY <1>4, <3>1, <3>2, ProcessRecords
  <2>2. ASSUME NEW r \in Requests, req[r].pc # "idle"
        PROVE  req[r].copy.version # run'.version
    <3>1. Coherent(req[r].copy) /\ req[r].copy \in RunRecord
      BY <2>2 DEF IInv, TypeOK, RequestInv, RequestRecord
    <3>2. run.status # ABSENT
      BY <3>1, StatusTables DEF IInv, Coherent, RunRecord
    <3>3. run'.version = run.version + 1
      BY <1>0, <1>4, <3>2, ProcessRecords DEF Saved, RunRecord
    <3> QED  BY <3>1, <3>3, StaysCoherent
  <2> QED
    BY <1>1, <1>4, <2>1, <2>2
       DEF CallsInv, VersionMatches, TaskAlive, AskingModel, Executing, ToolAwaits, ToolTry
<1> QED  BY <1>2, <1>3, <1>4, ProcessRecords

-----------------------------------------------------------------------------
(* The theorems. *)

LEMMA RecordInit == Init => RecordedInv /\ CallsInv
<1> SUFFICES ASSUME Init PROVE RecordedInv /\ CallsInv
  OBVIOUS
<1>1. /\ run.completed = {} /\ run.steps = 0 /\ copy.completed = {}
      /\ pc = "none" /\ modelCalls = 0
  BY DEF Init, NewRun
<1>2. \A r \in Requests : req[r].pc = "idle" /\ req[r].copy.completed = {}
  BY DEF Init, IdleRequest, NewRun
<1>3. Listed = {}
  BY <1>1, <1>2 DEF Listed
<1>4. run.steps <= MaxSteps /\ modelCalls <= Budget(run.steps)
  BY <1>1, BoundsAssumption, BudgetFacts
<1> QED
  BY <1>1, <1>2, <1>3, <1>4
     DEF RecordedInv, CallsInv, Reserved, ToolTry, ToolAwaits, Executing, AskingModel

LEMMA RecordStep ==
    IInv /\ LifeInv /\ RecordedInv /\ CallsInv /\ [Next]_vars => RecordedInv' /\ CallsInv'
<1> SUFFICES ASSUME IInv, LifeInv, RecordedInv, CallsInv, [Next]_vars
             PROVE  RecordedInv' /\ CallsInv'
  OBVIOUS
<1>1. RecordedInv'
  BY DriverRecorded, OthersRecorded DEF Next
<1>2. CASE UNCHANGED vars
  <2>1. UNCHANGED <<run, pc, copy, attempt, req, modelCalls, tried>>
    BY <1>2 DEF vars, stores, task, history
  <2>2. CallsInv'
    BY <2>1 DEF CallsInv, VersionMatches, Called
  <2> QED  BY <1>1, <2>2
<1> QED  BY <1>1, <1>2, DriverCalls, RequestCalls, ProcessCalls DEF Next

\* A checkpoint says a call is completed only if the ledger kept its result, whichever
\* copy of the run was saved last: until ToolDone saves the call, no copy lists it, and
\* from then on no failure can overwrite its row.
THEOREM CompletedCallsRecorded == Spec => []CompletedCallsAreRecorded
<1>1. IInv /\ RecordedInv => CompletedCallsAreRecorded
  <2> SUFFICES ASSUME IInv, RecordedInv, NEW c \in run.completed
               PROVE  ledger[c] = "completed"
    BY DEF CompletedCallsAreRecorded
  <2>1. c \in Listed
    BY DEF IInv, TypeOK, RunRecord, Listed
  <2> QED  BY <2>1 DEF RecordedInv
<1> QED
  BY <1>1, InitInvariant, StepInvariant, EndInit, LifeStep, RecordInit, RecordStep, PTL DEF Spec

\* However often the run is interrupted, resumed and recovered, its providers are called
\* at most MaxSteps * (MaxAttempts * Profiles) times, the fallback models of every attempt
\* counted: PlanModel saves the step before the first call, and every later copy of the
\* run carries the count.
THEOREM ModelCallsLimited == Spec => []ModelCallsBounded
<1>1. IInv /\ CallsInv => ModelCallsBounded
  <2> SUFFICES ASSUME IInv, CallsInv PROVE ModelCallsBounded
    OBVIOUS
  <2>1. run.steps \in Nat /\ MaxSteps \in Nat /\ modelCalls \in Nat
    BY BoundsAssumption DEF IInv, TypeOK, RunRecord
  <2>2. /\ modelCalls <= Budget(run.steps) /\ Budget(run.steps) <= Budget(MaxSteps)
        /\ Budget(run.steps) \in Nat /\ Budget(MaxSteps) \in Nat
    BY <2>1, BudgetFacts DEF CallsInv
  <2>3. modelCalls <= Budget(MaxSteps)
    BY <2>1, <2>2
  <2> QED  BY <2>3 DEF ModelCallsBounded, Budget, PerStep
<1> QED
  BY <1>1, InitInvariant, StepInvariant, EndInit, LifeStep, RecordInit, RecordStep, PTL DEF Spec

=============================================================================
