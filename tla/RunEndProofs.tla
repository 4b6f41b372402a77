----------------------------- MODULE RunEndProofs -----------------------------
(***************************************************************************)
(* How a run ends.  The right to announce the end is handed to exactly the *)
(* actor whose save ended the run, and once the run has ended the driving  *)
(* task starts no provider call and no tool handler.  EndInv and WorkInv   *)
(* are inductive on top of IInv.                                           *)
(***************************************************************************)
EXTENDS AgentRuntimeProofs

-----------------------------------------------------------------------------
(* The inductive invariants. *)

\* A process that accepts nothing has no request in flight, and one that is down or
\* recovering drives no run.
LifeInv ==
    /\ phase # "up" => starter # "emit" /\ \A r \in Requests : req[r].pc = "idle"
    /\ phase \in {"down", "recovering"} => ~TaskAlive

\* The run has ended and its terminal event is still to be published.
Unannounced == run.status \in TERMINAL_STATUSES /\ ended = <<>>

Announcing == {"emit_end", "h_emit"}

\* The status the task is about to publish.
Announced == IF pc = "emit_end" THEN copy.status ELSE goal

RequestAnnounces(r) == req[r].pc = "emit"

\* At most one of the task, the requests and recovery is about to publish, it is about
\* to publish the status the run has, and nothing was published before.
EndInv ==
    /\ TerminalEventMatches
    /\ phase = "recovering" => Unannounced /\ run.status = "TIMED_OUT"
    /\ pc \in Announcing =>
          /\ Unannounced /\ Announced = run.status
          /\ \A r \in Requests : ~RequestAnnounces(r)
    /\ \A r \in Requests : RequestAnnounces(r) =>
          /\ Unannounced /\ req[r].goal = run.status
          /\ \A q \in Requests \ {r} : ~RequestAnnounces(q)
    /\ \A r \in Requests : req[r].pc = "c_save" => req[r].goal = "CANCELLED"

\* The awaits from a checkpoint that announces work to the work itself.
Working == {"model", "model_reply", "t_begin", "t_wait", "t_run", "t_backoff"}

\* While the task works and nobody cancelled it, the stored run is the one it works on:
\* a cancel that read this version would have cancelled the task, and a resume reads
\* paused runs only.
WorkInv ==
    /\ pc \in Working /\ cancelReq = "none" =>
          /\ run.status \in {"INVOKING_MODEL", "INVOKING_TOOL"}
          /\ \A r \in Requests : req[r].pc = "c_save" => req[r].copy.version # run.version
    /\ \A r \in Requests :
          req[r].pc \in {"r_decide", "r_save"} => req[r].copy.status \in PAUSED_STATUSES

-----------------------------------------------------------------------------
(* What the steps of the actors have in common. *)

\* The driving task leaves the requests and the process to the other actors.
LEMMA DriverFrame ==
    ASSUME DriverNext
    PROVE  TaskAlive /\ UNCHANGED <<req, starter, phase, restarts, deadlinePassed>>
<1>1. CASE RuntimeStep /\ ~ExecutorStep
  BY <1>1
     DEF RuntimeStep, Boot, Accept, Validate, BuildContext, PlanClarify, PlanModel, PlanApproval,
         PlanTool, PlanComplete, PlanFail, Planned, AskApproval, CallModel, CallFallback, CachedReply, ModelDone,
         ModelBackoff, ToolDone, VerifyPasses, VerifyFails, Repair, Compose, EmitEnd, EmitPause,
         Finish, HandlerRead, HandlerSave, HandlerEmit, DriverSave, Lands, At, TaskAlive,
         others, process
<1>2. CASE ExecutorStep
  BY <1>2
     DEF ExecutorStep, Begin, CachedResult, Invoke, InvokeAgain, Complete, Return, Fail, Lands, At,
         TaskAlive, others, process
<1>3. CASE ExternalStep
  BY <1>3
     DEF ExternalStep, CallFallback, ModelReply, ModelDone, ModelRetry, HandlerStep, HandlerReturns, HandlerFails,
         HandlerRaises, DriverSave, Lands, At, TaskAlive, others, process
<1>4. CASE Interrupt \/ Raise
  BY <1>4
     DEF Interrupt, Raise, DeliverCancel, DeliverTimeout, TaskAlive, others, process, Executing,
         ToolAwaits, ToolTry
<1> QED  BY <1>1, <1>2, <1>3, <1>4 DEF DriverNext, RuntimeStep

\* A transition that is saved starts from a run that has not ended.
LEMMA LiveSave ==
    ASSUME NEW c, NEW target, Coherent(c), CanTransition(c, target)
    PROVE  run.status \notin TERMINAL_STATUSES /\ c.status = run.status
<1>1. \A s \in TERMINAL_STATUSES : ALLOWED_TRANSITIONS[s] = {}
  BY DEF ALLOWED_TRANSITIONS, RunStatus, TERMINAL_STATUSES, PAUSED_STATUSES
<1> QED  BY <1>1 DEF Coherent, CanTransition, VersionMatches, validate_transition

\* The steps that keep LifeInv: requests arrive only at a process that is up.
LEMMA LifeStep ==
    ASSUME IInv, LifeInv, [Next]_vars
    PROVE  LifeInv'
<1>1. CASE DriverNext
  BY <1>1, DriverFrame DEF LifeInv
<1>2. CASE RequestNext
  <2>1. PICK r \in Requests :
           \/ CancelRead(r) \/ CancelSave(r) \/ ResumeRead(r) \/ ResumeDecide(r) \/ ResumeSave(r)
           \/ RequestEmit(r) \/ RequestFails(r)
    BY <1>2 DEF RequestNext
  <2>2. phase = "up" /\ UNCHANGED <<phase, starter>>
    BY <2>1
       DEF LifeInv, CancelRead, CancelSave, ResumeRead, ResumeDecide, ResumeSave, RequestEmit,
           RequestFails, Receive, process
  <2> QED  BY <2>2 DEF LifeInv
<1>3. CASE ProcessNext
  <2>1. CASE Crash
    BY <2>1, NewRunRecord DEF Crash, TaskEnds, LifeInv, TaskAlive
  <2>2. CASE \/ StartCreate \/ StartSchedule \/ StartFails \/ DeadlinePasses \/ ShutdownBegin
             \/ GraceExpires \/ ShutdownEnds
    BY <2>2
       DEF StartCreate, StartSchedule, StartFails, DeadlinePasses, ShutdownBegin, GraceExpires,
           ShutdownEnds, LifeInv, TaskAlive, task
  <2>3. CASE RecoverNothing \/ RecoverExpired \/ RecoverEmit \/ RecoverRun
    BY <2>3
       DEF RecoverNothing, RecoverExpired, RecoverEmit, RecoverRun, Restart, LifeInv, TaskAlive, task
  <2> QED  BY <1>3, <2>1, <2>2, <2>3 DEF ProcessNext
<1>4. CASE UNCHANGED vars
  BY <1>4 DEF vars, task, process, LifeInv, TaskAlive
<1> QED  BY <1>1, <1>2, <1>3, <1>4 DEF Next

-----------------------------------------------------------------------------
(* The end of the run is announced once. *)

\* A step that publishes nothing and gives nobody the right to publish.
LEMMA EndKept ==
    ASSUME EndInv, StatusStep, UNCHANGED ended,
           pc' \notin Announcing \/ UNCHANGED <<pc, copy, goal>>,
           phase' = "recovering" => phase = "recovering",
           \A r \in Requests :
              /\ RequestAnnounces(r)' => RequestAnnounces(r) /\ req'[r].goal = req[r].goal
              /\ req'[r].pc = "c_save" => req'[r].goal = "CANCELLED"
    PROVE  EndInv'
<1>1. /\ run.status \in TERMINAL_STATUSES => run'.status = run.status
      /\ Unannounced => Unannounced'
  BY TerminalStep DEF Unannounced
<1>2. TerminalEventMatches'
  BY <1>1 DEF EndInv, TerminalEventMatches
<1>3. phase' = "recovering" => Unannounced' /\ run'.status = "TIMED_OUT"
  BY <1>1 DEF EndInv, Unannounced
<1>4. ASSUME pc' \in Announcing
      PROVE  Unannounced' /\ Announced' = run'.status /\ \A r \in Requests : ~RequestAnnounces(r)'
  BY <1>1, <1>4 DEF EndInv, Unannounced, Announced
<1>5. ASSUME NEW r \in Requests, RequestAnnounces(r)'
      PROVE  /\ Unannounced' /\ req'[r].goal = run'.status
             /\ \A q \in Requests \ {r} : ~RequestAnnounces(q)'
  BY <1>1, <1>5 DEF EndInv, Unannounced
<1> QED  BY <1>2, <1>3, <1>4, <1>5 DEF EndInv

\* Before the run ends nobody is about to publish and nothing was published.
LEMMA NothingAnnounced ==
    ASSUME EndInv, IInv, run.status \notin TERMINAL_STATUSES
    PROVE  /\ ended = <<>> /\ phase # "recovering" /\ pc \notin Announcing
           /\ \A r \in Requests : ~RequestAnnounces(r)
<1>1. DOMAIN ended = {} /\ ended \in Seq({"run.completed", "run.failed", "run.cancelled"})
  BY DEF EndInv, TerminalEventMatches, IInv, TypeOK
<1>2. ended = <<>>
  BY <1>1
<1> QED  BY <1>2 DEF EndInv, Unannounced

\* The actor with the right to publish uses it.
LEMMA EndPublished ==
    ASSUME EndInv, Unannounced, UNCHANGED run, Publish(run.status),
           pc' \notin Announcing, phase' # "recovering",
           \A r \in Requests : /\ ~RequestAnnounces(r)'
                               /\ req'[r].pc = "c_save" => req'[r].goal = "CANCELLED"
    PROVE  EndInv'
<1>1. ended' = <<TerminalEvent(run.status)>>
  BY DEF Publish, Unannounced
<1>2. Len(ended') = 1 /\ DOMAIN ended' = {1} /\ ended'[1] = TerminalEvent(run.status)
  BY <1>1
<1>3. TerminalEventMatches'
  BY <1>2 DEF TerminalEventMatches, Unannounced
<1> QED  BY <1>3 DEF EndInv

\* The steps of the driving task that neither end the run nor announce its end.
LEMMA QuietDriver ==
    ASSUME DriverNext, ~PlanFail, ~Compose, ~EmitEnd, ~HandlerSave, ~HandlerEmit
    PROVE  pc' \notin Announcing \/ UNCHANGED <<pc, copy, goal>>
<1> USE LoopHeadPC DEF Announcing
<1>1. CASE \/ Accept \/ Validate \/ BuildContext \/ PlanClarify \/ PlanModel \/ PlanTool
           \/ PlanComplete \/ AskApproval \/ ModelBackoff \/ VerifyPasses \/ Repair
  BY <1>1
     DEF Accept, Validate, BuildContext, PlanClarify, PlanModel, PlanTool, PlanComplete,
         AskApproval, ModelBackoff, VerifyPasses, Repair, DriverSave
<1>2. CASE ModelReply \/ CachedReply \/ ModelRetry \/ ToolDone \/ VerifyFails
  BY <1>2
     DEF ModelReply, CachedReply, ModelDone, ModelRetry, ToolDone, VerifyFails, DriverSave
<1>3. CASE Boot \/ PlanApproval \/ CallModel \/ CallFallback \/ EmitPause \/ Finish \/ HandlerRead
  BY <1>3 DEF Boot, PlanApproval, CallModel, CallFallback, EmitPause, Finish, HandlerRead, TaskEnds
<1>4. CASE Raise \/ DeliverCancel \/ DeliverTimeout
  BY <1>4 DEF Raise, DeliverCancel, DeliverTimeout, Interrupted, Unwind, TaskEnds
<1>5. CASE ExecutorStep \/ HandlerStep
  BY <1>5
     DEF ExecutorStep, HandlerStep, Begin, CachedResult, Invoke, InvokeAgain, Complete, Return,
         Fail, HandlerReturns, HandlerFails, HandlerRaises
<1> QED
  BY <1>1, <1>2, <1>3, <1>4, <1>5 DEF DriverNext, RuntimeStep, ExternalStep, Interrupt

\* Only the two steps that announce the end publish a terminal event.
LEMMA DriverPublishes ==
    ASSUME DriverNext, ~EmitEnd, ~HandlerEmit
    PROVE  UNCHANGED ended
<1>1. CASE RuntimeStep /\ ~ExecutorStep
  BY <1>1
     DEF RuntimeStep, Boot, Accept, Validate, BuildContext, PlanClarify, PlanModel, PlanApproval,
         PlanTool, PlanComplete, PlanFail, AskApproval, CallModel, CallFallback, CachedReply, ModelDone,
         ModelBackoff, ToolDone, VerifyPasses, VerifyFails, Repair, Compose, EmitPause,
         Finish, HandlerRead, HandlerSave, stores
<1>2. CASE ExecutorStep
  BY <1>2
     DEF ExecutorStep, Begin, CachedResult, Invoke, InvokeAgain, Complete, Return, Fail, stores
<1>3. CASE ExternalStep
  BY <1>3
     DEF ExternalStep, CallFallback, ModelReply, ModelDone, ModelRetry, HandlerStep, HandlerReturns, HandlerFails,
         HandlerRaises, stores
<1>4. CASE Interrupt \/ Raise
  BY <1>4 DEF Interrupt, Raise, DeliverCancel, DeliverTimeout, stores
<1> QED  BY <1>1, <1>2, <1>3, <1>4 DEF DriverNext, RuntimeStep

\* The task that ends the run is the one that announces it.
LEMMA DriverEnds ==
    ASSUME IInv, LifeInv, EndInv, StatusStep, DriverNext
    PROVE  EndInv'
<1>1. /\ TaskAlive /\ phase # "recovering" /\ UNCHANGED <<req, phase>>
      /\ \A r \in Requests : /\ RequestAnnounces(r)' <=> RequestAnnounces(r)
                             /\ req'[r].pc = "c_save" => req'[r].goal = "CANCELLED"
  BY DriverFrame DEF LifeInv, RequestAnnounces, EndInv
<1>2. CASE UNCHANGED ended /\ (pc' \notin Announcing \/ UNCHANGED <<pc, copy, goal>>)
  BY <1>1, <1>2, EndKept
<1>3. ASSUME UNCHANGED ended, run.status \notin TERMINAL_STATUSES,
             run'.status \in TERMINAL_STATUSES, Announced' = run'.status
      PROVE  EndInv'
  <2>1. ended' = <<>> /\ \A r \in Requests : ~RequestAnnounces(r)
    BY <1>3, NothingAnnounced
  <2>2. TerminalEventMatches' /\ Unannounced'
    BY <1>3, <2>1 DEF TerminalEventMatches, Unannounced
  <2> QED  BY <1>1, <1>3, <2>1, <2>2 DEF EndInv
<1>4. CASE PlanFail \/ Compose
  <2>1. PICK c \in {copy, Stepped(copy)}, target \in {"FAILED", "COMPLETED"} :
           DriverSave(pc, c, target, "emit_end") /\ pc \in {"plan", "compose"}
    BY <1>4 DEF PlanFail, Compose, Planned, DriverSave, Lands
  <2>2. c.status = copy.status /\ c.version = copy.version /\ target \in RunStatus
    BY <2>1, CopyFacts DEF Stepped, RunRecord, RunStatus, TERMINAL_STATUSES
  <2>3. UNCHANGED ended
    BY <1>4 DEF PlanFail, Compose
  <2>4. CASE CanTransition(c, target)
    <3>1. run.status \notin TERMINAL_STATUSES
      BY <2>1, <2>2, <2>4, LiveSave DEF IInv, TaskInv, Coherent
    <3>2. run' = Saved(c, target) /\ copy' = run' /\ pc' = "emit_end"
      BY <2>1, <2>4 DEF DriverSave
    <3>3. c \in RunRecord
      BY <2>1, CopyFacts, SteppedRecord
    <3>4. run'.status = target
      BY <2>2, <3>2, <3>3, SavedRecord
    <3> QED  BY <1>3, <2>3, <3>1, <3>2, <3>4 DEF Announced, TERMINAL_STATUSES
  <2>5. CASE ~CanTransition(c, target)
    BY <1>2, <2>1, <2>3, <2>5 DEF DriverSave, Announcing
  <2> QED  BY <2>4, <2>5
<1>5. CASE HandlerSave
  <2>1. UNCHANGED ended
    BY <1>5 DEF HandlerSave, stores
  <2>2. CASE VersionMatches(copy) /\ goal \in TERMINAL_STATUSES /\ pc' = "h_emit"
    <3>1. /\ run' = Saved(copy, goal) /\ goal' = goal /\ pc = "h_save"
      BY <1>5, <2>2 DEF HandlerSave, Lands
    <3>2. goal \in ALLOWED_TRANSITIONS[copy.status] /\ Coherent(copy)
      BY <2>2, <3>1, StatusTables DEF IInv, TaskInv, HandlerGoal, Coherent
    <3>3. run.status \notin TERMINAL_STATUSES
      BY <2>2, <3>2, LiveSave DEF CanTransition, validate_transition
    <3>4. run'.status = goal
      BY <2>2, <3>1, CopyFacts, StatusTables, SavedRecord
    <3> QED  BY <1>3, <2>1, <2>2, <3>1, <3>3, <3>4 DEF Announced
  <2>3. CASE pc' \in {"finish", "none"}
    BY <1>2, <2>1, <2>3 DEF Announcing
  <2> QED  BY <1>5, <2>2, <2>3 DEF HandlerSave, TaskEnds
<1>6. CASE EmitEnd \/ HandlerEmit
  <2>1. pc \in Announcing /\ pc' = "finish" /\ run' = run /\ Publish(Announced)
    BY <1>6, SMTT(30) DEF EmitEnd, HandlerEmit, Lands, Announcing, Announced
  <2> QED  BY <1>1, <2>1, EndPublished DEF EndInv, Announcing
<1> QED  BY <1>2, <1>4, <1>5, <1>6, QuietDriver, DriverPublishes

\* What a request's step does to its own record; the others keep theirs.
LEMMA RequestFrame ==
    ASSUME IInv, NEW r \in Requests,
           \/ CancelRead(r) \/ CancelSave(r) \/ ResumeRead(r) \/ ResumeDecide(r) \/ ResumeSave(r)
           \/ RequestEmit(r) \/ RequestFails(r)
    PROVE  \A q \in Requests \ {r} : req'[q] = req[q]
  BY ZenonT(40)
     DEF CancelRead, CancelSave, ResumeRead, ResumeDecide, ResumeSave, RequestEmit, RequestFails,
         Answer, IInv, TypeOK

\* The request that ends the run is the one that announces it.
LEMMA RequestEnds ==
    ASSUME IInv, LifeInv, EndInv, StatusStep, RequestNext
    PROVE  EndInv'
<1>1. PICK r \in Requests :
         \/ CancelRead(r) \/ CancelSave(r) \/ ResumeRead(r) \/ ResumeDecide(r) \/ ResumeSave(r)
         \/ RequestEmit(r) \/ RequestFails(r)
  BY DEF RequestNext
<1>2. /\ phase # "recovering" /\ UNCHANGED <<phase, copy, goal>>
      /\ pc' = pc \/ pc' = "boot"
      /\ \A q \in Requests \ {r} : req'[q] = req[q]
      /\ req \in [Requests -> RequestRecord]
  BY <1>1, RequestFrame
     DEF IInv, TypeOK, LifeInv, CancelRead, CancelSave, ResumeRead, ResumeDecide, ResumeSave,
         RequestEmit, RequestFails, Receive, process, task
<1>3. CASE /\ UNCHANGED ended
           /\ req'[r].pc # "emit"
           /\ req'[r].pc = "c_save" => req'[r].goal = "CANCELLED"
  BY <1>2, <1>3, EndKept DEF EndInv, RequestAnnounces, Announcing
<1>4. ASSUME UNCHANGED ended, NEW target \in TERMINAL_STATUSES,
             CanTransition(req[r].copy, target), run' = Saved(req[r].copy, target),
             req'[r].pc = "emit", req'[r].goal = target, req[r].pc # "idle"
      PROVE  EndInv'
  <2>1. Coherent(req[r].copy) /\ req[r].copy \in RunRecord
    BY <1>2, <1>4 DEF IInv, RequestInv, RequestRecord
  <2>2. run'.status = target
    BY <1>4, <2>1, SavedRecord, StatusTables
  <2>3. /\ ended' = <<>> /\ pc \notin Announcing
        /\ \A q \in Requests : ~RequestAnnounces(q)
    BY <1>4, <2>1, LiveSave, NothingAnnounced
  <2>4. TerminalEventMatches' /\ Unannounced'
    BY <1>4, <2>2, <2>3 DEF TerminalEventMatches, Unannounced
  <2> QED
    BY <1>2, <1>4, <2>2, <2>3, <2>4 DEF EndInv, RequestAnnounces, Announcing
<1>5. CASE CancelRead(r) \/ ResumeRead(r)
  <2>1. /\ UNCHANGED ended
        /\ \/ req'[r].pc = "c_save" /\ req'[r].goal = "CANCELLED"
           \/ req'[r].pc \in {"r_save", "r_decide"}
    BY <1>2, <1>5 DEF CancelRead, ResumeRead, stores, IdleRequest
  <2> QED  BY <1>3, <2>1
<1>6. CASE ResumeDecide(r)
  <2>1. UNCHANGED ended
    BY <1>6 DEF ResumeDecide
  <2>2. CASE Answer(r)
    <3>1. req'[r].pc = "idle"
      BY <1>2, <2>2 DEF Answer, IdleRequest
    <3> QED  BY <1>3, <2>1, <3>1
  <2>3. CASE ~Answer(r)
    <3>1. PICK c, g : req' = [req EXCEPT ![r].pc = "r_save", ![r].decision = "none",
                                        ![r].copy = c, ![r].goal = g]
      <4> DEFINE c == Decided(req[r].copy, approvals[req[r].copy.pause].call, req[r].decision)
                 g == IF req[r].decision = "rejected" THEN "FAILED" ELSE "PLANNING"
      <4>1. req' = [req EXCEPT ![r].pc = "r_save", ![r].decision = "none",
                               ![r].copy = c, ![r].goal = g]
        BY <1>2, <1>6, <2>3 DEF ResumeDecide, RequestRecord
      <4> HIDE DEF c, g
      <4> QED  BY <4>1
    <3>2. req'[r].pc = "r_save"
      BY <1>2, <3>1 DEF RequestRecord
    <3> QED  BY <1>3, <2>1, <3>2
  <2> QED  BY <2>2, <2>3
<1>7. CASE CancelSave(r)
  <2>1. CASE CanTransition(req[r].copy, "CANCELLED")
    <3>1. /\ run' = Saved(req[r].copy, "CANCELLED") /\ req' = [req EXCEPT ![r].pc = "emit"]
          /\ UNCHANGED ended /\ req[r].pc = "c_save"
      BY <1>7, <2>1 DEF CancelSave
    <3>2. req'[r].pc = "emit" /\ req'[r].goal = "CANCELLED"
      BY <1>2, <3>1 DEF EndInv, RequestRecord
    <3> QED  BY <1>4, <2>1, <3>1, <3>2 DEF TERMINAL_STATUSES
  <2>2. CASE ~CanTransition(req[r].copy, "CANCELLED")
    BY <1>2, <1>3, <1>7, <2>2, NewRunRecord DEF CancelSave, Answer
  <2> QED  BY <2>1, <2>2
<1>8. CASE ResumeSave(r)
  <2>1. CASE CanTransition(req[r].copy, "FAILED") /\ req[r].goal = "FAILED"
    <3>1. /\ run' = Saved(req[r].copy, "FAILED") /\ req' = [req EXCEPT ![r].pc = "emit"]
          /\ UNCHANGED ended /\ req[r].pc = "r_save"
      BY <1>8, <2>1 DEF ResumeSave
    <3>2. req'[r].pc = "emit" /\ req'[r].goal = "FAILED"
      BY <1>2, <2>1, <3>1 DEF RequestRecord
    <3> QED  BY <1>4, <2>1, <3>1, <3>2 DEF TERMINAL_STATUSES
  <2>2. CASE ~(CanTransition(req[r].copy, "FAILED") /\ req[r].goal = "FAILED")
    <3>1. UNCHANGED ended /\ Answer(r)
      BY <1>8, <2>2 DEF ResumeSave
    <3> QED  BY <1>2, <1>3, <3>1, NewRunRecord DEF Answer
  <2> QED  BY <2>1, <2>2
<1>9. CASE RequestFails(r)
  BY <1>2, <1>3, <1>9, NewRunRecord DEF RequestFails, Answer, stores
<1>10. CASE RequestEmit(r)
  <2>1. /\ RequestAnnounces(r) /\ run' = run /\ Publish(req[r].goal) /\ req'[r].pc = "idle"
    BY <1>2, <1>10, NewRunRecord DEF RequestEmit, Answer, RequestAnnounces
  <2>2. /\ Unannounced /\ req[r].goal = run.status /\ pc' \notin Announcing
        /\ \A q \in Requests \ {r} : ~RequestAnnounces(q)
    BY <1>2, <2>1 DEF EndInv, Announcing
  <2>3. \A q \in Requests : /\ ~RequestAnnounces(q)'
                            /\ req'[q].pc = "c_save" => req'[q].goal = "CANCELLED"
    BY <1>2, <2>1, <2>2 DEF RequestAnnounces, EndInv
  <2> QED  BY <1>2, <2>1, <2>2, <2>3, EndPublished
<1> QED  BY <1>1, <1>5, <1>6, <1>7, <1>8, <1>9, <1>10

\* Recovery announces the runs it times out, before anything else runs.
LEMMA ProcessEnds ==
    ASSUME IInv, LifeInv, EndInv, StatusStep, ProcessNext
    PROVE  EndInv'
<1>1. CASE \/ StartCreate \/ StartSchedule \/ StartFails \/ DeadlinePasses \/ ShutdownBegin
           \/ GraceExpires \/ ShutdownEnds \/ RecoverNothing \/ RecoverRun
  <2>1. /\ UNCHANGED <<ended, req>>
        /\ phase' # "recovering" \/ phase' = phase
        /\ UNCHANGED <<pc, copy, goal>> \/ pc' = "boot"
    BY <1>1
       DEF StartCreate, StartSchedule, StartFails, DeadlinePasses, ShutdownBegin, GraceExpires,
           ShutdownEnds, RecoverNothing, RecoverRun, Restart, stores, task
  <2>2. \A r \in Requests :
           /\ RequestAnnounces(r)' => RequestAnnounces(r) /\ req'[r].goal = req[r].goal
           /\ req'[r].pc = "c_save" => req'[r].goal = "CANCELLED"
    BY <2>1 DEF EndInv, RequestAnnounces
  <2> QED  BY <2>1, <2>2, EndKept DEF Announcing
<1>2. CASE Crash
  <2>1. /\ UNCHANGED ended /\ phase' = "down" /\ pc' = "none"
        /\ \A r \in Requests : req'[r].pc = "idle"
    BY <1>2, NewRunRecord DEF Crash, TaskEnds, stores
  <2> QED  BY <2>1, EndKept DEF RequestAnnounces, Announcing
<1>3. CASE RecoverExpired
  <2>1. /\ phase = "down" /\ phase' = "recovering" /\ run' = Saved(run, "TIMED_OUT")
        /\ run.status \in RUNNABLE_STATUSES /\ UNCHANGED <<ended, pc, req>>
    BY <1>3 DEF RecoverExpired, Restart, task
  <2>2. run'.status = "TIMED_OUT" /\ run.status \notin TERMINAL_STATUSES
    BY <2>1, CopyFacts, SavedRecord DEF RUNNABLE_STATUSES, RunStatus, TERMINAL_STATUSES
  <2>3. /\ ended' = <<>> /\ pc' \notin Announcing
        /\ \A r \in Requests : ~RequestAnnounces(r)
    BY <2>1, <2>2, NothingAnnounced
  <2>4. TerminalEventMatches' /\ Unannounced'
    BY <2>2, <2>3 DEF TerminalEventMatches, Unannounced, TERMINAL_STATUSES
  <2> QED  BY <2>1, <2>2, <2>3, <2>4 DEF EndInv, RequestAnnounces
<1>4. CASE RecoverEmit
  <2>1. /\ phase = "recovering" /\ phase' = "up" /\ Publish("TIMED_OUT")
        /\ UNCHANGED <<run, pc, req>>
    BY <1>4 DEF RecoverEmit, task
  <2>2. /\ Unannounced /\ run.status = "TIMED_OUT" /\ pc' \notin Announcing
        /\ \A r \in Requests : req'[r].pc = "idle"
    BY <2>1 DEF EndInv, LifeInv, TaskAlive, Announcing
  <2> QED  BY <2>1, <2>2, EndPublished DEF RequestAnnounces
<1> QED  BY <1>1, <1>2, <1>3, <1>4 DEF ProcessNext

-----------------------------------------------------------------------------
(* A run that ended starts no work. *)

\* A step after which the task works uncancelled only if it did before, on the same row
\* and with no new cancel.
LEMMA WorkKept ==
    ASSUME WorkInv, pc' \in Working /\ cancelReq' = "none" =>
                       pc \in Working /\ cancelReq = "none" /\ UNCHANGED run,
           \A r \in Requests :
              /\ req'[r].pc = "c_save" => req[r].pc = "c_save" /\ req'[r].copy = req[r].copy
              /\ req'[r].pc \in {"r_decide", "r_save"} => req'[r].copy.status \in PAUSED_STATUSES
    PROVE  WorkInv'
  BY DEF WorkInv

\* The task begins to work by saving a version nobody else has read.
LEMMA WorkBegins ==
    ASSUME IInv, WorkInv, UNCHANGED req, run'.version = run.version + 1,
           run'.status \in {"INVOKING_MODEL", "INVOKING_TOOL"}
    PROVE  WorkInv'
<1>1. ASSUME NEW r \in Requests, req[r].pc = "c_save"
      PROVE  req[r].copy.version # run'.version
  <2>1. Coherent(req[r].copy) /\ req[r].copy \in RunRecord
    BY <1>1 DEF IInv, TypeOK, RequestInv, RequestRecord
  <2> QED  BY <2>1, StaysCoherent
<1> QED  BY <1>1 DEF WorkInv

\* The steps of the driving task.
LEMMA DriverWorks ==
    ASSUME IInv, WorkInv, DriverNext
    PROVE  WorkInv'
<1>1. /\ UNCHANGED req
      /\ \A r \in Requests :
            req'[r].pc \in {"r_decide", "r_save"} => req'[r].copy.status \in PAUSED_STATUSES
  BY DriverFrame DEF WorkInv
<1>2. CASE \/ pc' \notin Working
           \/ pc \in Working /\ UNCHANGED run /\ (cancelReq' = "none" => cancelReq = "none")
  BY <1>1, <1>2, WorkKept
<1>3. CASE PlanModel \/ PlanTool \/ ModelBackoff
  <2>1. PICK c \in {copy, Stepped(copy)}, target \in {"INVOKING_MODEL", "INVOKING_TOOL"} :
           DriverSave(pc, c, target, pc') \/ pc' = "h_read"
    BY <1>3 DEF PlanModel, PlanTool, ModelBackoff, Planned, DriverSave, Lands
  <2>2. CASE pc' = "h_read"
    BY <1>2, <2>2 DEF Working
  <2>3. CASE pc' # "h_read"
    <3>1. run' = Saved(c, target) /\ VersionMatches(c)
      BY <2>1, <2>3 DEF DriverSave, CanTransition
    <3>2. c \in RunRecord /\ target \in RunStatus
      BY <2>1, CopyFacts, SteppedRecord DEF RunStatus
    <3>3. run'.version = run.version + 1 /\ run'.status = target
      BY <3>1, <3>2, SavedRecord DEF VersionMatches
    <3> QED  BY <1>1, <3>3, WorkBegins
  <2> QED  BY <2>2, <2>3
<1> USE LoopHeadPC DEF Working
<1>4. CASE \/ Accept \/ Validate \/ BuildContext \/ PlanClarify \/ PlanComplete \/ PlanFail
           \/ AskApproval \/ VerifyPasses \/ Repair \/ Compose
  BY <1>2, <1>4
     DEF Accept, Validate, BuildContext, PlanClarify, PlanComplete, PlanFail, AskApproval,
         VerifyPasses, Repair, Compose, DriverSave
<1>5. CASE ModelReply \/ CachedReply \/ ModelRetry \/ ToolDone \/ VerifyFails
  BY <1>2, <1>5
     DEF ModelReply, CachedReply, ModelDone, ModelRetry, ToolDone, VerifyFails, DriverSave
<1>6. CASE \/ Boot \/ PlanApproval \/ CallModel \/ CallFallback \/ EmitEnd \/ EmitPause \/ Finish
           \/ HandlerRead \/ HandlerSave \/ HandlerEmit
  <2>1. CASE HandlerRead \/ HandlerSave \/ Finish
    BY <1>2, <2>1 DEF HandlerRead, HandlerSave, Finish, TaskEnds
  <2>2. CASE Boot \/ PlanApproval \/ EmitEnd \/ EmitPause \/ HandlerEmit
    BY <1>2, <2>2 DEF Boot, PlanApproval, EmitEnd, EmitPause, HandlerEmit
  <2>3. CASE CallModel \/ CallFallback
    BY <1>2, <2>3 DEF CallModel, CallFallback, At, stores
  <2> QED  BY <1>6, <2>1, <2>2, <2>3
<1>7. CASE Raise \/ DeliverCancel \/ DeliverTimeout
  BY <1>2, <1>7 DEF Raise, DeliverCancel, DeliverTimeout, Interrupted, Unwind, TaskEnds
<1>8. CASE ExecutorStep \/ HandlerStep
  <2>1. cancelReq \in {"none", "asked", "due"}
    BY DEF IInv, TypeOK
  <2>2. CASE Begin
    BY <1>2, <2>1, <2>2 DEF Begin, At, Lands
  <2>3. CASE CachedResult \/ Complete \/ Return \/ Fail \/ HandlerReturns \/ HandlerRaises
    BY <1>2, <2>3 DEF CachedResult, Complete, Return, Fail, HandlerReturns, HandlerRaises
  <2>4. CASE Invoke \/ InvokeAgain \/ HandlerFails
    BY <1>2, <2>4 DEF Invoke, InvokeAgain, HandlerFails, At, stores
  <2> QED  BY <1>8, <2>2, <2>3, <2>4 DEF ExecutorStep, HandlerStep
<1> QED
  BY <1>3, <1>4, <1>5, <1>6, <1>7, <1>8 DEF DriverNext, RuntimeStep, ExternalStep, Interrupt

\* The steps of requests: a cancel takes the task with it, and no request saves the
\* row the task works on.
LEMMA RequestWorks ==
    ASSUME IInv, WorkInv, RequestNext
    PROVE  WorkInv'
<1>1. PICK r \in Requests :
         \/ CancelRead(r) \/ CancelSave(r) \/ ResumeRead(r) \/ ResumeDecide(r) \/ ResumeSave(r)
         \/ RequestEmit(r) \/ RequestFails(r)
  BY DEF RequestNext
<1>2. /\ \A q \in Requests \ {r} : req'[q] = req[q]
      /\ req \in [Requests -> RequestRecord]
      /\ req[r].pc # "idle" => Coherent(req[r].copy)
  BY <1>1, RequestFrame DEF IInv, TypeOK, RequestInv
<1>3. CASE /\ UNCHANGED run /\ cancelReq' = cancelReq /\ pc' = pc
           /\ req'[r].pc # "c_save"
           /\ req'[r].pc \in {"r_decide", "r_save"} => req'[r].copy.status \in PAUSED_STATUSES
  BY <1>2, <1>3, WorkKept DEF WorkInv
<1>4. CASE CancelRead(r)
  <2>1. /\ UNCHANGED run /\ pc' = pc /\ (pc # "none" => cancelReq' # "none")
        /\ req'[r].pc = "c_save"
    BY <1>2, <1>4 DEF CancelRead, stores, TaskAlive, IdleRequest
  <2> QED  BY <1>2, <2>1 DEF WorkInv, Working
<1>5. CASE ResumeRead(r)
  <2>1. /\ UNCHANGED <<run, cancelReq, pc>>
        /\ req'[r].pc \in {"r_save", "r_decide"} /\ req'[r].copy = run
        /\ run.status \in PAUSED_STATUSES
    BY <1>2, <1>5 DEF ResumeRead, stores, task, IdleRequest, PAUSED_STATUSES
  <2> QED  BY <1>3, <2>1
<1>6. CASE ResumeDecide(r)
  <2>1. UNCHANGED <<run, cancelReq, pc>> /\ req[r].pc = "r_decide"
    BY <1>6 DEF ResumeDecide, task
  <2>2. CASE Answer(r)
    BY <1>2, <1>3, <2>1, <2>2, NewRunRecord DEF Answer
  <2>3. CASE ~Answer(r)
    <3> DEFINE c == approvals[req[r].copy.pause].call
               d == req[r].decision
    <3>1. /\ req'[r].pc = "r_save" /\ req'[r].copy = Decided(req[r].copy, c, d)
          /\ req[r].copy \in RunRecord
      BY <1>2, <1>6, <2>3 DEF ResumeDecide, RequestRecord
    <3>2. Decided(req[r].copy, c, d).status = req[r].copy.status
      BY <3>1 DEF Decided, RunRecord
    <3> QED  BY <1>3, <2>1, <3>1, <3>2 DEF WorkInv
  <2> QED  BY <2>2, <2>3
<1>7. ASSUME UNCHANGED cancelReq, pc \in Working /\ cancelReq = "none" => UNCHANGED <<run, pc>>,
             pc' = pc \/ pc' = "boot", req'[r].pc \in {"idle", "emit"}
      PROVE  WorkInv'
  BY <1>2, <1>7, WorkKept DEF WorkInv, Working
<1>8. CASE CancelSave(r)
  <2>1. pc \in Working /\ cancelReq = "none" => ~VersionMatches(req[r].copy)
    BY <1>8 DEF CancelSave, WorkInv, VersionMatches
  <2>2. UNCHANGED <<cancelReq, pc>> /\ req'[r].pc \in {"idle", "emit"}
    BY <1>2, <1>8, NewRunRecord DEF CancelSave, Answer, task, RequestRecord
  <2> QED  BY <1>7, <1>8, <2>1, <2>2 DEF CancelSave, CanTransition
<1>9. CASE ResumeSave(r)
  <2>1. pc \in Working /\ cancelReq = "none" => ~VersionMatches(req[r].copy)
    BY <1>2, <1>9 DEF ResumeSave, WorkInv, VersionMatches, Coherent, PAUSED_STATUSES
  <2>2. UNCHANGED cancelReq /\ req'[r].pc \in {"idle", "emit"} /\ (pc' = pc \/ pc' = "boot")
    BY <1>2, <1>9, NewRunRecord DEF ResumeSave, Answer, RequestRecord
  <2> QED  BY <1>7, <1>9, <2>1, <2>2 DEF ResumeSave, CanTransition
<1>10. CASE RequestEmit(r) \/ RequestFails(r)
  BY <1>2, <1>3, <1>10, NewRunRecord DEF RequestEmit, RequestFails, Answer, stores, task
<1> QED  BY <1>1, <1>4, <1>5, <1>6, <1>8, <1>9, <1>10

\* The steps of the process: it writes the row only while no task runs.
LEMMA ProcessWorks ==
    ASSUME IInv, LifeInv, WorkInv, ProcessNext
    PROVE  WorkInv'
<1>1. CASE Crash
  <2>1. pc' = "none" /\ \A r \in Requests : req'[r].pc = "idle"
    BY <1>1, NewRunRecord DEF Crash, TaskEnds
  <2> QED  BY <2>1, WorkKept DEF Working
<1>2. CASE ~Crash
  <2>1. /\ UNCHANGED req
        /\ \/ pc' = "boot"
           \/ UNCHANGED <<pc, run>> /\ (cancelReq' = "none" => cancelReq = "none")
           \/ UNCHANGED pc /\ ~TaskAlive
    BY <1>2
       DEF ProcessNext, StartCreate, StartSchedule, StartFails, DeadlinePasses, ShutdownBegin,
           GraceExpires, ShutdownEnds, RecoverNothing, RecoverExpired, RecoverEmit, RecoverRun,
           Restart, LifeInv, IInv, stores, task
  <2> QED  BY <2>1, WorkKept DEF Working, WorkInv, TaskAlive
<1> QED  BY <1>1, <1>2

\* Only a provider call and an invocation of a handler are counted as work.
LEMMA OnlyWorkCounts ==
    ASSUME [Next]_vars
    PROVE  /\ modelCalls' = modelCalls \/ CallModel \/ CallFallback
           /\ invoked' = invoked \/ Invoke \/ InvokeAgain
<1> USE DEF history
<1>1. CASE RuntimeStep /\ ~ExecutorStep
  BY <1>1
     DEF RuntimeStep, Boot, Accept, Validate, BuildContext, PlanClarify, PlanModel, PlanApproval,
         PlanTool, PlanComplete, PlanFail, AskApproval, CallModel, CallFallback, CachedReply, ModelDone,
         ModelBackoff, ToolDone, VerifyPasses, VerifyFails, Repair, Compose, EmitEnd, EmitPause,
         Finish, HandlerRead, HandlerSave, HandlerEmit
<1>2. CASE ExecutorStep
  BY <1>2 DEF ExecutorStep, Begin, CachedResult, Invoke, InvokeAgain, Complete, Return, Fail
<1>3. CASE ExternalStep
  BY <1>3
     DEF ExternalStep, CallFallback, ModelReply, ModelDone, ModelRetry, HandlerStep, HandlerReturns, HandlerFails,
         HandlerRaises
<1>4. CASE Interrupt \/ Raise
  BY <1>4 DEF Interrupt, Raise, DeliverCancel, DeliverTimeout
<1>5. CASE RequestNext
  BY <1>5
     DEF RequestNext, CancelRead, CancelSave, ResumeRead, ResumeDecide, ResumeSave, RequestEmit,
         RequestFails
<1>6. CASE ProcessNext
  BY <1>6
     DEF ProcessNext, StartCreate, StartSchedule, StartFails, DeadlinePasses, ShutdownBegin,
         GraceExpires, ShutdownEnds, Crash, RecoverNothing, RecoverExpired, RecoverEmit, RecoverRun
<1>7. CASE UNCHANGED vars
  BY <1>7 DEF vars
<1> QED  BY <1>1, <1>2, <1>3, <1>4, <1>5, <1>6, <1>7 DEF Next, DriverNext, RuntimeStep

-----------------------------------------------------------------------------
(* The theorems. *)

LEMMA EndInit == Init => LifeInv /\ EndInv /\ WorkInv
<1> SUFFICES ASSUME Init PROVE LifeInv /\ EndInv /\ WorkInv
  OBVIOUS
<1>1. \A r \in Requests : req[r].pc = "idle"
  BY NewRunRecord DEF Init
<1>2. TerminalEventMatches
  BY DEF Init, TerminalEventMatches
<1> QED
  BY <1>1, <1>2
     DEF Init, LifeInv, EndInv, WorkInv, TaskAlive, Announcing, Working, RequestAnnounces

LEMMA EndStep ==
    IInv /\ LifeInv /\ EndInv /\ WorkInv /\ [Next]_vars => LifeInv' /\ EndInv' /\ WorkInv'
<1> SUFFICES ASSUME IInv, LifeInv, EndInv, WorkInv, [Next]_vars
             PROVE  LifeInv' /\ EndInv' /\ WorkInv'
  OBVIOUS
<1>1. LifeInv' /\ StatusStep
  BY LifeStep, StepInvariant
<1>2. CASE UNCHANGED vars
  <2>1. UNCHANGED <<run, ended, pc, copy, goal, cancelReq, req, phase>>
    BY <1>2 DEF vars, stores, task, process
  <2>2. EndInv'
    BY <2>1
       DEF EndInv, TerminalEventMatches, Unannounced, Announced, RequestAnnounces
  <2>3. WorkInv'
    BY <2>1 DEF WorkInv
  <2> QED  BY <1>1, <2>2, <2>3
<1> QED
  BY <1>1, <1>2, DriverEnds, RequestEnds, ProcessEnds, DriverWorks, RequestWorks, ProcessWorks
     DEF Next

\* A run publishes at most one terminal event, of the type of the status it ended with,
\* for any number of requests, restarts and interruptions: the version check of the
\* store lets one actor end the run, and only that actor publishes.
THEOREM TerminalEventAgrees == Spec => []TerminalEventMatches
<1>1. EndInv => TerminalEventMatches  BY DEF EndInv
<1> QED  BY <1>1, InitInvariant, StepInvariant, EndInit, EndStep, PTL DEF Spec

\* Once the stored run is terminal no provider call and no tool handler starts, for any
\* number of concurrent cancels and resumes: a cancel reads the run and cancels its task
\* in one step, so no save of it can overtake a task that goes on unaware.
THEOREM TerminalStopsWork == Spec => NoWorkAfterTerminal
<1>1. WorkInv /\ [Next]_vars /\ run.status \in TERMINAL_STATUSES =>
         modelCalls' = modelCalls /\ invoked' = invoked
  <2> SUFFICES ASSUME WorkInv, [Next]_vars, run.status \in TERMINAL_STATUSES
               PROVE  modelCalls' = modelCalls /\ invoked' = invoked
    OBVIOUS
  <2>1. ~(pc \in Working /\ cancelReq = "none")
    BY DEF WorkInv, TERMINAL_STATUSES
  <2>2. ~CallModel /\ ~CallFallback /\ ~Invoke /\ ~InvokeAgain
    BY <2>1 DEF CallModel, CallFallback, Invoke, InvokeAgain, At, Working
  <2> QED  BY <2>2, OnlyWorkCounts
<1> QED
  BY <1>1, InitInvariant, StepInvariant, EndInit, EndStep, PTL DEF Spec, NoWorkAfterTerminal

=============================================================================
