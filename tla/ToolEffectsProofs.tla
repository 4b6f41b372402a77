-------------------------- MODULE ToolEffectsProofs --------------------------
(***************************************************************************)
(* What the runtime promises about the tools it invokes.  A tool with side *)
(* effects is invoked for a call at most as often as its retry policy      *)
(* allows, however often the run is interrupted, recovered and planned     *)
(* again; a call that needs approval is invoked only after a decision that *)
(* lets it run.  EffectsInv and GrantInv are inductive on top of IInv.     *)
(***************************************************************************)
EXTENDS RunRecordProofs

-----------------------------------------------------------------------------
(* Side effects. *)

\* The awaits EffectsInv speaks of.
Invoking == {"t_wait", "t_run", "t_backoff"}

\* A step that invokes nothing, writes no ledger row and either leaves the task
\* where it is or takes it out of the executor's waits.
LEMMA EffectsKept ==
    ASSUME EffectsInv, UNCHANGED <<ledger, invoked>>,
           UNCHANGED <<pc, cur, attempt>> \/ pc' \notin Invoking
    PROVE  EffectsInv'
  BY DEF EffectsInv, SideEffectBounded, ToolAttempts, Invoking

\* The steps of requests and of the process.
LEMMA OutsideEffects ==
    ASSUME EffectsInv, RequestNext \/ ProcessNext \/ UNCHANGED vars
    PROVE  EffectsInv'
<1>1. CASE RequestNext
  <2>1. UNCHANGED <<ledger, invoked, cur, attempt>> /\ pc' \in {pc, "boot"}
    BY <1>1
       DEF RequestNext, CancelRead, CancelSave, ResumeRead, ResumeDecide, ResumeSave,
           RequestEmit, RequestFails, stores, task, history
  <2> QED  BY <2>1, EffectsKept DEF Invoking
<1>2. CASE ProcessNext
  <2>1. /\ UNCHANGED <<ledger, invoked>>
        /\ UNCHANGED <<pc, cur, attempt>> \/ pc' \in {"boot", "none"}
    BY <1>2
       DEF ProcessNext, StartCreate, StartSchedule, StartFails, DeadlinePasses, ShutdownBegin,
           GraceExpires, ShutdownEnds, Crash, TaskEnds, RecoverNothing, RecoverExpired,
           RecoverEmit, RecoverRun, stores, task, history
  <2> QED  BY <2>1, EffectsKept DEF Invoking
<1>3. CASE UNCHANGED vars
  BY <1>3, EffectsKept DEF vars, stores, task, history
<1> QED  BY <1>1, <1>2, <1>3

\* The driving task outside the executor.
LEMMA DriverEffects ==
    ASSUME EffectsInv, DriverNext, ~ExecutorStep, ~HandlerStep
    PROVE  EffectsInv'
<1> USE EffectsKept DEF Invoking
<1>1. CASE \/ Accept \/ Validate \/ BuildContext \/ PlanClarify \/ PlanModel \/ PlanTool
           \/ PlanComplete \/ PlanFail \/ AskApproval \/ ModelBackoff
           \/ VerifyPasses \/ Repair \/ Compose
  BY <1>1, LoopHeadPC
     DEF Accept, Validate, BuildContext, PlanClarify, PlanModel, PlanTool, PlanComplete, PlanFail,
         AskApproval, ModelBackoff, VerifyPasses, Repair, Compose, DriverSave, history
<1>2. CASE ModelReply \/ CachedReply \/ ModelRetry \/ ToolDone \/ VerifyFails
  BY <1>2, LoopHeadPC
     DEF ModelReply, CachedReply, ModelDone, ModelRetry, ToolDone, VerifyFails, DriverSave, history
<1>3. CASE Boot \/ PlanApproval \/ CallModel \/ CallFallback \/ EmitEnd \/ EmitPause \/ HandlerEmit
  BY <1>3, LoopHeadPC
     DEF Boot, PlanApproval, CallModel, CallFallback, At, EmitEnd, EmitPause, HandlerEmit, stores, history
<1>4. CASE Finish \/ Raise \/ DeliverCancel \/ DeliverTimeout \/ HandlerRead \/ HandlerSave
  BY <1>4
     DEF Finish, Raise, DeliverCancel, DeliverTimeout, HandlerRead, HandlerSave, Interrupted,
         Unwind, TaskEnds, stores, history
<1> QED
  BY <1>1, <1>2, <1>3, <1>4 DEF DriverNext, RuntimeStep, ExternalStep, Interrupt

\* The executor: reserving, invoking and recording a call.
LEMMA ExecutorEffects ==
    ASSUME IInv, EffectsInv, ExecutorStep \/ HandlerStep
    PROVE  EffectsInv'
<1>1. /\ cur \in Calls /\ cur' = cur /\ attempt \in Nat
      /\ ledger \in [Calls -> LedgerStatus] /\ invoked \in [Calls -> Nat]
      /\ \A c \in Effectful : c \in Calls /\ invoked[c] \in Nat /\ ToolAttempts(c) \in Nat \ {0}
      /\ ToolAttempts(cur) \in Nat \ {0}
  <2>1. pc \in ToolAwaits /\ cur' = cur
    BY DEF ExecutorStep, HandlerStep, Begin, CachedResult, Invoke, InvokeAgain, Complete, Return,
           Fail, HandlerReturns, HandlerFails, HandlerRaises, At, Lands, ToolAwaits, ToolTry
  <2> QED
    BY <2>1, CallsAssumption, BoundsAssumption DEF IInv, TypeOK, TaskInv, ToolAttempts
<1>2. CASE Begin
  <2>1. UNCHANGED <<invoked, cur>> /\ pc' \in {"t_wait", "tool_done", "h_read"}
    BY <1>2 DEF Begin, history
  <2>2. CASE pc' = "t_wait"
    <3>1. CanReserve(cur) /\ ledger' = LedgerSet(cur, "started") /\ attempt' = 0
      BY <1>2, <2>2 DEF Begin
    <3>2. cur \in Effectful => invoked[cur] = 0
      BY <3>1 DEF CanReserve, EffectsInv
    <3>3. ledger'[cur] = "started" /\ \A c \in Calls \ {cur} : ledger'[c] = ledger[c]
      BY <1>1, <3>1 DEF LedgerSet
    <3> QED
      BY <1>1, <2>1, <2>2, <3>1, <3>2, <3>3 DEF EffectsInv, SideEffectBounded, ToolAttempts
  <2>3. CASE pc' # "t_wait"
    <3>1. UNCHANGED <<ledger, invoked>>
      BY <1>2, <2>3 DEF Begin, history
    <3> QED  BY <2>1, <2>3, <3>1, EffectsKept DEF Invoking
  <2> QED  BY <2>2, <2>3
<1>3. CASE CachedResult \/ Complete \/ Fail
  <2>1. PICK s \in {"completed", "indeterminate", "failed"} :
           /\ ledger' = LedgerSet(cur, s)
           /\ s = "failed" => cur \notin Effectful
    BY <1>3 DEF CachedResult, Complete, Fail, FailureStatus
  <2>2. ledger'[cur] = s /\ \A c \in Calls \ {cur} : ledger'[c] = ledger[c]
    BY <1>1, <2>1 DEF LedgerSet
  <2>3. UNCHANGED invoked /\ pc' \notin Invoking
    BY <1>3 DEF CachedResult, Complete, Fail, history, Invoking
  <2> QED
    BY <1>1, <2>1, <2>2, <2>3 DEF EffectsInv, SideEffectBounded, ToolAttempts, Invoking
<1>4. CASE Invoke \/ InvokeAgain
  <2>1. /\ pc' = "t_run" /\ UNCHANGED ledger
        /\ invoked' = [invoked EXCEPT ![cur] = @ + 1]
        /\ \/ pc = "t_wait" /\ attempt' = attempt
           \/ pc = "t_backoff" /\ attempt' = attempt + 1
    BY <1>4 DEF Invoke, InvokeAgain, At, stores
  <2>2. invoked'[cur] = invoked[cur] + 1 /\ \A c \in Calls \ {cur} : invoked'[c] = invoked[c]
    BY <1>1, <2>1
  <2>3. /\ cur \in Effectful => /\ invoked'[cur] = attempt' + 1 /\ ledger[cur] # "none"
                                /\ invoked'[cur] <= ToolAttempts(cur)
    BY <1>1, <2>1, <2>2 DEF EffectsInv
  <2> QED
    BY <1>1, <2>1, <2>2, <2>3 DEF EffectsInv, SideEffectBounded, ToolAttempts
<1>5. CASE HandlerFails
  BY <1>1, <1>5
     DEF HandlerFails, At, stores, history, EffectsInv, SideEffectBounded, ToolAttempts
<1>6. CASE HandlerReturns \/ HandlerRaises \/ Return
  BY <1>6, EffectsKept DEF HandlerReturns, HandlerRaises, Return, stores, history, Invoking
<1> QED
  BY <1>2, <1>3, <1>4, <1>5, <1>6 DEF ExecutorStep, HandlerStep

\* For every set of calls, retry policy and number of restarts, a call with side
\* effects is invoked at most ToolAttempts times: after the first reservation the
\* ledger row never becomes reservable again, whatever interrupts the task.
THEOREM EffectsBounded == Spec => []SideEffectBounded
<1>1. Init => EffectsInv
  <2> SUFFICES ASSUME Init PROVE EffectsInv
    OBVIOUS
  <2> QED
    BY CallsAssumption, BoundsAssumption DEF Init, EffectsInv, SideEffectBounded, ToolAttempts
<1>2. IInv /\ EffectsInv /\ [Next]_vars => EffectsInv'
  <2> SUFFICES ASSUME IInv, EffectsInv, [Next]_vars PROVE EffectsInv'
    OBVIOUS
  <2> QED  BY OutsideEffects, DriverEffects, ExecutorEffects DEF Next
<1>3. EffectsInv => SideEffectBounded
  BY DEF EffectsInv
<1> QED  BY <1>1, <1>2, <1>3, InitInvariant, StepInvariant, PTL DEF Spec

-----------------------------------------------------------------------------
(* Approvals. *)

\* A decision taken on request a lets call c run, modified or not.
Granted(a, c, modified) ==
    /\ a.call = c
    /\ \E d \in a.taken : d # "rejected" /\ (d = "modified" <=> modified)

\* Among documented decisions at most one is taken, and the row keeps it.
TakenOnce(a) ==
    a.taken \subseteq DocumentedDecisions => a.taken = {} \/ a.taken = {a.status}

\* What the approvals a say of record x: for each call it lists as approved a decision
\* was taken, the one the record remembers, and the approval it pauses on is for a call
\* that is pending and not approved.
Sound(a, x) ==
    /\ x.modified \subseteq x.approved
    /\ \A c \in x.approved : \E i \in DOMAIN a : Granted(a[i], c, c \in x.modified)
    /\ x.pause > 0 => a[x.pause].call \in x.pending \ x.approved

\* Only a run that ended or awaits approval still names an approval.
PausedOnly(x) == x.pause > 0 => x.status \in TERMINAL_STATUSES \cup {"AWAITING_APPROVAL"}

\* The awaits at which the task's copy names no approval.
Unpaused == Executing \ {"ask", "emit_pause", "emit_end"}

\* From the checkpoint of a tool call to its last invocation.
ToInvoke == {"t_begin", "t_wait", "t_run", "t_backoff"}

\* The inductive invariant behind DecisionGate.  The approvals vouch for every copy of the
\* run, and a task that is to invoke a call has the call's approval in its copy.
GrantInv ==
    /\ \A i \in DOMAIN approvals : TakenOnce(approvals[i])
    /\ Sound(approvals, run) /\ Sound(approvals, copy)
    /\ \A r \in Requests : Sound(approvals, req[r].copy)
    /\ PausedOnly(run)
    /\ pc = "h_save" => PausedOnly(copy)
    /\ pc \in Unpaused => copy.pause = 0
    /\ \A r \in Requests :
          req[r].pc = "r_save" /\ req[r].goal # "FAILED" => req[r].copy.pause = 0
    /\ pc \in ToInvoke /\ cur \in NeedsApproval => cur \in copy.approved

\* b is a later state of the approvals a: a decision that was taken stays taken.
Later(a, b) ==
    /\ DOMAIN a \subseteq DOMAIN b
    /\ \A i \in DOMAIN a : b[i].call = a[i].call /\ a[i].taken \subseteq b[i].taken

\* A record keeps what the approvals vouch for when they grow, when it is saved, and
\* when it stops naming an approval.
LEMMA SoundKept ==
    ASSUME NEW a, NEW b, NEW x, NEW y, Later(a, b), Sound(a, x),
           y.approved = x.approved, y.modified = x.modified,
           x.pause > 0 => x.pause \in DOMAIN a,
           (y.pause = x.pause /\ y.pending = x.pending) \/ ~(y.pause > 0)
    PROVE  Sound(b, y)
  BY DEF Later, Sound, Granted

LEMMA DriverApprovals ==
    ASSUME DriverNext, ~PlanApproval
    PROVE  approvals' = approvals
<1>1. CASE \/ Boot \/ Accept \/ Validate \/ BuildContext \/ PlanClarify \/ PlanModel \/ PlanTool
           \/ PlanComplete \/ PlanFail \/ AskApproval \/ CallModel \/ CallFallback \/ CachedReply \/ ModelBackoff
  BY <1>1
     DEF Boot, Accept, Validate, BuildContext, PlanClarify, PlanModel, PlanTool, PlanComplete,
         PlanFail, AskApproval, CallModel, CallFallback, CachedReply, ModelDone, ModelBackoff, stores
<1>2. CASE \/ ToolDone \/ VerifyPasses \/ VerifyFails \/ Repair \/ Compose \/ EmitEnd \/ EmitPause
           \/ Finish \/ HandlerRead \/ HandlerSave \/ HandlerEmit
  BY <1>2
     DEF ToolDone, VerifyPasses, VerifyFails, Repair, Compose, EmitEnd, EmitPause, Finish,
         HandlerRead, HandlerSave, HandlerEmit, stores
<1>3. CASE ExecutorStep \/ HandlerStep
  BY <1>3
     DEF ExecutorStep, HandlerStep, Begin, CachedResult, Invoke, InvokeAgain, Complete, Return,
         Fail, HandlerReturns, HandlerFails, HandlerRaises, stores
<1>4. CASE ModelReply \/ ModelRetry \/ Raise \/ DeliverCancel \/ DeliverTimeout
  BY <1>4 DEF ModelReply, ModelDone, ModelRetry, Raise, DeliverCancel, DeliverTimeout, stores
<1> QED  BY <1>1, <1>2, <1>3, <1>4 DEF DriverNext, RuntimeStep, ExternalStep, Interrupt

\* What a decision does to the approval it is for.
LEMMA DecideApproval ==
    ASSUME IInv, NEW r \in Requests, ResumeDecide(r), approvals' # approvals
    PROVE  LET i == req[r].copy.pause
               d == req[r].decision
           IN  /\ i \in DOMAIN approvals /\ DOMAIN approvals' = DOMAIN approvals
               /\ \A j \in DOMAIN approvals : j # i => approvals'[j] = approvals[j]
               /\ approvals[i].status = "pending" /\ approvals'[i].call = approvals[i].call
               /\ \/ /\ approvals'[i].status = d /\ approvals'[i].taken = approvals[i].taken \cup {d}
                     /\ req' = [req EXCEPT ![r].pc = "r_save", ![r].decision = "none",
                                    ![r].copy = Decided(@, approvals[i].call, d),
                                    ![r].goal = IF d = "rejected" THEN "FAILED" ELSE "PLANNING"]
                  \/ /\ approvals'[i].status = "expired" /\ approvals'[i].taken = approvals[i].taken
                     /\ Answer(r)
<1> DEFINE i == req[r].copy.pause
           d == req[r].decision
           S == ApprovalRecord
<1>1. i \in DOMAIN approvals /\ approvals[i] \in S
  <2>1. req[r].pc = "r_decide"
    BY DEF ResumeDecide
  <2>2. i > 0 /\ i <= Len(approvals)
    BY <2>1 DEF IInv, RequestInv
  <2>3. i \in Nat
    BY SMTT(30) DEF IInv, TypeOK, RequestRecord, RunRecord
  <2>4. approvals \in Seq(S) /\ i \in 1..Len(approvals)
    BY <2>2, <2>3 DEF IInv, TypeOK
  <2> HIDE DEF S, i
  <2> QED  BY <2>4
<1>2. CASE /\ approvals[i].status = "pending"
           /\ approvals' = [approvals EXCEPT ![i].status = d, ![i].taken = @ \cup {d}]
           /\ req' = [req EXCEPT ![r].pc = "r_save", ![r].decision = "none",
                                 ![r].copy = Decided(@, approvals[i].call, d),
                                 ![r].goal = IF d = "rejected" THEN "FAILED" ELSE "PLANNING"]
  <2>1. approvals'[i] = [approvals[i] EXCEPT !.status = d, !.taken = @ \cup {d}]
    BY <1>1, <1>2
  <2>2. /\ approvals'[i].status = d /\ approvals'[i].taken = approvals[i].taken \cup {d}
        /\ approvals'[i].call = approvals[i].call
    BY <1>1, <2>1 DEF ApprovalRecord
  <2>3. /\ DOMAIN approvals' = DOMAIN approvals
        /\ \A j \in DOMAIN approvals : j # i => approvals'[j] = approvals[j]
    BY <1>2
  <2> QED  BY <1>1, <1>2, <2>2, <2>3
<1>3. CASE /\ approvals[i].status = "pending" /\ Answer(r)
           /\ approvals' = [approvals EXCEPT ![i].status = "expired"]
  <2>1. approvals'[i] = [approvals[i] EXCEPT !.status = "expired"]
    BY <1>1, <1>3
  <2>2. /\ approvals'[i].status = "expired" /\ approvals'[i].taken = approvals[i].taken
        /\ approvals'[i].call = approvals[i].call
    BY <1>1, <2>1 DEF ApprovalRecord
  <2>3. /\ DOMAIN approvals' = DOMAIN approvals
        /\ \A j \in DOMAIN approvals : j # i => approvals'[j] = approvals[j]
    BY <1>3
  <2> QED  BY <1>1, <1>3, <2>2, <2>3
<1> QED  BY <1>2, <1>3 DEF ResumeDecide

\* The approvals only grow, and a request is decided once.
LEMMA ApprovalsGrow ==
    ASSUME IInv, [Next]_vars
    PROVE  /\ Later(approvals, approvals') /\ DOMAIN approvals = 1..Len(approvals)
           /\ (\A i \in DOMAIN approvals : TakenOnce(approvals[i])) =>
                 \A i \in DOMAIN approvals' : TakenOnce(approvals'[i])
<1> DEFINE Kept == (\A i \in DOMAIN approvals : TakenOnce(approvals[i])) =>
                      \A i \in DOMAIN approvals' : TakenOnce(approvals'[i])
<1>0. /\ approvals \in Seq(ApprovalRecord)
      /\ DOMAIN approvals = 1..Len(approvals) /\ Len(approvals) \in Nat
  BY DEF IInv, TypeOK
<1>1. CASE approvals' = approvals
  BY <1>0, <1>1 DEF Later
<1>2. CASE PlanApproval
  <2>1. PICK c : approvals' = Append(approvals, [call |-> c, status |-> "pending", taken |-> {}])
    BY <1>2 DEF PlanApproval
  <2>2. /\ DOMAIN approvals' = 1..(Len(approvals) + 1)
        /\ \A i \in DOMAIN approvals : approvals'[i] = approvals[i]
        /\ approvals'[Len(approvals) + 1] = [call |-> c, status |-> "pending", taken |-> {}]
    BY <1>0, <2>1
  <2>3. TakenOnce(approvals'[Len(approvals) + 1])
    BY <2>2 DEF TakenOnce
  <2> QED  BY <1>0, <2>2, <2>3 DEF Later
<1>3. ASSUME NEW r \in Requests, ResumeDecide(r)
      PROVE  Later(approvals, approvals') /\ Kept
  <2> DEFINE i == req[r].copy.pause
             d == req[r].decision
  <2>1. CASE approvals' # approvals
    <3>1. /\ i \in DOMAIN approvals /\ DOMAIN approvals' = DOMAIN approvals
          /\ \A j \in DOMAIN approvals : j # i => approvals'[j] = approvals[j]
          /\ approvals[i].status = "pending" /\ approvals'[i].call = approvals[i].call
          /\ \/ approvals'[i].status = d /\ approvals'[i].taken = approvals[i].taken \cup {d}
             \/ approvals'[i].status = "expired" /\ approvals'[i].taken = approvals[i].taken
      BY <1>3, <2>1, DecideApproval
    <3>2. TakenOnce(approvals[i]) => TakenOnce(approvals'[i])
      <4> HIDE DEF i, d
      <4> QED  BY <3>1 DEF TakenOnce, DocumentedDecisions
    <3> QED  BY <3>1, <3>2 DEF Later
  <2> QED  BY <1>0, <1>1, <2>1
<1>4. CASE DriverNext /\ ~PlanApproval
  <2>1. approvals' = approvals
    BY <1>4, DriverApprovals
  <2> QED  BY <1>1, <2>1
<1>5. CASE RequestNext
  <2>1. PICK r \in Requests :
           \/ CancelRead(r) \/ CancelSave(r) \/ ResumeRead(r) \/ ResumeDecide(r) \/ ResumeSave(r)
           \/ RequestEmit(r) \/ RequestFails(r)
    BY <1>5 DEF RequestNext
  <2>2. ResumeDecide(r) \/ approvals' = approvals
    BY <2>1 DEF CancelRead, CancelSave, ResumeRead, ResumeSave, RequestEmit, RequestFails, stores
  <2> QED  BY <1>1, <1>3, <2>2
<1>6. CASE ProcessNext
  BY <1>1, <1>6
     DEF ProcessNext, StartCreate, StartSchedule, StartFails, DeadlinePasses, ShutdownBegin,
         GraceExpires, ShutdownEnds, Crash, RecoverNothing, RecoverExpired, RecoverEmit,
         RecoverRun, stores
<1>7. CASE UNCHANGED vars
  BY <1>1, <1>7 DEF vars, stores
<1> QED  BY <1>0, <1>2, <1>3, <1>4, <1>5, <1>6, <1>7 DEF Next

\* What every record the invariant speaks of is made of.
LEMMA RecordFacts ==
    ASSUME IInv
    PROVE  /\ run \in RunRecord /\ copy \in RunRecord
           /\ run.pause \in Nat /\ copy.pause \in Nat
           /\ run.pause > 0 => run.pause \in DOMAIN approvals
           /\ copy.pause > 0 => copy.pause \in DOMAIN approvals
           /\ \A r \in Requests :
                 /\ req[r] \in RequestRecord /\ req[r].copy \in RunRecord
                 /\ req[r].copy.pause \in Nat
                 /\ req[r].copy.pause > 0 => req[r].copy.pause \in DOMAIN approvals
<1>1. /\ approvals \in Seq(ApprovalRecord)
      /\ DOMAIN approvals = 1..Len(approvals) /\ Len(approvals) \in Nat
  BY DEF IInv, TypeOK
<1>2. /\ run \in RunRecord /\ copy \in RunRecord /\ run.pause \in Nat /\ copy.pause \in Nat
      /\ run.pause <= Len(approvals) /\ copy.pause <= Len(approvals)
  BY DEF IInv, TypeOK, PauseResolves, TaskInv, RunRecord
<1>3. ASSUME NEW r \in Requests
      PROVE  /\ req[r] \in RequestRecord /\ req[r].copy \in RunRecord
             /\ req[r].copy.pause \in Nat /\ req[r].copy.pause <= Len(approvals)
  BY DEF IInv, TypeOK, RequestInv, RequestRecord, RunRecord
<1> QED  BY <1>1, <1>2, <1>3

\* Only PlanTool leads the task to an invocation it was not already making.
LEMMA ToInvokeSteps ==
    ASSUME DriverNext, pc' \in ToInvoke
    PROVE  PlanTool \/ (pc \in ToInvoke /\ UNCHANGED <<cur, copy>>)
<1> USE LoopHeadPC DEF ToInvoke
<1>1. ~(\/ Boot \/ Accept \/ Validate \/ BuildContext \/ PlanClarify \/ PlanModel \/ PlanApproval
        \/ PlanComplete \/ PlanFail \/ AskApproval \/ CallModel \/ CallFallback \/ ModelBackoff)
  BY DEF Boot, Accept, Validate, BuildContext, PlanClarify, PlanModel, PlanApproval, PlanComplete,
         PlanFail, AskApproval, CallModel, CallFallback, At, ModelBackoff, DriverSave
<1>2. ~(CachedReply \/ ModelReply \/ ToolDone \/ VerifyPasses \/ VerifyFails \/ Repair \/ Compose)
  BY DEF CachedReply, ModelReply, ModelDone, ToolDone, VerifyPasses, VerifyFails, Repair, Compose,
         DriverSave
<1>3. ~(EmitEnd \/ EmitPause \/ Finish \/ HandlerRead \/ HandlerSave \/ HandlerEmit \/ ModelRetry)
  BY DEF EmitEnd, EmitPause, Finish, HandlerRead, HandlerSave, HandlerEmit, ModelRetry, DriverSave,
         TaskEnds
<1>4. ~(Raise \/ DeliverCancel \/ DeliverTimeout)
  BY DEF Raise, DeliverCancel, DeliverTimeout, Interrupted, Unwind, TaskEnds
<1>5. CASE ExecutorStep \/ HandlerStep
  BY <1>5
     DEF ExecutorStep, HandlerStep, Begin, CachedResult, Invoke, InvokeAgain, Complete, Return,
         Fail, HandlerReturns, HandlerFails, HandlerRaises, At, Lands
<1> QED
  BY <1>1, <1>2, <1>3, <1>4, <1>5 DEF DriverNext, RuntimeStep, ExternalStep, Interrupt

\* Outside a pause and the handlers, the task saves from an await at which its copy names
\* no approval.
LEMMA SavesUnpaused ==
    ASSUME DriverNext, run' # run, ~AskApproval, ~HandlerSave
    PROVE  pc \in Unpaused
<1> USE DEF Unpaused, Executing, ToolAwaits, ToolTry
<1>1. CASE \/ Accept \/ Validate \/ BuildContext \/ PlanClarify \/ PlanModel \/ PlanTool
           \/ PlanComplete \/ PlanFail \/ ModelBackoff
  BY <1>1
     DEF Accept, Validate, BuildContext, PlanClarify, PlanModel, PlanTool, PlanComplete, PlanFail,
         ModelBackoff, DriverSave, Lands
<1>2. CASE \/ CachedReply \/ ModelReply \/ ModelRetry \/ ToolDone \/ VerifyPasses \/ VerifyFails
           \/ Repair \/ Compose
  BY <1>2
     DEF CachedReply, ModelReply, ModelDone, ModelRetry, ToolDone, VerifyPasses, VerifyFails,
         Repair, Compose, DriverSave, Lands
<1>3. ~(Boot \/ PlanApproval \/ CallModel \/ CallFallback \/ EmitEnd \/ EmitPause \/ Finish \/ HandlerRead \/ HandlerEmit)
  BY DEF Boot, PlanApproval, CallModel, CallFallback, EmitEnd, EmitPause, Finish, HandlerRead, HandlerEmit, stores
<1>4. ~(Raise \/ DeliverCancel \/ DeliverTimeout)
  BY DEF Raise, DeliverCancel, DeliverTimeout, stores
<1>5. ~(ExecutorStep \/ HandlerStep)
  BY DEF ExecutorStep, HandlerStep, Begin, CachedResult, Invoke, InvokeAgain, Complete, Return,
         Fail, HandlerReturns, HandlerFails, HandlerRaises, stores
<1> QED
  BY <1>1, <1>2, <1>3, <1>4, <1>5 DEF DriverNext, RuntimeStep, ExternalStep, Interrupt

\* The task saves its copy with the approvals it has read, pauses on one it has created,
\* and goes on to invoke a call only if the call needs none or the copy has it.
LEMMA DriverGrants ==
    ASSUME IInv, GrantInv, DriverNext
    PROVE  GrantInv'
<1> DEFINE Here(x) == Sound(approvals', x)
<1>0. /\ UNCHANGED req /\ Later(approvals, approvals')
      /\ DOMAIN approvals = 1..Len(approvals)
      /\ \A i \in DOMAIN approvals' : TakenOnce(approvals'[i])
  BY DriverFrame, ApprovalsGrow DEF Next, GrantInv
<1>1. /\ run \in RunRecord /\ copy \in RunRecord /\ run.pause \in Nat /\ copy.pause \in Nat
      /\ Here(run) /\ Here(copy)
      /\ \A r \in Requests : Here(req[r].copy)
  BY <1>0, RecordFacts, SoundKept DEF GrantInv
<1>2. \A r \in Requests :
         /\ Sound(approvals', req'[r].copy)
         /\ req'[r].pc = "r_save" /\ req'[r].goal # "FAILED" => req'[r].copy.pause = 0
  BY <1>0, <1>1 DEF GrantInv
<1>3. pc' \in ToInvoke /\ cur' \in NeedsApproval => cur' \in copy'.approved
  <2> SUFFICES ASSUME pc' \in ToInvoke, cur' \in NeedsApproval
               PROVE  cur' \in copy'.approved
    OBVIOUS
  <2>1. CASE PlanTool
    <3>1. /\ copy' = Saved(Stepped(copy), "INVOKING_TOOL")
          /\ cur' \notin NeedsApproval \ copy.approved
      BY <2>1 DEF PlanTool, DriverSave, ToInvoke
    <3>2. copy'.approved = copy.approved
      BY <1>1, <3>1 DEF Saved, Stepped, RunRecord
    <3> QED  BY <3>1, <3>2
  <2>2. CASE pc \in ToInvoke /\ UNCHANGED <<cur, copy>>
    BY <2>2 DEF GrantInv
  <2> QED  BY <2>1, <2>2, ToInvokeSteps
<1>4. /\ Here(run') /\ Here(copy') /\ PausedOnly(run')
      /\ pc' = "h_save" => PausedOnly(copy')
      /\ pc' \in Unpaused => copy'.pause = 0
  <2>1. CASE PlanApproval
    <3>1. /\ run' = run /\ pc = "plan" /\ pc' = "ask"
          /\ copy' = [Stepped(copy) EXCEPT !.pause = Len(approvals) + 1]
      BY <2>1 DEF PlanApproval, Planned
    <3>2. PICK c \in copy.pending \ copy.approved :
             approvals' = Append(approvals, [call |-> c, status |-> "pending", taken |-> {}])
      BY <2>1 DEF PlanApproval, FirstOpenCall, OpenCalls
    <3>3. approvals'[Len(approvals) + 1].call = c
      BY <3>2 DEF IInv, TypeOK
    <3>4. /\ copy'.approved = copy.approved /\ copy'.modified = copy.modified
          /\ copy'.pending = copy.pending /\ copy'.pause = Len(approvals) + 1
      BY <1>1, <3>1 DEF Stepped, RunRecord
    <3>5. Here(copy')
      BY <1>1, <3>2, <3>3, <3>4 DEF Sound
    <3> QED  BY <1>1, <3>1, <3>5 DEF GrantInv, Unpaused
  <2>2. CASE TaskSaves /\ ~PlanApproval
    <3>1. PICK c \in RunRecord, target \in RunStatus :
             EditedCopy(c) /\ run' = Saved(c, target) /\ copy' = run'
      BY <2>2 DEF TaskSaves
    <3>2. /\ run'.approved = copy.approved /\ run'.modified = copy.modified
          /\ run'.pause = copy.pause
          /\ run'.pending = copy.pending \/ pc \in {"model", "model_reply", "tool_done"}
      BY <3>1, SavedFields DEF EditedCopy
    <3>3. pc \in {"model", "model_reply", "tool_done"} => copy.pause = 0
      BY DEF GrantInv, Unpaused, Executing, ToolAwaits
    <3>4. Here(run')
      BY <1>0, <1>1, <3>2, <3>3, RecordFacts, SoundKept DEF GrantInv
    <3>5. CASE AskApproval
      <4>1. pc' \in {"emit_pause", "h_read"} /\ (run' = run \/ run'.status = "AWAITING_APPROVAL")
        BY <1>1, <3>5 DEF AskApproval, DriverSave, Saved, RunRecord
      <4> QED  BY <3>1, <3>4, <4>1 DEF PausedOnly, GrantInv, Unpaused, Executing, ToolAwaits, ToolTry
    <3>6. CASE HandlerSave
      <4>1. /\ pc = "h_save" /\ pc' \in {"h_emit", "finish", "none"}
            /\ run' = run \/ run' = Saved(copy, goal)
        BY <3>6 DEF HandlerSave, Lands, At, TaskEnds, stores
      <4>2. PausedOnly(copy) /\ HandlerGoal
        BY <4>1 DEF GrantInv, IInv, TaskInv
      <4>3. PausedOnly(Saved(copy, goal))
        <5>1. Saved(copy, goal).pause = copy.pause /\ Saved(copy, goal).status = goal
          BY <1>1 DEF Saved, RunRecord
        <5>2. recovery_status("AWAITING_APPROVAL") = "AWAITING_APPROVAL"
          BY DEF recovery_status
        <5> QED  BY <4>2, <5>1, <5>2 DEF PausedOnly, HandlerGoal
      <4> QED
        BY <3>1, <3>4, <4>1, <4>3 DEF GrantInv, Unpaused, Executing, ToolAwaits, ToolTry
    <3>7. CASE run' = run
      <4>1. FALSE
        <5>1. PICK c0 \in RunRecord, t0 \in RunStatus : VersionMatches(c0) /\ run' = Saved(c0, t0)
          BY <2>2 DEF TaskSaves
        <5>2. run'.version = c0.version + 1 /\ c0.version = run.version /\ run.version \in Nat
          BY <1>1, <5>1, SavedRecord DEF VersionMatches, RunRecord
        <5> QED  BY <3>7, <5>2
      <4> QED  BY <4>1
    <3>8. CASE run' # run /\ ~AskApproval /\ ~HandlerSave
      <4>1. run'.pause = 0
        BY <3>2, <3>8, SavesUnpaused DEF GrantInv
      <4> QED  BY <3>1, <3>4, <4>1 DEF PausedOnly
    <3> QED  BY <3>5, <3>6, <3>7, <3>8
  <2>3. CASE TaskRests /\ ~PlanApproval
    <3>1. NewRun.pause = 0 /\ NewRun.approved = {} /\ NewRun.modified = {} /\ Here(NewRun)
      BY DEF NewRun, Sound
    <3>2. run' = run /\ Here(copy')
      BY <1>1, <2>3, <3>1 DEF TaskRests
    <3>3. pc' \in Unpaused => copy'.pause = 0
      <4>1. CASE copy' = run /\ pc' = LoopHead(run)
        BY <1>1, <4>1
           DEF GrantInv, PausedOnly, LoopHead, Unpaused, Executing, ToolAwaits, ToolTry,
               TERMINAL_STATUSES
      <4>2. CASE copy' = run /\ pc' = "accept" /\ run.status = "RECEIVED"
        BY <1>1, <4>2 DEF GrantInv, PausedOnly, TERMINAL_STATUSES
      <4>3. CASE copy' = copy /\ pc \in Executing \ {"ask", "emit_pause", "emit_end"}
        BY <4>3 DEF GrantInv, Unpaused
      <4>4. CASE pc' \in {"h_save", "finish"} \/ pc' \notin Executing
        BY <4>4 DEF Unpaused, Executing, ToolAwaits, ToolTry
      <4> QED  BY <2>3, <4>1, <4>2, <4>3, <4>4 DEF TaskRests
    <3>4. pc' = "h_save" => copy' = run
      BY <2>3, LoopHeadPC DEF TaskRests
    <3> QED  BY <3>2, <3>3, <3>4, <1>1 DEF GrantInv
  <2> QED  BY <2>1, <2>2, <2>3, DriverSaves
<1> QED  BY <1>0, <1>2, <1>3, <1>4 DEF GrantInv

\* A decision that does not reject the call grants it.
LEMMA DecidedGrants ==
    ASSUME NEW rec \in RunRecord, NEW c \in rec.pending, NEW d, d # "rejected"
    PROVE  /\ Decided(rec, c, d).approved = rec.approved \cup {c}
           /\ Decided(rec, c, d).modified = IF d = "modified" THEN rec.modified \cup {c}
                                            ELSE rec.modified
           /\ Decided(rec, c, d).pause = 0
<1>1. rec.pending \cap {c} = {c}
  OBVIOUS
<1>2. Decided(rec, c, d) =
         [rec EXCEPT !.approved = @ \cup {c},
                     !.modified = IF d = "modified" THEN @ \cup {c} ELSE @,
                     !.pause = 0]
  BY <1>1 DEF Decided
<1> QED  BY <1>2 DEF RunRecord

\* A request saves what it has read, or the decision it has just recorded; a decision
\* that modifies a call finds the call pending.
LEMMA RequestGrants ==
    ASSUME IInv, GrantInv, RequestNext
    PROVE  GrantInv'
<1> DEFINE Here(x) == Sound(approvals', x)
<1>0. /\ Later(approvals, approvals') /\ DOMAIN approvals = 1..Len(approvals)
      /\ \A i \in DOMAIN approvals' : TakenOnce(approvals'[i])
  BY ApprovalsGrow DEF Next, GrantInv
<1>1. /\ run \in RunRecord /\ copy \in RunRecord /\ run.pause \in Nat /\ copy.pause \in Nat
      /\ Here(run) /\ Here(copy)
      /\ \A r \in Requests : Here(req[r].copy)
  BY <1>0, RecordFacts, SoundKept DEF GrantInv
<1>2. PICK r \in Requests :
         \/ CancelRead(r) \/ CancelSave(r) \/ ResumeRead(r) \/ ResumeDecide(r) \/ ResumeSave(r)
         \/ RequestEmit(r) \/ RequestFails(r)
  BY DEF RequestNext
<1> DEFINE x == req[r].copy
<1>3. /\ UNCHANGED <<copy, cur>>
      /\ pc' = pc \/ (pc' = "boot" /\ pc = "none")
      /\ \A q \in Requests \ {r} : req'[q] = req[q]
      /\ req \in [Requests -> RequestRecord] /\ req[r] \in RequestRecord /\ x \in RunRecord
      /\ x.pause \in Nat
      /\ x.pause > 0 => x.pause \in DOMAIN approvals
  BY <1>2, RequestRecords, RecordFacts DEF IInv, TypeOK
<1>4. Here(run') /\ PausedOnly(run')
  <2>1. CASE run' = run
    BY <1>1, <2>1 DEF GrantInv
  <2>2. ASSUME NEW t \in RunStatus, run' = Saved(x, t), t \in TERMINAL_STATUSES \/ x.pause = 0
        PROVE  Here(run') /\ PausedOnly(run')
    <3>1. /\ run'.approved = x.approved /\ run'.modified = x.modified /\ run'.pause = x.pause
          /\ run'.pending = x.pending /\ run'.status = t
      BY <1>3, <2>2, SavedFields, SavedRecord
    <3> QED  BY <1>1, <2>2, <3>1 DEF Sound, PausedOnly
  <2>3. CASE CancelSave(r)
    <3>1. run' = run \/ run' = Saved(x, "CANCELLED")
      BY <2>3 DEF CancelSave
    <3> QED  BY <2>1, <2>2, <3>1 DEF RunStatus, TERMINAL_STATUSES
  <2>4. CASE ResumeSave(r)
    <3>1. /\ run' = run \/ run' = Saved(x, req[r].goal)
          /\ req[r].pc = "r_save" /\ req[r].goal \in RunStatus
      BY <2>4 DEF ResumeSave, IInv, RequestInv, RunStatus, TERMINAL_STATUSES
    <3>2. req[r].goal \in TERMINAL_STATUSES \/ x.pause = 0
      BY <3>1 DEF GrantInv, TERMINAL_STATUSES
    <3> QED  BY <2>1, <2>2, <3>1, <3>2
  <2>5. CASE CancelRead(r) \/ ResumeRead(r) \/ ResumeDecide(r) \/ RequestEmit(r) \/ RequestFails(r)
    BY <2>1, <2>5 DEF CancelRead, ResumeRead, ResumeDecide, RequestEmit, RequestFails, stores
  <2> QED  BY <1>2, <2>3, <2>4, <2>5
<1>5. /\ Here(req'[r].copy)
      /\ req'[r].pc = "r_save" /\ req'[r].goal # "FAILED" => req'[r].copy.pause = 0
  <2>0. Here(NewRun)
    BY DEF Sound, NewRun
  <2>1. CASE req'[r] = IdleRequest
    BY <2>0, <2>1 DEF IdleRequest
  <2>2. CASE CancelRead(r)
    <3>1. req'[r].copy = run /\ req'[r].pc = "c_save"
      BY <1>3, <2>2 DEF CancelRead, IdleRequest
    <3> QED  BY <1>1, <3>1
  <2>3. CASE ResumeRead(r)
    <3>1. /\ req'[r].copy = run
          /\ \/ req'[r].pc = "r_save" /\ run.status = "AWAITING_CLARIFICATION"
             \/ req'[r].pc = "r_decide"
      BY <1>3, <2>3 DEF ResumeRead, IdleRequest
    <3>2. run.status = "AWAITING_CLARIFICATION" => run.pause = 0
      BY <1>1 DEF GrantInv, PausedOnly, TERMINAL_STATUSES
    <3> QED  BY <1>1, <3>1, <3>2
  <2>4. CASE CancelSave(r) \/ ResumeSave(r) \/ RequestEmit(r) \/ RequestFails(r)
    <3>1. req'[r] = IdleRequest \/ (req'[r].pc = "emit" /\ req'[r].copy = x)
      BY <1>3, <2>4 DEF CancelSave, ResumeSave, RequestEmit, RequestFails, Answer, RequestRecord
    <3> QED  BY <1>1, <2>1, <3>1
  <2>5. CASE ResumeDecide(r) /\ req'[r] # IdleRequest
    <3> DEFINE i == x.pause
               d == req[r].decision
               k == approvals[i].call
    <3>1. /\ req[r].pc = "r_decide"
          /\ req' = [req EXCEPT ![r].pc = "r_save", ![r].decision = "none",
                                ![r].copy = Decided(@, approvals[i].call, d),
                                ![r].goal = IF d = "rejected" THEN "FAILED" ELSE "PLANNING"]
      BY <1>3, <2>5 DEF ResumeDecide, Answer
    <3>2. /\ req'[r].pc = "r_save" /\ req'[r].copy = Decided(x, k, d)
          /\ req'[r].goal = IF d = "rejected" THEN "FAILED" ELSE "PLANNING"
      BY <1>3, <3>1 DEF RequestRecord
    <3>3. i > 0 /\ i \in DOMAIN approvals /\ k \in x.pending /\ k \notin x.approved
      <4>1. i > 0
        BY <3>1 DEF GrantInv, IInv, RequestInv
      <4>2. Sound(approvals, x)
        BY DEF GrantInv
      <4>3. k \in x.pending \ x.approved
        BY <4>1, <4>2 DEF Sound
      <4> QED  BY <1>3, <4>1, <4>3
    <3>4. CASE d = "rejected"
      <4>1. Decided(x, k, d) = x
        BY <3>4 DEF Decided
      <4> QED  BY <1>1, <3>2, <3>4, <4>1
    <3>5. CASE d # "rejected"
      <4>1. /\ req'[r].copy.approved = x.approved \cup {k}
            /\ req'[r].copy.modified = IF d = "modified" THEN x.modified \cup {k} ELSE x.modified
            /\ req'[r].copy.pause = 0
        <5>1. x \in RunRecord /\ k \in x.pending /\ d # "rejected" /\ req'[r].copy = Decided(x, k, d)
          BY <1>3, <3>2, <3>3, <3>5
        <5> HIDE DEF x, k, d
        <5>2. /\ Decided(x, k, d).approved = x.approved \cup {k}
              /\ Decided(x, k, d).modified = IF d = "modified" THEN x.modified \cup {k}
                                             ELSE x.modified
              /\ Decided(x, k, d).pause = 0
          BY <5>1, DecidedGrants
        <5> QED  BY <5>1, <5>2
      <4>2. i \in DOMAIN approvals' /\ approvals'[i].call = k /\ d \in approvals'[i].taken
        <5>1. /\ approvals[i].status = "pending"
              /\ approvals' = [approvals EXCEPT ![i].status = d, ![i].taken = @ \cup {d}]
          BY <1>3, <2>5 DEF ResumeDecide, Answer
        <5>2. approvals[i] \in ApprovalRecord
          <6> DEFINE S == ApprovalRecord
          <6>1. approvals \in Seq(S) /\ i \in 1..Len(approvals)
            BY <1>0, <3>3 DEF IInv, TypeOK
          <6> HIDE DEF S, i
          <6>2. approvals[i] \in S
            BY <6>1
          <6> QED  BY <6>2 DEF S
        <5>3. /\ approvals'[i] = [approvals[i] EXCEPT !.status = d, !.taken = @ \cup {d}]
              /\ DOMAIN approvals' = DOMAIN approvals
          BY <3>3, <5>1
        <5> QED  BY <3>3, <5>2, <5>3 DEF ApprovalRecord
      <4>3. k \notin x.modified /\ Here(x)
        BY <1>1, <3>3 DEF Sound
      <4>4. ASSUME NEW c \in req'[r].copy.approved
            PROVE  \E j \in DOMAIN approvals' :
                      Granted(approvals'[j], c, c \in req'[r].copy.modified)
        <5>1. CASE c = k
          <6>1. d = "modified" <=> c \in req'[r].copy.modified
            BY <4>1, <4>3, <5>1
          <6> QED  BY <3>5, <4>2, <5>1, <6>1 DEF Granted
        <5>2. CASE c # k
          BY <4>1, <4>3, <5>2 DEF Sound
        <5> QED  BY <5>1, <5>2
      <4>5. req'[r].copy.modified \subseteq req'[r].copy.approved
        BY <4>1, <4>3 DEF Sound
      <4>6. Sound(approvals', req'[r].copy)
        BY <4>1, <4>4, <4>5 DEF Sound
      <4> QED  BY <3>2, <4>1, <4>6
    <3> QED  BY <3>4, <3>5
  <2> QED  BY <1>2, <2>1, <2>2, <2>3, <2>4, <2>5
<1>6. \A q \in Requests :
         /\ Here(req'[q].copy)
         /\ req'[q].pc = "r_save" /\ req'[q].goal # "FAILED" => req'[q].copy.pause = 0
  BY <1>1, <1>3, <1>5 DEF GrantInv
<1>7. /\ Sound(approvals', copy') /\ (pc' = "h_save" => PausedOnly(copy'))
      /\ pc' \in Unpaused => copy'.pause = 0
      /\ pc' \in ToInvoke /\ cur' \in NeedsApproval => cur' \in copy'.approved
  <2>1. copy' = copy /\ cur' = cur
    BY <1>3
  <2>2. pc' \in Unpaused \cup ToInvoke \cup {"h_save"} => pc' = pc
    BY <1>3 DEF Unpaused, Executing, ToolAwaits, ToolTry, ToInvoke
  <2> QED  BY <1>1, <2>1, <2>2 DEF GrantInv
<1> QED  BY <1>0, <1>4, <1>6, <1>7 DEF GrantInv

\* The process saves what it finds in the row, and finds it unpaused; a crash loses the
\* other copies.
LEMMA ProcessGrants ==
    ASSUME IInv, LifeInv, GrantInv, ProcessNext
    PROVE  GrantInv'
<1>1. /\ run \in RunRecord /\ copy \in RunRecord /\ run.pause \in Nat
      /\ UNCHANGED approvals
  BY RecordFacts, ProcessRecords
<1>2. Sound(approvals, NewRun) /\ NewRun.pause = 0
  BY DEF Sound, NewRun
<1>3. Sound(approvals, run') /\ PausedOnly(run')
  <2>1. CASE run' = run
    BY <2>1 DEF GrantInv
  <2>2. CASE run.status = ABSENT /\ run' = [NewRun EXCEPT !.status = "RECEIVED"]
    BY <2>2 DEF Sound, PausedOnly, NewRun
  <2>3. CASE /\ run.status \in RUNNABLE_STATUSES
             /\ run' = Saved(run, "TIMED_OUT") \/ run' = Saved(run, recovery_status(run.status))
    <3>1. run.pause = 0
      BY <1>1, <2>3 DEF GrantInv, PausedOnly, RUNNABLE_STATUSES, PAUSED_STATUSES
    <3>2. PICK t : run' = Saved(run, t)
      BY <2>3
    <3>3. /\ run'.approved = run.approved /\ run'.modified = run.modified
          /\ run'.pause = run.pause /\ run'.pending = run.pending
      BY <1>1, <3>2, SavedFields
    <3> QED  BY <3>1, <3>3 DEF GrantInv, Sound, PausedOnly
  <2> QED  BY <2>1, <2>2, <2>3, ProcessRecords
<1>4. /\ Sound(approvals, copy')
      /\ pc' = "h_save" => PausedOnly(copy')
      /\ pc' \in Unpaused => copy'.pause = 0
      /\ pc' \in ToInvoke /\ cur' \in NeedsApproval => cur' \in copy'.approved
      /\ \A r \in Requests :
            /\ Sound(approvals, req'[r].copy)
            /\ req'[r].pc = "r_save" /\ req'[r].goal # "FAILED" => req'[r].copy.pause = 0
  <2>1. CASE UNCHANGED <<copy, req, cur>> /\ pc' \in {pc, "boot"}
    BY <2>1 DEF GrantInv, Unpaused, Executing, ToolAwaits, ToolTry, ToInvoke
  <2>2. CASE pc' = "none" /\ copy' = NewRun /\ req' = [r \in Requests |-> IdleRequest]
    BY <1>2, <2>2 DEF IdleRequest, Unpaused, Executing, ToolAwaits, ToolTry, ToInvoke
  <2> QED  BY <2>1, <2>2, ProcessRecords
<1> QED  BY <1>1, <1>3, <1>4 DEF GrantInv

\* A call that needs approval is invoked only after resume took a decision on a request
\* for it other than a rejection, with the modified arguments exactly when that decision
\* modified them, for any number of requests that race to decide and any restarts in
\* between; and of the decisions resume documents it takes one.  Of the decisions it
\* does not document but takes, "pending" and "expired", each lets the call run as well.
THEOREM DecisionGateHolds == Spec => DecisionGate
<1>1. Init => GrantInv
  <2> SUFFICES ASSUME Init PROVE GrantInv
    OBVIOUS
  <2>1. /\ run = NewRun /\ copy = NewRun /\ pc = "none"
        /\ \A r \in Requests : req[r].copy = NewRun /\ req[r].pc = "idle"
    BY DEF Init, IdleRequest
  <2>2. Sound(approvals, NewRun) /\ PausedOnly(NewRun)
    BY DEF Sound, PausedOnly, NewRun
  <2>3. approvals = <<>>
    BY DEF Init
  <2> QED  BY <2>1, <2>2, <2>3 DEF GrantInv, Unpaused, Executing, ToolAwaits, ToolTry, ToInvoke
<1>2. IInv /\ LifeInv /\ GrantInv /\ [Next]_vars => GrantInv'
  <2> SUFFICES ASSUME IInv, LifeInv, GrantInv, [Next]_vars PROVE GrantInv'
    OBVIOUS
  <2>1. CASE UNCHANGED vars
    BY <2>1 DEF vars, stores, task, GrantInv, Sound, PausedOnly
  <2> QED  BY <2>1, DriverGrants, RequestGrants, ProcessGrants DEF Next
<1>3. IInv /\ GrantInv /\ [Next]_vars =>
         \A c \in NeedsApproval :
            invoked'[c] > invoked[c] =>
               \E i \in DOMAIN approvals : Opened(approvals[i], c, c \in copy.modified)
  <2> SUFFICES ASSUME IInv, GrantInv, [Next]_vars,
                      NEW c \in NeedsApproval, invoked'[c] > invoked[c]
               PROVE  \E i \in DOMAIN approvals : Opened(approvals[i], c, c \in copy.modified)
    OBVIOUS
  <2>0. invoked \in [Calls -> Nat] /\ c \in Calls /\ invoked[c] \in Nat
    BY CallsAssumption DEF IInv, TypeOK
  <2>1. Invoke \/ InvokeAgain
    BY <2>0, OnlyWorkCounts
  <2>2. c = cur /\ pc \in ToInvoke
    BY <2>0, <2>1 DEF Invoke, InvokeAgain, At, ToInvoke
  <2>3. c \in copy.approved /\ Sound(approvals, copy)
    BY <2>2 DEF GrantInv
  <2>4. PICK i \in DOMAIN approvals : Granted(approvals[i], c, c \in copy.modified)
    BY <2>3 DEF Sound
  <2>5. TakenOnce(approvals[i])
    BY DEF GrantInv
  <2> QED  BY <2>4, <2>5 DEF Granted, TakenOnce, Opened
<1> QED
  BY <1>1, <1>2, <1>3, InitInvariant, StepInvariant, EndInit, LifeStep, PTL
     DEF Spec, DecisionGate

=============================================================================
