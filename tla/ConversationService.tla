------------------------- MODULE ConversationService -------------------------
(***************************************************************************)
(* One conversation of ConversationService in one process: the submissions *)
(* of its turns, the response task of every turn, the edits of its record, *)
(* cancellation, shutdown, crash and recovery.  Every await is a point     *)
(* between two actions.  The service holds one response at a time, keeps   *)
(* the record by an optimistic save, and reconciles the messages a dead    *)
(* process left behind when the next one starts.                           *)
(***************************************************************************)
EXTENDS Integers, FiniteSets

CONSTANTS
    Turns,          \* the calls of submit, each with its assistant message
    Editors,        \* the calls of update
    None,           \* no task registered for the conversation
    RecoveryLimit,  \* recovery_limit of the container
    MaxFaults,      \* awaited calls that raise, or requests whose client leaves
    MaxRestarts     \* processes started after the first

ASSUME ConversationAssumption ==
    /\ None \notin Turns
    /\ RecoveryLimit \in Nat /\ MaxFaults \in Nat /\ MaxRestarts \in Nat

VARIABLES
    conv,        \* the stored conversation
    message,     \* by turn, the status of the stored assistant message
    run,         \* by turn, the run of the runtime that answers it
    submit,      \* by turn, where its submit is, and the conversation it read
    edit,        \* by editor, where its update is, the copy and the change
    task,        \* by turn, where its response task is
    cancelReq,   \* by turn, whether cancel() was called and is not yet delivered
    current,     \* _tasks[conversation.id]
    phase,       \* the life of the process
    drained,     \* the tasks shutdown waits for
    todo,        \* the messages recover has still to fail
    restarts, faults,
    edits,       \* the user's changes that were saved
    born,        \* by turn, the process that accepted it
    interrupted  \* turns whose response was in progress when the process stopped

store == <<conv, message, run>>
requests == <<submit, edit>>
tasks == <<task, cancelReq, current>>
process == <<phase, drained, todo, restarts>>
history == <<faults, edits, born, interrupted>>
vars == <<store, requests, tasks, process, history>>

Pending == {"accepted", "streaming"}
Ended == {"completed", "failed", "cancelled"}
MessageStatus == {"absent"} \cup Pending \cup Ended

Conversation == [title: {"New conversation", "auto", "user"},
                 status: {"active", "archived"}, version: Nat]

\* A run as its caller sees it.  "returned" has no error: it completed, or it timed
\* out, was cancelled or waits for approval, without output.  "stored" is not terminal
\* in the store and has no task; "resumed" goes on without a response.
Settled == {"returned", "failed"}
RunState == {"none", "stored", "resumed", "running", "stopping"} \cup Settled

\* The awaits of _respond_observed; those in InTry are inside its try block.
InTry == {"handling", "running", "answering", "reporting"}
TaskState == {"none", "created", "starting", "cancelling", "failing", "closing", "done"} \cup InTry

Holding == {"appending", "titling", "announcing"}  \* submit holds self._lock
Changes == {"title", "archive"}

Live(t) == task[t] \notin {"none", "done"}
Serving == phase \in {"up", "draining", "gathering", "closing"}

New == [title |-> "New conversation", status |-> "active", version |-> 0]

\* A call that returned or raised keeps nothing.
SubmitOver == [pc |-> "ended", snap |-> New]
EditOver == [pc |-> "ended", snap |-> New, change |-> "title"]

Init ==
    /\ conv = New
    /\ message = [t \in Turns |-> "absent"]
    /\ run = [t \in Turns |-> "none"]
    /\ submit = [t \in Turns |-> [pc |-> "idle", snap |-> New]]
    /\ edit = [e \in Editors |-> [pc |-> "idle", snap |-> New, change |-> "title"]]
    /\ task = [t \in Turns |-> "none"]
    /\ cancelReq = [t \in Turns |-> FALSE]
    /\ current = None
    /\ phase = "up" /\ drained = {} /\ todo = {}
    /\ restarts = 0 /\ faults = 0
    /\ edits = {} /\ born = [t \in Turns |-> 0] /\ interrupted = {}

-----------------------------------------------------------------------------
(* The record: ConversationStore.save and ConversationService.update. *)

\* Mutant: the stored version is not compared.
SaveAllowedMutant(c) == TRUE

\* save writes only over the version the caller read, and raises otherwise.
SaveAllowed(c) == conv.version = c.version

Saved(c) == [c EXCEPT !.version = @ + 1]

Titled(c, title) == [c EXCEPT !.title = title]
Archived(c) == [c EXCEPT !.status = "archived"]

EditRead(e, change) ==
    /\ Serving /\ edit[e].pc = "idle"
    /\ edit' = [edit EXCEPT ![e] = [pc |-> "saving", snap |-> conv, change |-> change]]
    /\ UNCHANGED <<store, submit, tasks, process, history>>

Edited(e) == IF edit[e].change = "title" THEN Titled(edit[e].snap, "user")
                                         ELSE Archived(edit[e].snap)

EditSave(e) ==
    /\ Serving /\ edit[e].pc = "saving"
    /\ edit' = [edit EXCEPT ![e] = EditOver]
    /\ \/ /\ SaveAllowed(edit[e].snap)
          /\ conv' = Saved(Edited(e))
          /\ edits' = edits \cup {edit[e].change}
       \/ /\ ~SaveAllowed(edit[e].snap)
          /\ UNCHANGED <<conv, edits>>
    /\ UNCHANGED <<message, run, submit, tasks, process, faults, born, interrupted>>

-----------------------------------------------------------------------------
(* submit *)

LockHeld == \E t \in Turns : submit[t].pc \in Holding

\* The conversation is read before the lock is taken.
SubmitRead(t) ==
    /\ phase = "up" /\ submit[t].pc = "idle"
    /\ submit' = [submit EXCEPT ![t] = [pc |-> "locking", snap |-> conv]]
    /\ UNCHANGED <<store, edit, tasks, process, history>>

Active == current # None /\ Live(current)

\* Mutant: the registered task is not looked at.
SubmitLockMutant(t) ==
    /\ Serving /\ submit[t].pc = "locking" /\ ~LockHeld
    /\ submit' = [submit EXCEPT ![t].pc = "appending"]
    /\ UNCHANGED <<store, edit, tasks, process, history>>

\* Under the lock, a conversation with an unfinished response is refused.
SubmitLock(t) ==
    /\ Serving /\ submit[t].pc = "locking" /\ ~LockHeld
    /\ submit' = [submit EXCEPT ![t] = IF Active THEN SubmitOver
                                              ELSE [@ EXCEPT !.pc = "appending"]]
    /\ UNCHANGED <<store, edit, tasks, process, history>>

\* The user message and the empty assistant message are stored.
SubmitAppend(t) ==
    /\ Serving /\ submit[t].pc = "appending"
    /\ message' = [message EXCEPT ![t] = "accepted"]
    /\ born' = [born EXCEPT ![t] = restarts]
    /\ submit' = [submit EXCEPT ![t].pc =
                    IF submit[t].snap.title = "New conversation" THEN "titling" ELSE "announcing"]
    /\ UNCHANGED <<conv, run, edit, tasks, process, faults, edits, interrupted>>

\* The first text becomes the title; a conflict leaves the accepted message behind.
SubmitTitle(t) ==
    /\ Serving /\ submit[t].pc = "titling"
    /\ \/ /\ SaveAllowed(submit[t].snap)
          /\ conv' = Saved(Titled(submit[t].snap, "auto"))
          /\ submit' = [submit EXCEPT ![t].pc = "announcing"]
       \/ /\ ~SaveAllowed(submit[t].snap)
          /\ submit' = [submit EXCEPT ![t] = SubmitOver]
          /\ UNCHANGED conv
    /\ UNCHANGED <<message, run, edit, tasks, process, history>>

\* The accepted event is out: the task is created and registered, the lock released.
SubmitSpawn(t) ==
    /\ Serving /\ submit[t].pc = "announcing"
    /\ submit' = [submit EXCEPT ![t] = SubmitOver]
    /\ task' = [task EXCEPT ![t] = "created"]
    /\ current' = t
    /\ UNCHANGED <<store, edit, cancelReq, process, history>>

\* An awaited call raises or the request is cancelled: the lock is released.
SubmitAborts(t) ==
    /\ Serving /\ faults < MaxFaults /\ submit[t].pc \in Holding \cup {"locking"}
    /\ submit' = [submit EXCEPT ![t] = SubmitOver]
    /\ faults' = faults + 1
    /\ UNCHANGED <<store, edit, tasks, process, edits, born, interrupted>>

-----------------------------------------------------------------------------
(* The response task.  Once cancel() was called its next step raises. *)

Resumes(t, pc) == Serving /\ task[t] = pc /\ ~cancelReq[t]

Goto(t, pc) == task' = [task EXCEPT ![t] = pc]

RespondStart(t) ==
    /\ Resumes(t, "created")
    /\ message' = [message EXCEPT ![t] = "streaming"]
    /\ Goto(t, "starting")
    /\ UNCHANGED <<conv, run, requests, cancelReq, current, process, history>>

RespondEnter(t) ==
    /\ Resumes(t, "starting")
    /\ Goto(t, "handling")
    /\ UNCHANGED <<store, requests, cancelReq, current, process, history>>

\* RuntimeConversationHandler.handle: the run is stored, then scheduled; a
\* runtime that shuts down refuses it.
CreateRun(t) ==
    /\ Resumes(t, "handling") /\ run[t] = "none"
    /\ \/ phase # "closing" /\ run' = [run EXCEPT ![t] = "stored"] /\ UNCHANGED task
       \/ phase = "closing" /\ Goto(t, "failing") /\ UNCHANGED run
    /\ UNCHANGED <<conv, message, requests, cancelReq, current, process, history>>

ScheduleRun(t) ==
    /\ Resumes(t, "handling") /\ run[t] = "stored"
    /\ run' = [run EXCEPT ![t] = "running"]
    /\ Goto(t, "running")
    /\ UNCHANGED <<conv, message, requests, cancelReq, current, process, history>>

\* The run returned: only a failed one has an error, which the handler raises.
RunReturned(t) ==
    /\ Resumes(t, "running") /\ run[t] \in Settled \cup {"stored"}
    /\ Goto(t, IF run[t] = "failed" THEN "failing" ELSE "answering")
    /\ UNCHANGED <<store, requests, cancelReq, current, process, history>>

RespondSave(t) ==
    /\ Resumes(t, "answering")
    /\ message' = [message EXCEPT ![t] = "completed"]
    /\ Goto(t, "reporting")
    /\ UNCHANGED <<conv, run, requests, cancelReq, current, process, history>>

RespondCancelled(t) ==
    /\ Resumes(t, "cancelling")
    /\ message' = [message EXCEPT ![t] = "cancelled"]
    /\ Goto(t, "closing")
    /\ UNCHANGED <<conv, run, requests, cancelReq, current, process, history>>

RespondFailed(t) ==
    /\ Resumes(t, "failing")
    /\ message' = [message EXCEPT ![t] = "failed"]
    /\ Goto(t, "closing")
    /\ UNCHANGED <<conv, run, requests, cancelReq, current, process, history>>

RespondEnd(t) ==
    /\ Resumes(t, "reporting") \/ Resumes(t, "closing")
    /\ Goto(t, "done")
    /\ UNCHANGED <<store, requests, cancelReq, current, process, history>>

\* An exception is caught inside the try block and ends the task elsewhere.
Unwind(t, handler) == Goto(t, IF task[t] \in InTry THEN handler ELSE "done")

\* A store, bus or handler call raises.
RespondFault(t) ==
    /\ Serving /\ Live(t) /\ ~cancelReq[t] /\ faults < MaxFaults
    /\ task[t] = "running" => run[t] \notin {"running", "stopping"}
    /\ Unwind(t, "failing")
    /\ faults' = faults + 1
    /\ UNCHANGED <<store, requests, cancelReq, current, process, edits, born, interrupted>>

\* _forget_task, the callback of a finished task: drops its own registration only.
ForgetTask(t) ==
    /\ Serving /\ task[t] = "done"
    /\ current = t
    /\ current' = None
    /\ UNCHANGED <<store, requests, task, cancelReq, process, history>>

-----------------------------------------------------------------------------
(* Cancellation *)

Cancel ==
    /\ Serving /\ Active
    /\ cancelReq' = [cancelReq EXCEPT ![current] = TRUE]
    /\ UNCHANGED <<store, requests, task, current, process, history>>

\* Mutant: a cancellation that finds the run in progress is lost.
CancelDeliveredMutant(t) ==
    /\ Serving /\ Live(t) /\ cancelReq[t]
    /\ cancelReq' = [cancelReq EXCEPT ![t] = FALSE]
    /\ IF task[t] = "running" THEN UNCHANGED task ELSE Unwind(t, "cancelling")
    /\ UNCHANGED <<store, requests, current, process, history>>

\* A task that awaits the task of its run passes the cancellation on: the run
\* stops and the response continues with its result.  A second one interrupts
\* the run's own cleanup and comes back as the exception.
CancelDelivered(t) ==
    /\ Serving /\ Live(t) /\ cancelReq[t]
    /\ cancelReq' = [cancelReq EXCEPT ![t] = FALSE]
    /\ LET stops  == task[t] = "running" /\ run[t] = "running"
           aborts == task[t] = "running" /\ run[t] = "stopping"
       IN  /\ run' = [run EXCEPT ![t] = IF stops THEN "stopping"
                                        ELSE IF aborts THEN "stored" ELSE @]
           /\ IF stops THEN UNCHANGED task ELSE Unwind(t, "cancelling")
    /\ UNCHANGED <<conv, message, requests, current, process, history>>

\* The runtime, seen from its caller: a run settles, and a stopping run is saved
\* as cancelled, which is no error, unless its end was already saved.
RunSettles(t, s) ==
    /\ Serving /\ run[t] = "running"
    /\ run' = [run EXCEPT ![t] = s]
    /\ UNCHANGED <<conv, message, requests, tasks, process, history>>

RunStops(t) ==
    /\ Serving /\ run[t] = "stopping"
    /\ \E s \in Settled : run' = [run EXCEPT ![t] = s]
    /\ UNCHANGED <<conv, message, requests, tasks, process, history>>

\* runtime.shutdown leaves a run that is still active resumable.
RunRewound(t) ==
    /\ phase = "closing" /\ run[t] \in {"running", "stopping"}
    /\ run' = [run EXCEPT ![t] = "stored"]
    /\ UNCHANGED <<conv, message, requests, tasks, process, history>>

-----------------------------------------------------------------------------
(* The process: Container.astart and aclose, shutdown and recover *)

\* Turns whose response is in progress and was not cancelled by the user.
InProgress == {t \in Turns : Live(t) /\ message[t] \in Pending /\ ~cancelReq[t]}

\* Mutant: shutdown takes what is registered without looking at it.
ShutdownMutant ==
    /\ phase = "up"
    /\ phase' = "draining"
    /\ drained' = {current}
    /\ UNCHANGED <<store, requests, tasks, todo, restarts, history>>

Shutdown ==
    /\ phase = "up"
    /\ phase' = "draining"
    /\ drained' = {t \in Turns : t = current /\ Live(t)}
    /\ UNCHANGED <<store, requests, tasks, todo, restarts, history>>

\* Mutant: tasks that outlive the grace period are awaited, not cancelled.
GraceExpiresMutant ==
    /\ phase = "draining" /\ \E t \in drained : Live(t)
    /\ phase' = "gathering"
    /\ interrupted' = interrupted \cup (drained \cap InProgress)
    /\ UNCHANGED <<store, requests, tasks, drained, todo, restarts, faults, edits, born>>

\* The grace period is over: what still runs is cancelled and awaited.
GraceExpires ==
    /\ phase = "draining" /\ \E t \in drained : Live(t)
    /\ phase' = "gathering"
    /\ cancelReq' = [t \in Turns |-> cancelReq[t] \/ (t \in drained /\ Live(t))]
    /\ interrupted' = interrupted \cup (drained \cap InProgress)
    /\ UNCHANGED <<store, requests, task, current, drained, todo, restarts, faults, edits, born>>

\* No awaited task is left: the runtime is shut down next.
Drained ==
    /\ phase \in {"draining", "gathering"} /\ \A t \in drained : ~Live(t)
    /\ phase' = "closing"
    /\ UNCHANGED <<store, requests, tasks, drained, todo, restarts, history>>

\* The process ends: tasks, requests and registrations are gone; a run that had
\* a task is in the store, not terminal.
Gone ==
    /\ phase' = "down"
    /\ task' = [t \in Turns |-> IF task[t] = "none" THEN "none" ELSE "done"]
    /\ cancelReq' = [t \in Turns |-> FALSE]
    /\ current' = None /\ drained' = {} /\ todo' = {}
    /\ submit' = [t \in Turns |-> IF submit[t].pc = "idle" THEN submit[t]
                                  ELSE SubmitOver]
    /\ edit' = [e \in Editors |-> IF edit[e].pc = "idle" THEN edit[e]
                                  ELSE EditOver]
    /\ run' = [t \in Turns |-> IF run[t] \in {"running", "stopping"} THEN "stored" ELSE run[t]]
    /\ interrupted' = interrupted \cup InProgress
    /\ UNCHANGED <<conv, message, restarts, faults, edits, born>>

Exit == phase = "closing" /\ (\A t \in Turns : run[t] \notin {"running", "stopping"}) /\ Gone

Crash == phase # "down" /\ restarts < MaxRestarts /\ Gone

\* Mutant: a message that was accepted and never started is not looked for.
PendingMessagesMutant == {t \in Turns : message[t] = "streaming"}

\* Mutant: cancelled responses count as interrupted.
PendingMessagesWideMutant == {t \in Turns : message[t] \in Pending \cup {"cancelled"}}

\* What pending_messages selects: assistant messages with an unfinished status.
PendingMessages == {t \in Turns : message[t] \in Pending}

\* runtime.recover resumes every stored run; conversations.recover reads at most
\* the limit of pending messages.
Restart ==
    /\ phase = "down" /\ restarts < MaxRestarts
    /\ phase' = "starting" /\ restarts' = restarts + 1
    /\ run' = [t \in Turns |-> IF run[t] = "stored" THEN "resumed" ELSE run[t]]
    /\ \E read \in SUBSET PendingMessages :
          /\ Cardinality(read) <= RecoveryLimit
          /\ read # PendingMessages => Cardinality(read) = RecoveryLimit
          /\ todo' = read
    /\ UNCHANGED <<conv, message, requests, tasks, drained, history>>

Recover(t) ==
    /\ phase = "starting" /\ t \in todo
    /\ message' = [message EXCEPT ![t] = "failed"]
    /\ todo' = todo \ {t}
    /\ UNCHANGED <<conv, run, requests, tasks, phase, drained, restarts, history>>

Ready ==
    /\ phase = "starting" /\ todo = {}
    /\ phase' = "up"
    /\ UNCHANGED <<store, requests, tasks, drained, todo, restarts, history>>

-----------------------------------------------------------------------------

EditStep(e) == (\E change \in Changes : EditRead(e, change)) \/ EditSave(e)

SubmitStep(t) ==
    SubmitLock(t) \/ SubmitAppend(t) \/ SubmitTitle(t) \/ SubmitSpawn(t)

RespondStep(t) ==
    \/ RespondStart(t) \/ RespondEnter(t) \/ CreateRun(t) \/ ScheduleRun(t)
    \/ RunReturned(t) \/ RespondSave(t) \/ RespondCancelled(t) \/ RespondFailed(t)
    \/ RespondEnd(t)

ProcessStep == Drained \/ GraceExpires \/ Exit \/ Ready

Next ==
    \/ \E e \in Editors : EditStep(e)
    \/ \E t \in Turns :
          \/ SubmitRead(t) \/ SubmitStep(t) \/ SubmitAborts(t)
          \/ RespondStep(t) \/ RespondFault(t) \/ ForgetTask(t) \/ CancelDelivered(t)
          \/ (\E s \in Settled : RunSettles(t, s)) \/ RunStops(t) \/ RunRewound(t)
          \/ Recover(t)
    \/ Cancel \/ Shutdown \/ Crash \/ Restart \/ ProcessStep

Spec == Init /\ [][Next]_vars

\* The event loop runs what is ready and timers fire; a run need never settle
\* by itself (no fairness on RunSettles), clients need not act, nothing must fail.
Fairness ==
    /\ \A t \in Turns :
          /\ WF_vars(SubmitStep(t)) /\ WF_vars(RespondStep(t)) /\ WF_vars(CancelDelivered(t))
          /\ WF_vars(RunStops(t)) /\ WF_vars(RunRewound(t)) /\ WF_vars(Recover(t))
    /\ WF_vars(ProcessStep)

-----------------------------------------------------------------------------
(* Properties *)

\* Every variable has its type.
TypeOK ==
    /\ conv \in Conversation
    /\ message \in [Turns -> MessageStatus]
    /\ run \in [Turns -> RunState]
    /\ submit \in [Turns -> [pc: Holding \cup {"idle", "locking", "ended"}, snap: Conversation]]
    /\ edit \in [Editors -> [pc: {"idle", "saving", "ended"}, snap: Conversation, change: Changes]]
    /\ task \in [Turns -> TaskState]
    /\ cancelReq \in [Turns -> BOOLEAN]
    /\ current \in Turns \cup {None}
    /\ phase \in {"up", "draining", "gathering", "closing", "down", "starting"}
    /\ drained \subseteq Turns /\ todo \subseteq Turns
    /\ restarts \in 0..MaxRestarts /\ faults \in 0..MaxFaults
    /\ edits \subseteq Changes /\ born \in [Turns -> 0..MaxRestarts] /\ interrupted \subseteq Turns

\* Two responses of one conversation never run at the same time, and the one that
\* runs is the one cancel and shutdown find in _tasks, whatever submissions wait for
\* the lock and whenever the callbacks of finished tasks run.
OneResponseAtATime == \A t \in Turns : Live(t) => current = t

\* A change a user saved with update stays: neither the automatic title, which
\* submit derives from a conversation it read before it waited for the lock, nor an
\* update that read an older copy, puts the former value back.
EditsKept ==
    /\ "title" \in edits => conv.title = "user"
    /\ "archive" \in edits => conv.status = "archived"

\* A process that serves after a restart has no unfinished message of an earlier
\* process: recover has failed them all, wherever the crash hit (up to its limit).
RecoveryIsComplete ==
    Serving => \A t \in Turns : message[t] \in Pending => born[t] = restarts

\* Once the response task is over, the status it left is not changed by anybody:
\* not by a later turn, a late cancel, or the recovery of a later process.
EndStatusKept ==
    [][\A t \in Turns : message[t] \in Ended /\ ~Live(t) => message'[t] = message[t]]_vars

\* A shutdown ends, even when a run never settles: the grace period expires, the
\* cancellation reaches the task and unblocks the await, and the process exits.
ServiceStops == (phase = "draining") ~> (phase = "down")

\* A response that was cancelled ends, wherever the cancellation found it.
CancelEndsResponse == \A t \in Turns : cancelReq[t] ~> ~Live(t)

\* What docs/operations.md says: a response that was in progress when the process
\* restarted is marked failed.
InterruptedIsRetryable ==
    phase = "up" => \A t \in interrupted : message[t] = "failed"
=============================================================================
