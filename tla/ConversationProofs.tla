-------------------------- MODULE ConversationProofs --------------------------
(***************************************************************************)
(* For any number of turns and editors: the types, one response at a time, *)
(* saved edits that stay, a recovery that leaves nothing unfinished, and   *)
(* the end status of a response that stays.                                *)
(***************************************************************************)
EXTENDS ConversationService, FiniteSetTheorems, TLAPS

\* Only one submit is between the lock and its release, and while it is there no
\* response runs.
LockInv ==
    \A t \in Turns : submit[t].pc \in Holding =>
        /\ \A u \in Turns : ~Live(u)
        /\ \A u \in Turns : submit[u].pc \in Holding => u = t

\* A copy with the stored version is the stored conversation, and no copy is newer.
Fresh(c) == c.version <= conv.version /\ (c.version = conv.version => c = conv)

CopiesInv ==
    /\ \A t \in Turns : submit[t].pc \notin {"idle", "ended"} => Fresh(submit[t].snap)
    /\ \A e \in Editors : edit[e].pc = "saving" => Fresh(edit[e].snap)

\* The automatic title is only for a copy that has the default one.
TitlingInv ==
    \A t \in Turns : submit[t].pc = "titling" => submit[t].snap.title = "New conversation"

IInv == TypeOK /\ OneResponseAtATime /\ LockInv /\ CopiesInv /\ TitlingInv /\ EditsKept

-----------------------------------------------------------------------------
(* Frames: steps that leave the parts of the invariant alone. *)

\* A step that leaves the record, the requests and the edits alone.
RecordFrame == UNCHANGED <<conv, submit, edit, edits>>

\* A step of response tasks: none comes to life, the registration stays.
TaskFrame ==
    /\ \A t \in Turns : task'[t] \notin {"none", "done"} => Live(t)
    /\ current' = current

\* With the record untouched and no task coming to life, the invariant stays.
LEMMA FrameKeeps ==
    ASSUME IInv, TypeOK', RecordFrame, TaskFrame
    PROVE  IInv'
<1> USE DEF IInv, RecordFrame, TaskFrame
<1>1. OneResponseAtATime'  BY DEF OneResponseAtATime, Live
<1>2. LockInv'  BY DEF LockInv, Live
<1>3. CopiesInv'  BY DEF CopiesInv, Fresh
<1>4. TitlingInv' /\ EditsKept'  BY DEF TitlingInv, EditsKept
<1> QED BY <1>1, <1>2, <1>3, <1>4

\* What the changes of a record are records of.
LEMMA RecordTypes ==
    /\ New \in Conversation
    /\ \A c \in Conversation :
          /\ Saved(c) \in Conversation /\ Archived(c) \in Conversation
          /\ Titled(c, "auto") \in Conversation /\ Titled(c, "user") \in Conversation
<1>1. New \in Conversation  BY DEF New, Conversation
<1>2. ASSUME NEW c \in Conversation
      PROVE  /\ Saved(c) \in Conversation /\ Archived(c) \in Conversation
             /\ Titled(c, "auto") \in Conversation /\ Titled(c, "user") \in Conversation
  <2>1. Saved(c) \in Conversation
    <3>1. c.version \in Nat  BY DEF Conversation
    <3>2. c.version + 1 \in Nat  BY <3>1
    <3> QED BY <3>2, Zenon DEF Saved, Conversation
  <2>2. Archived(c) \in Conversation  BY DEF Archived, Conversation
  <2>3. Titled(c, "auto") \in Conversation  BY DEF Titled, Conversation
  <2>4. Titled(c, "user") \in Conversation  BY DEF Titled, Conversation
  <2> QED BY <2>1, <2>2, <2>3, <2>4
<1> QED BY <1>1, <1>2

-----------------------------------------------------------------------------
(* The type invariant. *)

\* The steps of update keep the types.
LEMMA EditTypes ==
    ASSUME TypeOK, NEW e \in Editors, EditStep(e)
    PROVE  TypeOK'
<1> USE RecordTypes DEF TypeOK, Changes, store, tasks, process, history, EditOver
<1>1. ASSUME NEW change \in Changes, EditRead(e, change) PROVE TypeOK'
      BY <1>1 DEF EditRead
<1>2. ASSUME EditSave(e) PROVE TypeOK'
  <2>1. Edited(e) \in Conversation  BY DEF Edited
  <2>2. edit' \in [Editors -> [pc: {"idle", "saving", "ended"}, snap: Conversation, change: Changes]]
        BY <1>2 DEF EditSave
  <2>3. conv' \in Conversation /\ edits' \subseteq Changes  BY <1>2, <2>1 DEF EditSave
  <2> QED BY <1>2, <2>2, <2>3 DEF EditSave
<1> QED BY <1>1, <1>2 DEF EditStep

\* The steps of submit keep the types.
LEMMA SubmitTypes ==
    ASSUME TypeOK, NEW t \in Turns, SubmitRead(t) \/ SubmitStep(t) \/ SubmitAborts(t)
    PROVE  TypeOK'
<1> USE RecordTypes, ConversationAssumption
    DEF TypeOK, store, tasks, process, history, SubmitOver, Holding
<1>1. CASE SubmitRead(t)  BY <1>1 DEF SubmitRead
<1>2. CASE SubmitLock(t)  BY <1>2 DEF SubmitLock
<1>3. CASE SubmitAppend(t)  BY <1>3, ZenonT(40) DEF SubmitAppend, MessageStatus, Pending
<1>4. CASE SubmitTitle(t)
  <2>1. Saved(Titled(submit[t].snap, "auto")) \in Conversation  OBVIOUS
  <2>2. conv' \in Conversation  BY <1>4, <2>1 DEF SubmitTitle
  <2>3. CASE submit' = [submit EXCEPT ![t].pc = "announcing"]
        BY <1>4, <2>2, <2>3 DEF SubmitTitle
  <2>4. CASE submit' = [submit EXCEPT ![t] = SubmitOver]
        BY <1>4, <2>2, <2>4 DEF SubmitTitle
  <2> QED BY <1>4, <2>3, <2>4 DEF SubmitTitle
<1>5. CASE SubmitSpawn(t)  BY <1>5 DEF SubmitSpawn, TaskState
<1>6. CASE SubmitAborts(t)  BY <1>6 DEF SubmitAborts
<1> QED BY <1>1, <1>2, <1>3, <1>4, <1>5, <1>6 DEF SubmitStep

\* What a response task, its run and cancellation do.
TaskStep(t) ==
    \/ RespondStep(t) \/ RespondFault(t) \/ CancelDelivered(t)
    \/ (\E s \in Settled : RunSettles(t, s)) \/ RunStops(t) \/ RunRewound(t)

\* The steps of a response task, its run and cancellation keep the types.
LEMMA TaskTypes ==
    ASSUME TypeOK, NEW t \in Turns, TaskStep(t)
    PROVE  TypeOK'
<1> USE ConversationAssumption
    DEF TypeOK, store, requests, tasks, process, history, Goto, TaskState, InTry
<1>1. CASE RespondStart(t)  BY <1>1 DEF RespondStart, MessageStatus, Pending
<1>2. CASE RespondEnter(t)  BY <1>2 DEF RespondEnter
<1>3. CASE CreateRun(t)  BY <1>3 DEF CreateRun, RunState
<1>4. CASE ScheduleRun(t)  BY <1>4 DEF ScheduleRun, RunState
<1>5. CASE RunReturned(t)  BY <1>5 DEF RunReturned
<1>6. CASE RespondSave(t)  BY <1>6 DEF RespondSave, MessageStatus, Ended
<1>7. CASE RespondCancelled(t)  BY <1>7 DEF RespondCancelled, MessageStatus, Ended
<1>8. CASE RespondFailed(t)  BY <1>8 DEF RespondFailed, MessageStatus, Ended
<1>9. CASE RespondEnd(t)  BY <1>9 DEF RespondEnd
<1>10. CASE RespondFault(t)  BY <1>10 DEF RespondFault, Unwind
<1>11. CASE CancelDelivered(t)
  <2>1. cancelReq' \in [Turns -> BOOLEAN]  BY <1>11 DEF CancelDelivered
  <2>2. run' \in [Turns -> RunState]  BY <1>11 DEF CancelDelivered, RunState
  <2>3. task' \in [Turns -> TaskState]  BY <1>11 DEF CancelDelivered, Unwind
  <2> QED BY <1>11, <2>1, <2>2, <2>3 DEF CancelDelivered
<1>12. CASE \E s \in Settled : RunSettles(t, s)  BY <1>12 DEF RunSettles, RunState
<1>13. CASE RunStops(t)  BY <1>13 DEF RunStops, RunState
<1>14. CASE RunRewound(t)  BY <1>14 DEF RunRewound, RunState
<1> QED BY <1>1, <1>2, <1>3, <1>4, <1>5, <1>6, <1>7, <1>8, <1>9, <1>10, <1>11, <1>12,
           <1>13, <1>14 DEF TaskStep, RespondStep

\* The end of the process keeps the types.
LEMMA GoneTypes ==
    ASSUME TypeOK, Gone
    PROVE  TypeOK'
<1> USE RecordTypes DEF TypeOK, Gone
<1>1. submit' \in [Turns -> [pc: Holding \cup {"idle", "locking", "ended"}, snap: Conversation]]
      BY DEF SubmitOver
<1>2. edit' \in [Editors -> [pc: {"idle", "saving", "ended"}, snap: Conversation, change: Changes]]
      BY DEF EditOver, Changes
<1>3. task' \in [Turns -> TaskState] /\ cancelReq' \in [Turns -> BOOLEAN]  BY DEF TaskState
<1>4. run' \in [Turns -> RunState]  BY DEF RunState
<1>5. interrupted' \subseteq Turns  BY DEF InProgress
<1> QED BY <1>1, <1>2, <1>3, <1>4, <1>5

\* What the process does: shutdown, crash, restart and recovery.
LifeStep ==
    \/ Cancel \/ Shutdown \/ Crash \/ Restart \/ ProcessStep
    \/ \E t \in Turns : ForgetTask(t) \/ Recover(t)

\* The steps of the process keep the types.
LEMMA LifeTypes ==
    ASSUME TypeOK, LifeStep
    PROVE  TypeOK'
<1> USE ConversationAssumption DEF TypeOK, store, requests, tasks, process, history
<1>1. CASE Cancel  BY <1>1 DEF Cancel
<1>2. CASE Shutdown  BY <1>2 DEF Shutdown
<1>3. CASE Crash \/ Exit  BY <1>3, GoneTypes DEF Crash, Exit
<1>4. CASE Restart
  <2>1. run' \in [Turns -> RunState]  BY <1>4 DEF Restart, RunState
  <2>2. todo' \subseteq Turns  BY <1>4 DEF Restart, PendingMessages
  <2>3. restarts' \in 0..MaxRestarts  BY <1>4 DEF Restart
  <2> QED BY <1>4, <2>1, <2>2, <2>3 DEF Restart
<1>5. CASE Drained  BY <1>5 DEF Drained
<1>6. CASE GraceExpires
  <2>1. cancelReq' \in [Turns -> BOOLEAN]  BY <1>6, Zenon DEF GraceExpires, Live
  <2> QED BY <1>6, <2>1 DEF GraceExpires, InProgress
<1>7. CASE Ready  BY <1>7 DEF Ready
<1>8. CASE \E t \in Turns : ForgetTask(t)  BY <1>8 DEF ForgetTask
<1>9. CASE \E t \in Turns : Recover(t)  BY <1>9 DEF Recover, MessageStatus, Ended
<1> QED BY <1>1, <1>2, <1>3, <1>4, <1>5, <1>6, <1>7, <1>8, <1>9 DEF LifeStep, ProcessStep

-----------------------------------------------------------------------------
(* The record and the lock, one family of actions after the other. *)

\* A copy stays older than a record that is saved again.
LEMMA SavedIsNewer ==
    ASSUME conv \in Conversation, conv'.version = conv.version + 1,
           NEW c \in Conversation, Fresh(c)
    PROVE  Fresh(c)'
<1>1. c.version \in Nat /\ conv.version \in Nat  BY DEF Conversation
<1>2. c.version <= conv.version  BY DEF Fresh
<1>3. c.version <= conv'.version /\ c.version # conv'.version  BY <1>1, <1>2
<1> QED BY <1>3 DEF Fresh

\* The steps of update keep the invariant.
LEMMA EditKeeps ==
    ASSUME IInv, NEW e \in Editors, EditStep(e)
    PROVE  IInv'
<1> USE DEF IInv
<1>1. TypeOK'  BY EditTypes
<1>2. UNCHANGED <<task, current, submit>>
      BY DEF EditStep, EditRead, EditSave, tasks
<1>3. OneResponseAtATime' /\ LockInv' /\ TitlingInv'
      BY <1>2 DEF OneResponseAtATime, LockInv, TitlingInv, Live
<1>4. CopiesInv' /\ EditsKept'
  <2>1. ASSUME NEW change \in Changes, EditRead(e, change) PROVE CopiesInv' /\ EditsKept'
    <3>1. UNCHANGED <<conv, edits>>  BY <2>1 DEF EditRead, store, history
    <3>2. \A u \in Editors : edit'[u].pc = "saving" =>
              edit'[u].snap = conv \/ (edit'[u] = edit[u] /\ edit[u].pc = "saving")
          BY <2>1 DEF EditRead, TypeOK
    <3>3. conv.version \in Nat  BY DEF TypeOK, Conversation
    <3>4. CopiesInv'  BY <3>1, <3>2, <3>3, <1>2 DEF CopiesInv, Fresh
    <3> QED BY <3>1, <3>4 DEF EditsKept
  <2>2. ASSUME EditSave(e), SaveAllowed(edit[e].snap) PROVE CopiesInv' /\ EditsKept'
    <3>1. edit[e].snap = conv  BY <2>2 DEF EditSave, SaveAllowed, CopiesInv, Fresh
    <3>2. conv' = Saved(Edited(e)) /\ edits' = edits \cup {edit[e].change}
          BY <2>2 DEF EditSave
    <3>3. conv'.version = conv.version + 1
          BY <3>1, <3>2 DEF Saved, Edited, Titled, Archived, TypeOK, Conversation
    <3>4. CopiesInv'
      <4>1. \A u \in Editors : edit'[u].pc = "saving" => edit'[u] = edit[u] /\ edit[u].pc = "saving"
            BY <2>2 DEF EditSave, EditOver, TypeOK
      <4>2. \A c \in Conversation : Fresh(c) => Fresh(c)'  BY <3>3, SavedIsNewer DEF TypeOK
      <4> QED BY <4>1, <4>2, <1>2 DEF CopiesInv, TypeOK
    <3>5. EditsKept'
          BY <3>1, <3>2 DEF EditsKept, Saved, Edited, Titled, Archived, TypeOK, Conversation, Changes
    <3> QED BY <3>4, <3>5
  <2>3. ASSUME EditSave(e), ~SaveAllowed(edit[e].snap) PROVE CopiesInv' /\ EditsKept'
        BY <2>3, <1>2 DEF EditSave, EditOver, TypeOK, CopiesInv, Fresh, EditsKept
  <2> QED BY <2>1, <2>2, <2>3 DEF EditStep
<1> QED BY <1>1, <1>3, <1>4

\* The steps of submit keep the invariant.
LEMMA SubmitKeeps ==
    ASSUME IInv, NEW t \in Turns, SubmitRead(t) \/ SubmitStep(t) \/ SubmitAborts(t)
    PROVE  IInv'
<1> USE DEF IInv
<1>1. TypeOK'  BY SubmitTypes
<1>2. \A u \in Turns \ {t} : submit'[u] = submit[u]
      BY DEF SubmitRead, SubmitStep, SubmitLock, SubmitAppend, SubmitTitle, SubmitSpawn,
             SubmitAborts, TypeOK
<1>3. UNCHANGED edit /\ UNCHANGED edits
      BY DEF SubmitRead, SubmitStep, SubmitLock, SubmitAppend, SubmitTitle, SubmitSpawn,
             SubmitAborts, history
<1>titled. (submit'[t].pc = "titling" => submit'[t].snap.title = "New conversation") => TitlingInv'
  <2> SUFFICES ASSUME submit'[t].pc = "titling" => submit'[t].snap.title = "New conversation",
                      NEW u \in Turns, submit'[u].pc = "titling"
               PROVE  submit'[u].snap.title = "New conversation"
      BY Zenon DEF TitlingInv
  <2>1. CASE u # t
    <3>1. submit'[u] = submit[u]  BY <2>1, <1>2
    <3> QED BY <3>1, Zenon DEF TitlingInv
  <2> QED BY <2>1, Zenon
<1>4. CASE SubmitRead(t)
  <2>1. UNCHANGED <<conv, task, current>> /\ submit'[t] = [pc |-> "locking", snap |-> conv]
        BY <1>4 DEF SubmitRead, store, tasks, TypeOK
  <2>2. OneResponseAtATime' /\ LockInv' /\ EditsKept'
        BY <2>1, <1>2, <1>3 DEF OneResponseAtATime, LockInv, EditsKept, Live, Holding
  <2>titling. TitlingInv'  BY <2>1, <1>titled
  <2>3. conv.version \in Nat  BY DEF TypeOK, Conversation
  <2>4. CopiesInv'  BY <2>1, <2>3, <1>2, <1>3 DEF CopiesInv, Fresh
  <2> QED BY <1>1, <2>2, <2>4, <2>titling
<1>5. CASE SubmitLock(t)
  <2>1. /\ UNCHANGED <<conv, task, current>>
        /\ submit[t].pc = "locking" /\ ~LockHeld
        /\ submit'[t] = IF Active THEN SubmitOver ELSE [submit[t] EXCEPT !.pc = "appending"]
        BY <1>5 DEF SubmitLock, store, tasks, TypeOK
  <2>2. ~Active => \A u \in Turns : ~Live(u)
        BY ConversationAssumption DEF OneResponseAtATime, Active
  <2>3. submit'[t].pc = "ended" \/ (~Active /\ submit'[t].pc = "appending" /\ submit'[t].snap = submit[t].snap)
        BY <2>1 DEF SubmitOver, TypeOK
  <2>4. OneResponseAtATime' /\ EditsKept'  BY <2>1, <1>3 DEF OneResponseAtATime, EditsKept, Live
  <2>5. LockInv'  BY <2>1, <2>2, <2>3, <1>2 DEF LockInv, LockHeld, Live, Holding
  <2>6. TitlingInv'
    <3>1. submit'[t].pc # "titling"  BY <2>3
    <3> QED BY <3>1, <1>titled
  <2>7. CopiesInv'
    <3>1. submit'[t].pc = "ended" \/ submit'[t].snap = submit[t].snap  BY <2>3
    <3> QED BY <2>1, <3>1, <1>2, <1>3 DEF CopiesInv, Fresh
  <2> QED BY <1>1, <2>4, <2>5, <2>6, <2>7
<1>6. CASE SubmitAppend(t)
  <2>1. /\ UNCHANGED <<conv, task, current>>
        /\ submit[t].pc = "appending" /\ submit'[t].snap = submit[t].snap
        /\ submit'[t].pc = IF submit[t].snap.title = "New conversation" THEN "titling" ELSE "announcing"
        BY <1>6 DEF SubmitAppend, tasks, TypeOK
  <2>2. OneResponseAtATime' /\ LockInv' /\ EditsKept'
        BY <2>1, <1>2, <1>3, ZenonT(40) DEF OneResponseAtATime, LockInv, EditsKept, Live, Holding
  <2>titling. TitlingInv'  BY <2>1, <1>titled
  <2>3. CopiesInv'  BY <2>1, <1>2, <1>3 DEF CopiesInv, Fresh
  <2> QED BY <1>1, <2>2, <2>3, <2>titling
<1>7. CASE SubmitTitle(t)
  <2>1. UNCHANGED <<task, current>> /\ submit[t].pc = "titling"
        BY <1>7 DEF SubmitTitle, tasks
  <2>2. submit'[t].pc = "ended" \/ (submit'[t].pc = "announcing" /\ submit'[t].snap = submit[t].snap)
        BY <1>7 DEF SubmitTitle, SubmitOver, TypeOK
  <2>3. OneResponseAtATime' /\ LockInv' /\ TitlingInv'
    <3>1. TitlingInv'  BY <2>2, <1>titled
    <3>2. OneResponseAtATime' /\ LockInv'
          BY <2>1, <2>2, <1>2 DEF OneResponseAtATime, LockInv, Live, Holding
    <3> QED BY <3>1, <3>2
  <2>4. CASE SaveAllowed(submit[t].snap)
    <3>1. submit[t].snap = conv  BY <2>1, <2>4 DEF SaveAllowed, CopiesInv, Fresh
    <3>2. conv.title = "New conversation"  BY <2>1, <3>1 DEF TitlingInv
    <3>3. conv' = Saved(Titled(conv, "auto"))  BY <1>7, <2>4, <3>1 DEF SubmitTitle
    <3>4. conv'.version = conv.version + 1 /\ conv'.status = conv.status
          BY <3>3 DEF Saved, Titled, TypeOK, Conversation
    <3>5. EditsKept'  BY <3>2, <3>4, <1>3 DEF EditsKept
    <3>6. \A c \in Conversation : Fresh(c) => Fresh(c)'  BY <3>4, SavedIsNewer DEF TypeOK
    <3>7. CopiesInv'  BY <2>1, <2>2, <3>6, <1>2, <1>3 DEF CopiesInv, TypeOK
    <3> QED BY <1>1, <2>3, <3>5, <3>7
  <2>5. CASE ~SaveAllowed(submit[t].snap)
    <3>1. UNCHANGED conv  BY <1>7, <2>5 DEF SubmitTitle
    <3>2. CopiesInv' /\ EditsKept'  BY <2>1, <2>2, <3>1, <1>2, <1>3 DEF CopiesInv, Fresh, EditsKept
    <3> QED BY <1>1, <2>3, <3>2
  <2> QED BY <2>4, <2>5
<1>8. CASE SubmitSpawn(t)
  <2>1. /\ UNCHANGED conv /\ submit[t].pc = "announcing" /\ submit'[t].pc = "ended"
        /\ current' = t /\ \A u \in Turns \ {t} : task'[u] = task[u]
        BY <1>8 DEF SubmitSpawn, store, SubmitOver, TypeOK
  <2>2. /\ \A u \in Turns : ~Live(u)
        /\ \A u \in Turns \ {t} : submit[u].pc \notin Holding
        BY <2>1 DEF LockInv, Holding
  <2>3. OneResponseAtATime'  BY <2>1, <2>2 DEF OneResponseAtATime, Live
  <2>4. LockInv'  BY <2>1, <2>2, <1>2 DEF LockInv, Holding
  <2>5. TitlingInv' /\ EditsKept'  BY <2>1, <1>2, <1>3 DEF TitlingInv, EditsKept
  <2>6. CopiesInv'  BY <2>1, <1>2, <1>3 DEF CopiesInv, Fresh
  <2> QED BY <1>1, <2>3, <2>4, <2>5, <2>6
<1>9. CASE SubmitAborts(t)
  <2>1. UNCHANGED <<conv, task, current>> /\ submit'[t].pc = "ended"
        BY <1>9 DEF SubmitAborts, store, tasks, SubmitOver, TypeOK
  <2>2. OneResponseAtATime' /\ LockInv' /\ EditsKept'
        BY <2>1, <1>2, <1>3 DEF OneResponseAtATime, LockInv, EditsKept, Live, Holding
  <2>titling. TitlingInv'  BY <2>1, <1>titled
  <2>3. CopiesInv'  BY <2>1, <1>2, <1>3 DEF CopiesInv, Fresh
  <2> QED BY <1>1, <2>2, <2>3, <2>titling
<1> QED BY <1>4, <1>5, <1>6, <1>7, <1>8, <1>9 DEF SubmitStep

\* A response task, its run and cancellation keep the invariant: a task that is
\* alive was alive.
LEMMA TaskKeeps ==
    ASSUME IInv, NEW t \in Turns, TaskStep(t)
    PROVE  IInv'
<1>1. TypeOK'  BY TaskTypes DEF IInv
<1>2. RecordFrame /\ UNCHANGED current
      BY DEF RecordFrame, TaskStep, RespondStep, RespondStart, RespondEnter, CreateRun, ScheduleRun,
             RunReturned, RespondSave, RespondCancelled, RespondFailed, RespondEnd, RespondFault,
             CancelDelivered, RunSettles, RunStops, RunRewound, store, requests, tasks, history
<1>3. UNCHANGED task \/ (Live(t) /\ \E pc \in TaskState : Goto(t, pc))
  <2> USE DEF Resumes, TaskState, InTry, Live, store, tasks
  <2>1. CASE RespondStep(t)
    <3> USE DEF RespondStep
    <3>1. CASE CreateRun(t)  BY <3>1 DEF CreateRun
    <3>2. CASE RunReturned(t)  BY <3>2 DEF RunReturned
    <3>3. CASE RespondEnd(t)  BY <3>3 DEF RespondEnd
    <3>4. CASE RespondStart(t) \/ RespondEnter(t) \/ ScheduleRun(t)
          BY <3>4 DEF RespondStart, RespondEnter, ScheduleRun
    <3>5. CASE RespondSave(t) \/ RespondCancelled(t) \/ RespondFailed(t)
          BY <3>5 DEF RespondSave, RespondCancelled, RespondFailed
    <3> QED BY <2>1, <3>1, <3>2, <3>3, <3>4, <3>5
  <2>2. CASE RespondFault(t)  BY <2>2 DEF RespondFault, Unwind
  <2>3. CASE CancelDelivered(t)  BY <2>3 DEF CancelDelivered, Unwind
  <2>4. CASE (\E s \in Settled : RunSettles(t, s)) \/ RunStops(t) \/ RunRewound(t)
        BY <2>4 DEF RunSettles, RunStops, RunRewound
  <2> QED BY <2>1, <2>2, <2>3, <2>4 DEF TaskStep
<1>4. TaskFrame  BY <1>2, <1>3 DEF TaskFrame, Goto, Live, IInv, TypeOK
<1> QED BY <1>1, <1>2, <1>4, FrameKeeps

\* The steps of the process keep the invariant.
LEMMA LifeKeeps ==
    ASSUME IInv, LifeStep
    PROVE  IInv'
<1>1. TypeOK'  BY LifeTypes DEF IInv
<1>2. CASE Cancel \/ Shutdown \/ Restart \/ Drained \/ GraceExpires \/ Ready
  <2>1. RecordFrame /\ UNCHANGED <<task, current>>
        BY <1>2 DEF RecordFrame, Cancel, Shutdown, Restart, Drained, GraceExpires, Ready,
                    store, requests, tasks, history
  <2> QED BY <1>1, <2>1, FrameKeeps DEF TaskFrame, Live
<1>3. CASE \E t \in Turns : Recover(t)
  <2>1. RecordFrame /\ UNCHANGED <<task, current>>
        BY <1>3 DEF RecordFrame, Recover, requests, tasks, history
  <2> QED BY <1>1, <2>1, FrameKeeps DEF TaskFrame, Live
<1>4. CASE \E t \in Turns : ForgetTask(t)
  <2>1. PICK t \in Turns : ForgetTask(t)  BY <1>4
  <2>2. RecordFrame /\ UNCHANGED task /\ current = t /\ ~Live(t)
        BY <2>1 DEF ForgetTask, RecordFrame, store, requests, history, Live
  <2>3. \A u \in Turns : ~Live(u)  BY <2>2 DEF IInv, OneResponseAtATime
  <2>4. OneResponseAtATime'  BY <2>2, <2>3 DEF OneResponseAtATime, Live
  <2>5. LockInv' /\ CopiesInv' /\ TitlingInv' /\ EditsKept'
        BY <2>2 DEF IInv, RecordFrame, LockInv, CopiesInv, Fresh, TitlingInv, EditsKept, Live
  <2> QED BY <1>1, <2>4, <2>5 DEF IInv
<1>5. CASE Crash \/ Exit
  <2>1. Gone  BY <1>5 DEF Crash, Exit
  <2>2. /\ UNCHANGED <<conv, edits>>
        /\ \A t \in Turns : task'[t] \in {"none", "done"} /\ submit'[t].pc \in {"idle", "ended"}
        /\ \A e \in Editors : edit'[e].pc # "saving"
        BY <2>1 DEF Gone, SubmitOver, EditOver, IInv, TypeOK
  <2>3. OneResponseAtATime' /\ LockInv'  BY <2>2 DEF OneResponseAtATime, LockInv, Live, Holding
  <2>4. CopiesInv' /\ TitlingInv' /\ EditsKept'
        BY <2>2 DEF IInv, CopiesInv, TitlingInv, EditsKept
  <2> QED BY <1>1, <2>3, <2>4 DEF IInv
<1> QED BY <1>2, <1>3, <1>4, <1>5 DEF LifeStep, ProcessStep

\* The initial state satisfies the invariant.
LEMMA InitHolds == Init => IInv
<1> SUFFICES ASSUME Init PROVE IInv  OBVIOUS
<1> USE DEF Init
<1>1. TypeOK
  <2>1. 0 \in 0..MaxRestarts /\ 0 \in 0..MaxFaults  BY ConversationAssumption
  <2> QED BY <2>1, RecordTypes DEF TypeOK, MessageStatus, RunState, TaskState, Changes
<1>2. OneResponseAtATime /\ LockInv  BY DEF OneResponseAtATime, LockInv, Live, Holding
<1>3. CopiesInv /\ TitlingInv /\ EditsKept  BY DEF CopiesInv, TitlingInv, EditsKept
<1> QED BY <1>1, <1>2, <1>3 DEF IInv

\* Every step keeps the invariant.
LEMMA StepKeeps == IInv /\ [Next]_vars => IInv'
<1> SUFFICES ASSUME IInv, [Next]_vars PROVE IInv'  OBVIOUS
<1>1. CASE UNCHANGED vars
  <2>1. TypeOK' /\ RecordFrame /\ TaskFrame
        BY <1>1 DEF vars, store, requests, tasks, process, history, IInv, TypeOK, RecordFrame,
                    TaskFrame, Live
  <2> QED BY <2>1, FrameKeeps
<1>2. CASE \E e \in Editors : EditStep(e)  BY <1>2, EditKeeps
<1>3. CASE \E t \in Turns : SubmitRead(t) \/ SubmitStep(t) \/ SubmitAborts(t)  BY <1>3, SubmitKeeps
<1>4. CASE \E t \in Turns : TaskStep(t)  BY <1>4, TaskKeeps
<1>5. CASE LifeStep  BY <1>5, LifeKeeps
<1> QED BY <1>1, <1>2, <1>3, <1>4, <1>5 DEF Next, TaskStep, LifeStep

\* The inductive invariant holds always.
LEMMA IInvHolds == Spec => []IInv
BY InitHolds, StepKeeps, PTL DEF Spec

-----------------------------------------------------------------------------

\* The types of the conversation service hold for any turns, editors and limits.
THEOREM ConversationTypes == Spec => []TypeOK
BY IInvHolds, PTL DEF IInv

\* For any number of submissions of a conversation: two of its responses never run
\* at the same time, and cancel and shutdown find the one that runs.
THEOREM OneResponse == Spec => []OneResponseAtATime
BY IInvHolds, PTL DEF IInv

\* For any number of updates and submissions: no automatic title and no update from
\* an older copy takes back what a user saved.
THEOREM EditsStay == Spec => []EditsKept
BY IInvHolds, PTL DEF IInv

-----------------------------------------------------------------------------
(* The messages: who may still change the status of one, and which process *)
(* it belongs to.                                                          *)

\* A message is stored by its submit and by nobody before it, a response runs after its
\* submit, both in the process the message was born in, and a process that does not serve
\* has neither; recovery is about to fail only messages that are pending.
TurnInv ==
    /\ \A t \in Turns :
          /\ submit[t].pc \in {"idle", "locking", "appending"} => message[t] = "absent"
          /\ task[t] # "none" => submit[t].pc = "ended"
          /\ Live(t) \/ submit[t].pc \in {"titling", "announcing"} => born[t] = restarts
          /\ ~Serving => ~Live(t) /\ submit[t].pc \in {"idle", "ended"}
    /\ phase = "starting" => todo \subseteq PendingMessages

\* A process that serves has pending messages of its own only; one that starts has every
\* pending message on its list.
RecoveryInv ==
    /\ Serving => \A t \in PendingMessages : born[t] = restarts
    /\ phase = "starting" => PendingMessages \subseteq todo

\* What the two invariants depend on.
Messages == <<message, submit, task, born, restarts, phase, todo>>

LEMMA MessagesKept ==
    ASSUME UNCHANGED Messages
    PROVE  /\ TurnInv => TurnInv'
           /\ RecoveryInv => RecoveryInv'
  BY DEF Messages, TurnInv, RecoveryInv, PendingMessages, Live, Serving

\* A response task that is alive changes its own message and itself, nothing else.
LEMMA ResponseMoves ==
    ASSUME TypeOK, NEW t \in Turns, TaskStep(t)
    PROVE  /\ UNCHANGED <<submit, born, restarts, phase, todo>>
           /\ Serving
           /\ \A u \in Turns \ {t} : message'[u] = message[u] /\ task'[u] = task[u]
           /\ UNCHANGED <<message, task>> \/ Live(t)
<1> USE DEF TypeOK, Resumes, Live, Goto, Unwind, store, requests, tasks, process, history, Serving
<1>1. CASE RespondStep(t)
  <2> USE DEF RespondStep
  <2>1. CASE RespondStart(t) \/ RespondEnter(t) \/ ScheduleRun(t)
        BY <2>1 DEF RespondStart, RespondEnter, ScheduleRun
  <2>2. CASE CreateRun(t) \/ RunReturned(t)  BY <2>2 DEF CreateRun, RunReturned
  <2>3. CASE RespondSave(t) \/ RespondCancelled(t) \/ RespondFailed(t)
        BY <2>3 DEF RespondSave, RespondCancelled, RespondFailed
  <2>4. CASE RespondEnd(t)  BY <2>4 DEF RespondEnd
  <2> QED BY <1>1, <2>1, <2>2, <2>3, <2>4
<1>2. CASE RespondFault(t)  BY <1>2 DEF RespondFault
<1>3. CASE CancelDelivered(t)  BY <1>3 DEF CancelDelivered
<1>4. CASE (\E s \in Settled : RunSettles(t, s)) \/ RunStops(t) \/ RunRewound(t)
      BY <1>4 DEF RunSettles, RunStops, RunRewound
<1> QED BY <1>1, <1>2, <1>3, <1>4 DEF TaskStep

LEMMA ResponseTurns ==
    ASSUME TypeOK, TurnInv, NEW t \in Turns, TaskStep(t)
    PROVE  TurnInv' /\ (RecoveryInv => RecoveryInv')
<1>1. /\ UNCHANGED <<submit, born, restarts, phase, todo>>
      /\ Serving /\ Serving' /\ phase # "starting"
      /\ \A u \in Turns \ {t} : message'[u] = message[u] /\ task'[u] = task[u]
      /\ UNCHANGED <<message, task>> \/ Live(t)
      BY ResponseMoves DEF Serving
<1>2. TurnInv'
  <2>1. ASSUME NEW u \in Turns
        PROVE  /\ submit[u].pc \in {"idle", "locking", "appending"} => message'[u] = "absent"
               /\ task'[u] # "none" => submit[u].pc = "ended"
               /\ task'[u] \notin {"none", "done"} \/ submit[u].pc \in {"titling", "announcing"} =>
                     born[u] = restarts
    <3>1. CASE message'[u] = message[u] /\ task'[u] = task[u]  BY <3>1 DEF TurnInv, Live
    <3>2. CASE u = t /\ Live(t)  BY <3>2 DEF TurnInv, Live
    <3> QED BY <1>1, <3>1, <3>2
  <2> QED BY <1>1, <2>1 DEF TurnInv, Live
<1>3. RecoveryInv => RecoveryInv'
  BY <1>1 DEF RecoveryInv, PendingMessages, TurnInv
<1> QED BY <1>2, <1>3

\* submit stores its message for the process it runs in, and creates the task of it.
LEMMA SubmitTurns ==
    ASSUME TypeOK, TurnInv, NEW t \in Turns, SubmitRead(t) \/ SubmitStep(t) \/ SubmitAborts(t)
    PROVE  TurnInv' /\ (RecoveryInv => RecoveryInv')
<1>1. UNCHANGED <<phase, todo, restarts>> /\ Serving /\ Serving' /\ phase # "starting"
      BY DEF SubmitRead, SubmitStep, SubmitLock, SubmitAppend, SubmitTitle, SubmitSpawn,
             SubmitAborts, process, Serving
<1> USE <1>1 DEF TypeOK, TurnInv, RecoveryInv, PendingMessages, Live, SubmitOver
<1>2. CASE SubmitRead(t) \/ SubmitLock(t) \/ SubmitTitle(t) \/ SubmitAborts(t)
  <2>1. /\ UNCHANGED <<message, task, born>>
        /\ \A u \in Turns \ {t} : submit'[u] = submit[u]
        /\ submit[t].pc # "ended"
        /\ submit'[t].pc \in {"locking", "appending"} =>
              submit[t].pc \in {"idle", "locking"}
        /\ submit'[t].pc \in {"titling", "announcing"} => submit[t].pc = "titling"
        /\ submit'[t].pc # "idle"
        BY <1>2
           DEF SubmitRead, SubmitLock, SubmitTitle, SubmitAborts, store, tasks, history, Holding
  <2> QED BY <2>1
<1>3. CASE SubmitAppend(t)
  <2>1. /\ message' = [message EXCEPT ![t] = "accepted"] /\ born' = [born EXCEPT ![t] = restarts]
        /\ task' = task /\ submit[t].pc = "appending"
        /\ \A u \in Turns \ {t} : submit'[u] = submit[u]
        /\ submit'[t].pc \in {"titling", "announcing"}
        BY <1>3 DEF SubmitAppend, tasks
  <2> QED BY <2>1
<1>4. CASE SubmitSpawn(t)
  <2>1. /\ UNCHANGED <<message, born>> /\ task' = [task EXCEPT ![t] = "created"]
        /\ submit[t].pc = "announcing" /\ submit'[t].pc = "ended"
        /\ \A u \in Turns \ {t} : submit'[u] = submit[u]
        BY <1>4 DEF SubmitSpawn, store, history
  <2> QED BY <2>1
<1> QED BY <1>2, <1>3, <1>4 DEF SubmitStep

\* Shutdown, exit and crash leave no submit and no task behind; recovery fails what is on
\* its list.
LEMMA LifeTurns ==
    ASSUME TypeOK, TurnInv, LifeStep
    PROVE  TurnInv'
<1> USE DEF TypeOK, TurnInv, Live, Serving, PendingMessages
<1>1. CASE Cancel \/ \E t \in Turns : ForgetTask(t)
  <2>1. UNCHANGED Messages
        BY <1>1 DEF Cancel, ForgetTask, store, requests, process, history, Messages
  <2> QED BY <2>1, MessagesKept
<1>2. CASE Shutdown \/ Drained \/ GraceExpires
  <2>1. UNCHANGED <<message, submit, task, born, restarts>> /\ Serving /\ Serving' /\ phase' # "starting"
        BY <1>2 DEF Shutdown, Drained, GraceExpires, store, requests, tasks, history
  <2> QED BY <2>1
<1>3. CASE Crash \/ Exit
  <2>1. /\ UNCHANGED <<message, born, restarts>> /\ phase' = "down"
        /\ \A t \in Turns :
              /\ task'[t] = IF task[t] = "none" THEN "none" ELSE "done"
              /\ submit'[t] = IF submit[t].pc = "idle" THEN submit[t] ELSE SubmitOver
        BY <1>3 DEF Crash, Exit, Gone
  <2>2. \A t \in Turns : submit'[t].pc = IF submit[t].pc = "idle" THEN "idle" ELSE "ended"
        BY <2>1 DEF SubmitOver
  <2> QED BY <2>1, <2>2
<1>4. CASE Restart
  <2>1. /\ UNCHANGED <<message, submit, task, born>> /\ phase = "down" /\ phase' = "starting"
        /\ todo' \subseteq PendingMessages
        BY <1>4 DEF Restart, requests, tasks, history
  <2> QED BY <2>1
<1>5. CASE \E t \in Turns : Recover(t)
  <2>1. PICK t \in Turns : Recover(t)  BY <1>5
  <2>2. /\ UNCHANGED <<submit, task, born, restarts, phase>> /\ phase = "starting" /\ t \in todo
        /\ message' = [message EXCEPT ![t] = "failed"] /\ todo' = todo \ {t}
        BY <2>1 DEF Recover, requests, tasks, history
  <2>3. message[t] \in Pending  BY <2>2
  <2>4. \A u \in Turns \ {t} : message'[u] = message[u]  BY <2>2
  <2> QED BY <2>2, <2>3, <2>4 DEF Pending
<1>6. CASE Ready
  <2>1. UNCHANGED <<message, submit, task, born, restarts>> /\ phase = "starting" /\ phase' = "up"
        BY <1>6 DEF Ready, store, requests, tasks, history
  <2> QED BY <2>1
<1> QED BY <1>1, <1>2, <1>3, <1>4, <1>5, <1>6 DEF LifeStep, ProcessStep

LEMMA TurnInit == Init => TurnInv /\ RecoveryInv
<1> SUFFICES ASSUME Init PROVE TurnInv /\ RecoveryInv  OBVIOUS
<1> QED BY DEF Init, TurnInv, RecoveryInv, PendingMessages, Pending, Live, Serving

LEMMA TurnStep == IInv /\ TurnInv /\ [Next]_vars => TurnInv'
<1> SUFFICES ASSUME IInv, TurnInv, [Next]_vars PROVE TurnInv'  OBVIOUS
<1>1. CASE UNCHANGED vars \/ \E e \in Editors : EditStep(e)
  <2>1. UNCHANGED Messages
        BY <1>1 DEF vars, EditStep, EditRead, EditSave, store, requests, tasks, process, history,
                    Messages
  <2> QED BY <2>1, MessagesKept
<1> QED BY <1>1, ResponseTurns, SubmitTurns, LifeTurns DEF Next, TaskStep, LifeStep, IInv

\* A list of pending messages that stays within the limit holds them all, unless the limit
\* cuts it.
LEMMA ReadIsComplete ==
    ASSUME IsFiniteSet(Turns), Cardinality(Turns) <= RecoveryLimit, NEW read \in SUBSET PendingMessages,
           read # PendingMessages => Cardinality(read) = RecoveryLimit
    PROVE  read = PendingMessages
<1>1. PendingMessages \subseteq Turns  BY DEF PendingMessages
<1>2. IsFiniteSet(PendingMessages) /\ Cardinality(PendingMessages) <= Cardinality(Turns)
      BY <1>1, FS_Subset
<1>3. /\ Cardinality(read) <= Cardinality(PendingMessages)
      /\ Cardinality(PendingMessages) = Cardinality(read) => PendingMessages = read
      /\ IsFiniteSet(read)
      BY <1>2, FS_Subset
<1>4. Cardinality(read) \in Nat /\ Cardinality(PendingMessages) \in Nat /\ Cardinality(Turns) \in Nat
      BY <1>2, <1>3, FS_CardinalityType
<1> QED BY <1>2, <1>3, <1>4, ConversationAssumption

LEMMA LifeRecovers ==
    ASSUME IsFiniteSet(Turns), Cardinality(Turns) <= RecoveryLimit,
           TypeOK, TurnInv, RecoveryInv, LifeStep
    PROVE  RecoveryInv'
<1> USE DEF TypeOK, RecoveryInv, Serving
<1>1. CASE Cancel \/ \E t \in Turns : ForgetTask(t)
  <2>1. UNCHANGED Messages
        BY <1>1 DEF Cancel, ForgetTask, store, requests, process, history, Messages
  <2> QED BY <2>1, MessagesKept
<1>2. CASE Shutdown \/ Drained \/ GraceExpires
  <2>1. UNCHANGED <<message, born, restarts>> /\ Serving /\ Serving' /\ phase' # "starting"
        BY <1>2 DEF Shutdown, Drained, GraceExpires, store, history
  <2> QED BY <2>1 DEF PendingMessages
<1>3. CASE Crash \/ Exit
  BY <1>3 DEF Crash, Exit, Gone
<1>4. CASE Restart
  <2>1. PICK read \in SUBSET PendingMessages :
           /\ read # PendingMessages => Cardinality(read) = RecoveryLimit
           /\ todo' = read
        BY <1>4 DEF Restart
  <2>2. todo' = PendingMessages  BY <2>1, ReadIsComplete
  <2>3. phase' = "starting" /\ message' = message  BY <1>4 DEF Restart
  <2> QED BY <2>2, <2>3 DEF PendingMessages
<1>5. CASE \E t \in Turns : Recover(t)
  <2>1. PICK t \in Turns : Recover(t)  BY <1>5
  <2>2. /\ phase' = "starting" /\ phase = "starting" /\ todo' = todo \ {t}
        /\ message' = [message EXCEPT ![t] = "failed"]
        BY <2>1 DEF Recover
  <2> QED BY <2>2 DEF PendingMessages, Pending
<1>6. CASE Ready
  <2>1. UNCHANGED message /\ phase = "starting" /\ phase' = "up" /\ todo = {}
        BY <1>6 DEF Ready, store
  <2> QED BY <2>1 DEF PendingMessages
<1> QED BY <1>1, <1>2, <1>3, <1>4, <1>5, <1>6 DEF LifeStep, ProcessStep

\* A process that serves after a restart has no unfinished message of an earlier one,
\* wherever the earlier one died, if the recovery limit is not below the messages there
\* are: a crash between the two saves of submit, or before the task starts, included.
THEOREM RecoveryFailsEverything ==
    ASSUME IsFiniteSet(Turns), Cardinality(Turns) <= RecoveryLimit
    PROVE  Spec => []RecoveryIsComplete
<1>1. IInv /\ TurnInv /\ RecoveryInv /\ [Next]_vars => RecoveryInv'
  <2> SUFFICES ASSUME IInv, TurnInv, RecoveryInv, [Next]_vars PROVE RecoveryInv'  OBVIOUS
  <2>1. CASE UNCHANGED vars \/ \E e \in Editors : EditStep(e)
    <3>1. UNCHANGED Messages
          BY <2>1 DEF vars, EditStep, EditRead, EditSave, store, requests, tasks, process, history,
                      Messages
    <3> QED BY <3>1, MessagesKept
  <2> QED BY <2>1, ResponseTurns, SubmitTurns, LifeRecovers DEF Next, TaskStep, LifeStep, IInv
<1>2. RecoveryInv => RecoveryIsComplete
  BY DEF RecoveryInv, RecoveryIsComplete, PendingMessages
<1> QED BY <1>1, <1>2, InitHolds, StepKeeps, TurnInit, TurnStep, PTL DEF Spec

\* Once the response task of a message is over, nobody changes the status it left: a
\* submit stores a message before its task exists, and recovery reads pending ones only.
THEOREM EndStatusStays == Spec => EndStatusKept
<1>1. IInv /\ TurnInv /\ [Next]_vars =>
         \A t \in Turns : message[t] \in Ended /\ ~Live(t) => message'[t] = message[t]
  <2> SUFFICES ASSUME IInv, TurnInv, [Next]_vars,
                      NEW t \in Turns, message[t] \in Ended, ~Live(t)
               PROVE  message'[t] = message[t]
    OBVIOUS
  <2>0. TypeOK /\ message[t] # "absent" /\ message[t] \notin Pending
        BY DEF IInv, Ended, Pending
  <2>1. ASSUME NEW u \in Turns, TaskStep(u) PROVE message'[t] = message[t]
        BY <2>0, <2>1, ResponseMoves
  <2>2. ASSUME NEW u \in Turns, SubmitRead(u) \/ SubmitStep(u) \/ SubmitAborts(u)
        PROVE  message'[t] = message[t]
    <3>1. CASE SubmitAppend(u)
      BY <2>0, <3>1 DEF SubmitAppend, TypeOK, TurnInv
    <3> QED BY <2>2, <3>1
            DEF SubmitRead, SubmitStep, SubmitLock, SubmitTitle, SubmitSpawn, SubmitAborts, store
  <2>3. CASE LifeStep
    <3>1. ASSUME NEW u \in Turns, Recover(u) PROVE message'[t] = message[t]
          BY <2>0, <3>1 DEF Recover, TurnInv, PendingMessages, TypeOK
    <3> QED BY <2>3, <3>1
            DEF LifeStep, ProcessStep, Cancel, Shutdown, Crash, Restart, Drained, GraceExpires, Exit,
                Gone, Ready, ForgetTask, store
  <2>4. CASE UNCHANGED vars \/ \E e \in Editors : EditStep(e)
        BY <2>4 DEF vars, EditStep, EditRead, EditSave, store
  <2> QED BY <2>1, <2>2, <2>3, <2>4 DEF Next, TaskStep, LifeStep
<1> QED BY <1>1, InitHolds, StepKeeps, TurnInit, TurnStep, PTL DEF Spec, EndStatusKept
=============================================================================
