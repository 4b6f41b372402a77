--------------------------- MODULE AnalyticalGraph ---------------------------
(***************************************************************************)
(* AnalyticalGraphEngine and its checkpoint store: calls of run and resume *)
(* for one graph, in one process or in several, each with its own copy of  *)
(* the state, which it saves before and after every node under optimistic  *)
(* concurrency.  The nodes of a wave run side by side; handlers fail and   *)
(* are retried, the graph's timeout or a cancellation interrupts a wave,   *)
(* processes die.  Results are left out: a completed node has one.         *)
(***************************************************************************)
EXTENDS Integers, FiniteSets

CONSTANTS
    Nodes,             \* the nodes of the graph
    Dependencies,      \* by node, the nodes it depends on
    MaximumConcurrency,\* nodes of a wave that run at once
    NodeAttempts,      \* NodeRetryPolicy.maximum_attempts
    MaxDrives,         \* bound: calls of run and resume
    MaxSaveFaults      \* bound: saves that raise before they are applied

VARIABLES
    stored,   \* the row of the graph
    driver,   \* by driver: where it is, and its copy of the state
    drives,   \* calls of run and resume so far
    faults    \* failed saves so far

\* Executions of run and resume, numbered as they are called.
Drivers == 1..MaxDrives

graphVars == <<stored, driver, drives, faults>>

Absent == [exists |-> FALSE, status |-> "none", version |-> 0,
           nodes |-> [n \in Nodes |-> "none"]]

\* ahead is history: a save of the copy counted its version up and was not applied.
NoDriver == [pc |-> "idle", status |-> "none", version |-> 0, reason |-> "none", ahead |-> FALSE,
             nodes |-> [n \in Nodes |-> "none"], tasks |-> [n \in Nodes |-> "none"],
             attempts |-> [n \in Nodes |-> 0]]

\* validate_dag and validate_references: dependencies are nodes, and no cycle.
ValidDag ==
    /\ \A n \in Nodes : Dependencies[n] \subseteq Nodes \ {n}
    /\ \A s \in (SUBSET Nodes) \ {{}} : \E n \in s : Dependencies[n] \cap s = {}

ASSUME DagAssumption == ValidDag

GraphInit ==
    /\ stored = Absent
    /\ driver = [d \in Drivers |-> NoDriver]
    /\ drives = 0
    /\ faults = 0

-----------------------------------------------------------------------------
(* The store. *)

\* Mutant: the expected version is not part of the condition.
VersionExpectedMutant(d) == stored.exists

\* save is applied if nobody else saved in between.
VersionExpected(d) == stored.exists /\ stored.version = driver[d].version

\* A checkpoint of the driver's copy v: applied, refused with a conflict, or raising.
\* A save that raises anything but the conflict has already counted the version of the
\* copy up and leaves it so.
Saved(d, v, onSuccess, onError) ==
    \/ /\ VersionExpected(d)
       /\ stored' = [stored EXCEPT !.status = v.status, !.nodes = v.nodes,
                                   !.version = v.version + 1]
       /\ driver' = [driver EXCEPT ![d] = [onSuccess EXCEPT !.version = v.version + 1,
                                                            !.ahead = FALSE]]
       /\ UNCHANGED faults
    \/ /\ ~VersionExpected(d)
       /\ driver' = [driver EXCEPT ![d] = onError]
       /\ UNCHANGED <<stored, faults>>
    \/ /\ faults < MaxSaveFaults
       /\ faults' = faults + 1
       /\ driver' = [driver EXCEPT ![d] =
                        IF onError = NoDriver THEN NoDriver
                        ELSE [onError EXCEPT !.version = v.version + 1, !.ahead = TRUE]]
       /\ UNCHANGED stored

-----------------------------------------------------------------------------
(* run, resume and _drive. *)

\* run: the graph is created; a second run of its id is refused by the store.
RunGraph(d) ==
    /\ d = drives + 1
    /\ ~stored.exists
    /\ stored' = [exists |-> TRUE, status |-> "pending", version |-> 0,
                  nodes |-> [n \in Nodes |-> "pending"]]
    /\ driver' = [driver EXCEPT ![d] = [NoDriver EXCEPT !.pc = "starting", !.status = "running",
                                          !.nodes = stored'.nodes]]
    /\ drives' = drives + 1
    /\ UNCHANGED faults

\* resume: a copy of the row, in which interrupted nodes are pending again.
ResumeGraph(d) ==
    /\ d = drives + 1
    /\ stored.exists
    /\ driver' = [driver EXCEPT ![d] = [NoDriver EXCEPT !.pc = "starting", !.status = "running",
                     !.version = stored.version,
                     !.nodes = [n \in Nodes |-> IF stored.nodes[n] = "running" THEN "pending"
                                                ELSE stored.nodes[n]]]]
    /\ drives' = drives + 1
    /\ UNCHANGED <<stored, faults>>

\* The first checkpoint of _drive is outside its handlers: a conflict ends the call.
Start(d) ==
    /\ driver[d].pc = "starting"
    /\ Saved(d, driver[d], [driver[d] EXCEPT !.pc = "waves"], NoDriver)
    /\ UNCHANGED drives

\* The last checkpoint says how the graph ended; whether it is saved or not the call ends.
Finish(d) ==
    /\ driver[d].pc = "ending"
    /\ Saved(d, driver[d], NoDriver, NoDriver)
    /\ UNCHANGED drives

\* The process dies.
GraphCrash(d) ==
    /\ driver[d].pc # "idle"
    /\ driver' = [driver EXCEPT ![d] = NoDriver]
    /\ UNCHANGED <<stored, drives, faults>>

-----------------------------------------------------------------------------
(* _schedule: one wave after the other. *)

Busy(d) == {n \in Nodes : driver[d].tasks[n] \in {"queued", "marking", "invoking", "storing"}}

\* Mutant: a node is ready as soon as none of its dependencies is running.
ReadyMutant(v) ==
    {n \in Nodes : v.nodes[n] = "pending" /\ \A m \in Dependencies[n] : v.nodes[m] # "running"}

Ready(v) ==
    {n \in Nodes : v.nodes[n] = "pending" /\ \A m \in Dependencies[n] : v.nodes[m] = "completed"}

Ends(v, status) == [v EXCEPT !.pc = "ending", !.status = status]

\* With every node completed the graph is; a failed or cancelled node, or none that
\* can run, fails it; the ready nodes are started together.
Wave(d) ==
    LET v == driver[d]
    IN  /\ v.pc = "waves"
        /\ \A n \in Nodes : v.tasks[n] = "none"
        /\ driver' = [driver EXCEPT ![d] =
              IF \A n \in Nodes : v.nodes[n] = "completed" THEN Ends(v, "completed")
              ELSE IF (\E n \in Nodes : v.nodes[n] \in {"failed", "cancelled"}) \/ Ready(v) = {}
              THEN Ends(v, "failed")
              ELSE [v EXCEPT !.tasks = [n \in Nodes |-> IF n \in Ready(v) THEN "queued" ELSE "none"],
                             !.attempts = [n \in Nodes |-> 0]]]
        /\ UNCHANGED <<stored, drives, faults>>

\* The handler of TimeoutError cancels what did not finish.
TimedOut(v) ==
    [Ends(v, "failed") EXCEPT !.nodes = [n \in Nodes |->
        IF v.nodes[n] \in {"pending", "running"} THEN "cancelled" ELSE v.nodes[n]]]

\* gather waits for the whole wave; the first error, in the order of the ready nodes,
\* which is a set's, fails the graph.  A node's own TimeoutError is handled as the graph's.
WaveEnds(d) ==
    LET v == driver[d]
        errors == {n \in Nodes : v.tasks[n] \in {"error", "timeout"}}
    IN  /\ v.pc = "waves"
        /\ Busy(d) = {}
        /\ \E n \in Nodes : v.tasks[n] # "none"
        /\ \/ /\ errors = {}
              /\ driver' = [driver EXCEPT ![d].tasks = [n \in Nodes |-> "none"]]
           \/ \E n \in errors :
                 driver' = [driver EXCEPT ![d] =
                               IF v.tasks[n] = "timeout" THEN TimedOut(v) ELSE Ends(v, "failed")]
        /\ UNCHANGED <<stored, drives, faults>>

\* The graph's timeout or a cancellation while gather waits: nodes that wait for the
\* semaphore never start, a handler is interrupted and its node failed, a node at a
\* checkpoint stays what it is.  One of the nodes at a checkpoint may be in save, which
\* has counted the version of the copy up and, interrupted, leaves it so.  Here its
\* UPDATE is not applied; where it is, SaveMark or SaveOutcome comes before.
Interrupt(d, reason) ==
    LET v == driver[d]
        saving == \E n \in Nodes : v.tasks[n] \in {"marking", "storing"}
    IN  /\ v.pc = "waves"
        /\ \E n \in Nodes : v.tasks[n] # "none"
        /\ \E cut \in {FALSE, saving} :
              driver' = [driver EXCEPT ![d] = [v EXCEPT !.pc = "interrupted", !.reason = reason,
                 !.version = IF cut THEN @ + 1 ELSE @, !.ahead = @ \/ cut,
                 !.nodes = [n \in Nodes |-> IF v.tasks[n] = "invoking" THEN "failed" ELSE v.nodes[n]],
                 !.tasks = [n \in Nodes |->
                               CASE v.tasks[n] = "invoking" -> "storing"
                                 [] v.tasks[n] \in {"queued", "marking", "storing"} -> "error"
                                 [] OTHER -> v.tasks[n]]]]
        /\ UNCHANGED <<stored, drives, faults>>

\* The interrupted wave is over.
Interrupted(d) ==
    LET v == driver[d]
    IN  /\ v.pc = "interrupted"
        /\ Busy(d) = {}
        /\ driver' = [driver EXCEPT ![d] =
              IF v.reason = "timeout" THEN TimedOut(v) ELSE Ends(v, "cancelled")]
        /\ UNCHANGED <<stored, drives, faults>>

-----------------------------------------------------------------------------
(* _execute_node *)

Task(v, n, pc) == [v EXCEPT !.tasks[n] = pc]

\* A free slot of the semaphore: the node is marked in the driver's copy.
Mark(d, n) ==
    LET v == driver[d]
    IN  /\ v.pc = "waves"
        /\ v.tasks[n] = "queued"
        /\ Cardinality({m \in Nodes : v.tasks[m] \in {"marking", "invoking", "storing"}})
              < MaximumConcurrency
        /\ driver' = [driver EXCEPT ![d] = [Task(v, n, "marking") EXCEPT !.nodes[n] = "running"]]
        /\ UNCHANGED <<stored, drives, faults>>

\* The checkpoint before the handler: without it the handler is not called.
SaveMark(d, n) ==
    /\ driver[d].pc = "waves"
    /\ driver[d].tasks[n] = "marking"
    /\ Saved(d, driver[d], Task(driver[d], n, "invoking"), Task(driver[d], n, "error"))
    /\ UNCHANGED drives

\* Inputs that do not resolve or validate, or a kind without handler, raise outside the
\* handler's try: the node stays running in the copy and in the store.  So it does when
\* the mark is applied and its answer does not arrive.
InputsFail(d, n) ==
    /\ driver[d].pc = "waves"
    /\ driver[d].tasks[n] = "invoking"
    /\ driver[d].attempts[n] = 0
    /\ driver' = [driver EXCEPT ![d] = Task(@, n, "error")]
    /\ UNCHANGED <<stored, drives, faults>>

\* _invoke, or the cached result: a handler that raises, times out or breaks the
\* schema or the budget; attempts are left, or the node fails.
Invoke(d, n, ok) ==
    LET v == driver[d]
        tried == [v EXCEPT !.attempts[n] = @ + 1]
    IN  /\ v.pc = "waves"
        /\ v.tasks[n] = "invoking"
        /\ driver' = [driver EXCEPT ![d] =
              IF ok THEN [Task(v, n, "storing") EXCEPT !.nodes[n] = "completed"]
              ELSE IF tried.attempts[n] < NodeAttempts THEN tried
              ELSE [Task(v, n, "storing") EXCEPT !.nodes[n] = "failed"]]
        /\ UNCHANGED <<stored, drives, faults>>

\* The checkpoint after the handler; a failed node raises what its last attempt raised,
\* a TimeoutError or another error, unless the checkpoint raises.
SaveOutcome(d, n) ==
    LET v == driver[d]
    IN  /\ v.tasks[n] = "storing"
        /\ \E t \in IF v.nodes[n] = "completed" THEN {"done"} ELSE {"error", "timeout"} :
              Saved(d, v, Task(v, n, t), Task(v, n, "error"))
        /\ UNCHANGED drives

-----------------------------------------------------------------------------
(* The specification. *)

Engine(d) ==
    \/ Start(d) \/ Finish(d) \/ Wave(d) \/ WaveEnds(d) \/ Interrupted(d)
    \/ \E n \in Nodes : \/ Mark(d, n) \/ SaveMark(d, n) \/ InputsFail(d, n) \/ SaveOutcome(d, n)
                        \/ \E ok \in BOOLEAN : Invoke(d, n, ok)

GraphNext ==
    \E d \in Drivers :
        \/ RunGraph(d) \/ ResumeGraph(d) \/ GraphCrash(d) \/ Engine(d)
        \/ \E reason \in {"timeout", "cancel"} : Interrupt(d, reason)

-----------------------------------------------------------------------------
(* Properties. *)

\* A node the store says is completed stays completed, and no driver's checkpoint starts
\* it again, whichever drivers work on the graph with stale copies.  Excepted is the
\* checkpoint of a driver whose copy is ahead of what it saved, since an earlier save of
\* it raised or was interrupted: the version it expects may be another driver's.
CompletedNodesKept ==
    [][\A n \in Nodes : stored.nodes[n] = "completed" =>
          \/ stored'.nodes[n] = "completed"
          \/ \E d \in Drivers : driver[d].ahead /\ driver'[d] # driver[d]]_graphVars

\* The row is consistent whoever wrote it last: a node was started only after all it
\* depends on completed, and a completed graph has no unfinished node.
StoredGraphConsistent ==
    /\ \A n \in Nodes : stored.nodes[n] \in {"running", "completed", "failed"} =>
          \A m \in Dependencies[n] : stored.nodes[m] = "completed"
    /\ stored.status = "completed" => \A n \in Nodes : stored.nodes[n] = "completed"

=============================================================================
