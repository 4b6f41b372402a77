---------------------------- MODULE ServiceProofs ----------------------------
(***************************************************************************)
(* Theorems about the services beside the runtime: what the checkpoints of *)
(* the graph engine say and keep, what the callers of the query cache      *)
(* share, how often the router lets a provider fail, which events a        *)
(* subscriber may miss, and which workers a lease fences.  They hold for   *)
(* every graph, every set of callers, providers, emitters, items and       *)
(* workers, and every number of drivers, faults, queries, requests,        *)
(* connections and attempts.                                               *)
(***************************************************************************)
EXTENDS WorkQueue, AnalyticalGraph, CacheService, ModelRouter, EventStream, FiniteSetTheorems, TLAPS

-----------------------------------------------------------------------------
(* The graph: types. *)

NodeStatuses == {"none", "pending", "running", "completed", "failed", "cancelled"}
TaskStates == {"none", "queued", "marking", "invoking", "storing", "done", "error", "timeout"}
Working == {"queued", "marking", "invoking", "storing"}

Copies ==
    [pc : {"idle", "starting", "waves", "interrupted", "ending"},
     status : {"none", "running", "completed", "failed", "cancelled"},
     version : Nat, reason : {"none", "timeout", "cancel"}, ahead : BOOLEAN,
     nodes : [Nodes -> NodeStatuses], tasks : [Nodes -> TaskStates], attempts : [Nodes -> Nat]]

Rows ==
    [exists : BOOLEAN, status : {"none", "pending", "running", "completed", "failed", "cancelled"},
     version : Nat, nodes : [Nodes -> NodeStatuses]]

GraphTypes ==
    /\ stored \in Rows
    /\ driver \in [Drivers -> Copies]
    /\ drives \in Nat
    /\ faults \in Nat

-----------------------------------------------------------------------------
(* The graph: the invariants. *)

\* A node was started only after all it depends on completed.
Ordered(nodes) ==
    \A n \in Nodes : nodes[n] \in {"running", "completed", "failed"} =>
        \A m \in Dependencies[n] : nodes[m] = "completed"

\* What a driver's task for a node says of the node in the driver's copy: one that did
\* not start is pending, a started one is running until its outcome is known.
TaskAgrees(v, n) ==
    /\ v.tasks[n] = "queued" => v.nodes[n] = "pending"
    /\ v.tasks[n] \in {"marking", "invoking"} => v.nodes[n] = "running"
    /\ v.tasks[n] = "storing" => v.nodes[n] \in {"completed", "failed"}
    /\ v.tasks[n] \in Working => \A m \in Dependencies[n] : v.nodes[m] = "completed"

CopyInv(v) ==
    /\ Ordered(v.nodes)
    /\ \A n \in Nodes : TaskAgrees(v, n)
    /\ v.status = "completed" => v.pc = "ending" /\ \A n \in Nodes : v.nodes[n] = "completed"
    /\ v.pc = "idle" => \A n \in Nodes : v.tasks[n] = "none"

\* The row and every driver's copy are consistent.
GraphInv ==
    /\ GraphTypes
    /\ stored.exists \/ stored = Absent
    /\ StoredGraphConsistent
    /\ \A d \in Drivers : CopyInv(driver[d])

\* A copy no save of which was lost is not ahead of the row, and if a save would accept
\* it, it knows every node the row says is completed.
Fenced(v, row) ==
    ~v.ahead =>
        /\ v.version <= row.version
        /\ (v.pc # "idle" /\ v.version = row.version) =>
              \A n \in Nodes : row.nodes[n] = "completed" => v.nodes[n] = "completed"

FenceInv == \A d \in Drivers : Fenced(driver[d], stored)

\* A copy w a driver may go on with from its copy v: consistent, of the same version
\* unless it is ahead, with every node completed that was; or none, when the call is over.
Follows(v, w) ==
    /\ w \in Copies
    /\ CopyInv(w)
    /\ \/ w = NoDriver
       \/ /\ v.pc # "idle"
          /\ w.ahead \/ (w.version = v.version /\ w.ahead = v.ahead)
          /\ \A n \in Nodes : v.nodes[n] = "completed" => w.nodes[n] = "completed"

\* What CompletedNodesKept says of one step.
RowKept ==
    \A n \in Nodes : stored.nodes[n] = "completed" =>
        \/ stored'.nodes[n] = "completed"
        \/ \E d \in Drivers : driver[d].ahead /\ driver'[d] # driver[d]

-----------------------------------------------------------------------------
(* The graph: copies. *)

LEMMA GraphParents == \A n \in Nodes : Dependencies[n] \subseteq Nodes
BY DagAssumption DEF ValidDag

\* The call that is over leaves no copy.
LEMMA NoDriverFollows == ASSUME NEW v PROVE Follows(v, NoDriver)
<1>1. NoDriver \in Copies
  BY DEF NoDriver, Copies, NodeStatuses, TaskStates
<1>2. CopyInv(NoDriver)
  BY DEF CopyInv, Ordered, TaskAgrees, NoDriver, Working
<1> QED BY <1>1, <1>2 DEF Follows

\* Counting the version of a copy up changes nothing a checkpoint is about.
LEMMA VersionApart ==
    ASSUME NEW w \in Copies, NEW k \in Nat, NEW b \in BOOLEAN, CopyInv(w)
    PROVE  LET x == [w EXCEPT !.version = k, !.ahead = b]
           IN  /\ x \in Copies /\ CopyInv(x) /\ x.version = k /\ x.ahead = b
               /\ x.nodes = w.nodes /\ x.pc = w.pc
<1> DEFINE x == [w EXCEPT !.version = k, !.ahead = b]
<1>1. /\ x.nodes = w.nodes /\ x.tasks = w.tasks /\ x.pc = w.pc /\ x.status = w.status
      /\ x.version = k /\ x.ahead = b /\ x \in Copies
  BY DEF Copies
<1>2. CopyInv(x)
  BY <1>1 DEF CopyInv, Ordered, TaskAgrees
<1> QED BY <1>1, <1>2

\* A step of one driver on its own copy.
LEMMA CopyStep ==
    ASSUME GraphInv, FenceInv, NEW d \in Drivers, NEW w, Follows(driver[d], w),
           driver' = [driver EXCEPT ![d] = w], UNCHANGED <<stored, faults>>, drives' \in Nat
    PROVE  GraphInv' /\ FenceInv' /\ RowKept
<1>1. GraphTypes'
  BY DEF GraphInv, GraphTypes, Follows
<1>2. StoredGraphConsistent' /\ (stored'.exists \/ stored' = Absent)
  BY DEF GraphInv, StoredGraphConsistent
<1>3. ASSUME NEW c \in Drivers PROVE CopyInv(driver'[c])
  BY <1>3 DEF GraphInv, GraphTypes, Follows
<1>4. ASSUME NEW c \in Drivers PROVE Fenced(driver'[c], stored)
  <2>1. CASE c # d
    BY <2>1 DEF GraphInv, GraphTypes, FenceInv
  <2>2. CASE c = d /\ w = NoDriver
    BY <2>2 DEF GraphInv, GraphTypes, Fenced, NoDriver, Rows
  <2>3. CASE c = d /\ w # NoDriver
    <3>1. Fenced(driver[d], stored) /\ driver'[c] = w
      BY <2>3 DEF GraphInv, GraphTypes, FenceInv
    <3> QED BY <2>3, <3>1 DEF Fenced, Follows
  <2> QED BY <2>1, <2>2, <2>3
<1>5. RowKept
  BY DEF RowKept
<1> QED BY <1>1, <1>2, <1>3, <1>4, <1>5 DEF GraphInv, FenceInv

\* A checkpoint, whether it is applied, refused or raises.
LEMMA SavedStep ==
    ASSUME GraphInv, FenceInv, NEW d \in Drivers, driver[d].pc # "idle",
           NEW s, NEW e, Follows(driver[d], s), Follows(driver[d], e),
           s = NoDriver \/ s.nodes = driver[d].nodes,
           Saved(d, driver[d], s, e), drives' \in Nat
    PROVE  GraphInv' /\ FenceInv' /\ RowKept
<1> DEFINE v == driver[d]
<1>0. v \in Copies /\ CopyInv(v) /\ stored \in Rows /\ faults \in Nat /\ driver \in [Drivers -> Copies]
  BY DEF GraphInv, GraphTypes
<1>1. CASE /\ VersionExpected(d)
           /\ stored' = [stored EXCEPT !.status = v.status, !.nodes = v.nodes, !.version = v.version + 1]
           /\ driver' = [driver EXCEPT ![d] = [s EXCEPT !.version = v.version + 1, !.ahead = FALSE]]
           /\ UNCHANGED faults
  <2> DEFINE x == [s EXCEPT !.version = v.version + 1, !.ahead = FALSE]
  <2>1. v.version + 1 \in Nat /\ v.version = stored.version /\ v.version + 1 # v.version
    BY <1>0, <1>1 DEF Copies, VersionExpected
  <2>2. /\ x \in Copies /\ CopyInv(x) /\ x.version = v.version + 1
        /\ x.nodes = s.nodes /\ x.pc = s.pc
    BY <2>1, VersionApart DEF Follows
  <2>3. /\ stored'.nodes = v.nodes /\ stored'.status = v.status /\ stored'.version = v.version + 1
        /\ stored' \in Rows /\ stored'.exists
    BY <1>0, <1>1, <2>1 DEF Rows, Copies, VersionExpected
  <2>4. driver' = [driver EXCEPT ![d] = x]
    BY <1>1
  <2> HIDE DEF x
  <2>5. GraphTypes'
    BY <1>0, <1>1, <2>2, <2>3, <2>4 DEF GraphTypes
  <2>6. StoredGraphConsistent'
    BY <1>0, <2>3 DEF StoredGraphConsistent, CopyInv, Ordered
  <2>7. ASSUME NEW c \in Drivers PROVE CopyInv(driver'[c])
    BY <1>0, <2>2, <2>4 DEF GraphInv
  <2>8. ASSUME NEW c \in Drivers PROVE Fenced(driver'[c], stored')
    <3>1. CASE c # d
      <4>1. /\ driver'[c] = driver[c]
            /\ ~driver[c].ahead => driver[c].version <= stored.version
            /\ driver[c].version \in Nat /\ stored.version \in Nat
        BY <1>0, <1>1, <2>4, <2>8, <3>1 DEF FenceInv, Fenced, Copies, Rows
      <4> QED BY <4>1, <2>1, <2>3 DEF Fenced
    <3>2. CASE c = d
      <4>1. driver'[c] = x
        BY <1>0, <2>4, <3>2
      <4>2. s = NoDriver => x.pc = "idle"
        BY <2>2 DEF NoDriver
      <4>3. x.version <= stored'.version
        BY <2>1, <2>2, <2>3
      <4>4. x.pc = "idle" \/ \A n \in Nodes : stored'.nodes[n] = "completed" => x.nodes[n] = "completed"
        BY <4>2, <2>2, <2>3
      <4> QED BY <4>1, <4>3, <4>4 DEF Fenced
    <3> QED BY <3>1, <3>2
  <2>9. RowKept
    <3>1. driver'[d] # driver[d]
      BY <1>0, <2>1, <2>2, <2>4
    <3>2. v.ahead \/ \A n \in Nodes : stored.nodes[n] = "completed" => v.nodes[n] = "completed"
      BY <2>1 DEF FenceInv, Fenced
    <3> QED BY <2>3, <3>1, <3>2 DEF RowKept
  <2> QED BY <2>3, <2>5, <2>6, <2>7, <2>8, <2>9 DEF GraphInv, FenceInv
<1>2. CASE /\ ~VersionExpected(d)
           /\ driver' = [driver EXCEPT ![d] = e]
           /\ UNCHANGED <<stored, faults>>
  BY <1>2, CopyStep
<1>3. CASE /\ faults < MaxSaveFaults
           /\ faults' = faults + 1
           /\ driver' = [driver EXCEPT ![d] =
                  IF e = NoDriver THEN NoDriver
                  ELSE [e EXCEPT !.version = v.version + 1, !.ahead = TRUE]]
           /\ UNCHANGED stored
  <2> DEFINE x == IF e = NoDriver THEN NoDriver ELSE [e EXCEPT !.version = v.version + 1, !.ahead = TRUE]
  <2>1. v.version + 1 \in Nat
    BY <1>0 DEF Copies
  <2>2. x \in Copies /\ CopyInv(x) /\ Fenced(x, stored)
    <3>1. CASE e = NoDriver
      BY <1>0, <3>1, NoDriverFollows DEF Follows, Fenced, NoDriver, Rows
    <3>2. CASE e # NoDriver
      BY <2>1, <3>2, VersionApart DEF Follows, Fenced
    <3> QED BY <3>1, <3>2
  <2>3. driver' = [driver EXCEPT ![d] = x] /\ faults' \in Nat
    BY <1>0, <1>3
  <2> HIDE DEF x
  <2>4. GraphTypes' /\ StoredGraphConsistent' /\ (stored'.exists \/ stored' = Absent)
    BY <1>0, <1>3, <2>2, <2>3 DEF GraphTypes, GraphInv, StoredGraphConsistent
  <2>5. ASSUME NEW c \in Drivers PROVE CopyInv(driver'[c])
    BY <1>0, <2>2, <2>3 DEF GraphInv
  <2>6. ASSUME NEW c \in Drivers PROVE Fenced(driver'[c], stored')
    BY <1>0, <1>3, <2>2, <2>3 DEF FenceInv
  <2> QED BY <1>3, <2>4, <2>5, <2>6 DEF GraphInv, FenceInv, RowKept
<1> QED BY <1>1, <1>2, <1>3 DEF Saved
-----------------------------------------------------------------------------
(* The graph: the actions. *)

\* The parts of a copy when the task of one node goes on ...
LEMMA TaskFields ==
    ASSUME NEW v \in Copies, NEW n \in Nodes, NEW t \in TaskStates
    PROVE  /\ Task(v, n, t) \in Copies
           /\ Task(v, n, t).tasks = [v.tasks EXCEPT ![n] = t]
           /\ Task(v, n, t).nodes = v.nodes /\ Task(v, n, t).pc = v.pc
           /\ Task(v, n, t).status = v.status /\ Task(v, n, t).version = v.version
           /\ Task(v, n, t).ahead = v.ahead
BY DEF Task, Copies

\* ... and when an attempt of it is counted.
LEMMA AttemptFields ==
    ASSUME NEW v \in Copies, NEW n \in Nodes, NEW k \in Nat
    PROVE  /\ [v EXCEPT !.attempts[n] = k] \in Copies
           /\ [v EXCEPT !.attempts[n] = k].nodes = v.nodes
           /\ [v EXCEPT !.attempts[n] = k].tasks = v.tasks /\ [v EXCEPT !.attempts[n] = k].pc = v.pc
           /\ [v EXCEPT !.attempts[n] = k].status = v.status
           /\ [v EXCEPT !.attempts[n] = k].version = v.version
           /\ [v EXCEPT !.attempts[n] = k].ahead = v.ahead
BY DEF Copies

\* A copy that changed the state of one task, not to a working one, and nothing else.
LEMMA TaskEnds ==
    ASSUME NEW v \in Copies, CopyInv(v), v.pc # "idle", NEW n \in Nodes,
           NEW t \in {"done", "error", "timeout"}
    PROVE  Follows(v, Task(v, n, t)) /\ Task(v, n, t).nodes = v.nodes
<1> DEFINE w == Task(v, n, t)
<1>1. /\ w \in Copies /\ w.nodes = v.nodes /\ w.pc = v.pc /\ w.status = v.status
      /\ w.version = v.version /\ w.ahead = v.ahead /\ w.tasks = [v.tasks EXCEPT ![n] = t]
  BY DEF Task, Copies, TaskStates
<1> HIDE DEF w
<1>2. \A m \in Nodes : w.tasks[m] = IF m = n THEN t ELSE v.tasks[m]
  BY <1>1 DEF Copies
<1>3. CopyInv(w)
  BY <1>1, <1>2 DEF CopyInv, TaskAgrees, Working
<1>4. Follows(v, w) /\ w.nodes = v.nodes
  BY <1>1, <1>3 DEF Follows
<1> QED BY <1>4 DEF w

\* The working task of one node goes on and the node becomes what the task has it be:
\* its dependencies are completed, and no completed node is anything else after it.
LEMMA TaskGoesOn ==
    ASSUME NEW v \in Copies, CopyInv(v), v.pc = "waves", NEW n \in Nodes,
           v.tasks[n] \in Working, v.nodes[n] # "completed",
           NEW w \in Copies, w.pc = v.pc, w.status = v.status, w.version = v.version, w.ahead = v.ahead,
           \A m \in Nodes \ {n} : w.tasks[m] = v.tasks[m] /\ w.nodes[m] = v.nodes[m],
           \/ w.tasks[n] \in {"marking", "invoking"} /\ w.nodes[n] = "running"
           \/ w.tasks[n] = "storing" /\ w.nodes[n] \in {"completed", "failed"}
    PROVE  Follows(v, w)
<1>1. \A m \in Nodes : v.nodes[m] = "completed" => w.nodes[m] = "completed"
  OBVIOUS
<1>2. \A m \in Dependencies[n] : w.nodes[m] = "completed"
  BY <1>1, GraphParents DEF CopyInv, TaskAgrees
<1>3. Ordered(w.nodes)
  BY <1>1, <1>2, GraphParents DEF Ordered, CopyInv
<1>4. ASSUME NEW m \in Nodes PROVE TaskAgrees(w, m)
  BY <1>1, <1>2, GraphParents DEF TaskAgrees, CopyInv, Working
<1>5. CopyInv(w)
  BY <1>3, <1>4 DEF CopyInv
<1> QED BY <1>1, <1>5 DEF Follows

LEMMA RunGraphStep ==
    ASSUME GraphInv, FenceInv, NEW d \in Drivers, RunGraph(d)
    PROVE  GraphInv' /\ FenceInv' /\ RowKept
<1> DEFINE w == [NoDriver EXCEPT !.pc = "starting", !.status = "running", !.nodes = stored'.nodes]
<1>1. /\ stored' \in Rows /\ stored'.exists /\ stored'.version = 0
      /\ stored'.nodes = [n \in Nodes |-> "pending"] /\ stored'.status = "pending"
  BY DEF RunGraph, Rows, NodeStatuses
<1>2. /\ w \in Copies /\ w.nodes = stored'.nodes /\ w.tasks = [n \in Nodes |-> "none"]
      /\ w.status = "running" /\ w.pc = "starting" /\ w.version = 0
  BY <1>1 DEF NoDriver, Copies, NodeStatuses, TaskStates, Rows
<1>3. driver' = [driver EXCEPT ![d] = w] /\ drives' = drives + 1 /\ UNCHANGED faults /\ ~stored.exists
  BY DEF RunGraph
<1> HIDE DEF w
<1>4. GraphTypes'
  BY <1>1, <1>2, <1>3 DEF GraphInv, GraphTypes
<1>5. StoredGraphConsistent'
  BY <1>1 DEF StoredGraphConsistent
<1>6. CopyInv(w)
  BY <1>1, <1>2 DEF CopyInv, Ordered, TaskAgrees, Working
<1>7. \A c \in Drivers : CopyInv(driver'[c])
  BY <1>3, <1>6 DEF GraphInv, GraphTypes
<1>8. stored = Absent
  BY <1>3 DEF GraphInv
<1>9. ASSUME NEW c \in Drivers PROVE Fenced(driver'[c], stored')
  <2>1. ~driver[c].ahead => driver[c].version <= 0
    BY <1>8 DEF FenceInv, Fenced, Absent
  <2>2. \A n \in Nodes : stored'.nodes[n] # "completed"
    BY <1>1
  <2> QED BY <1>1, <1>2, <1>3, <2>1, <2>2 DEF GraphInv, GraphTypes, Fenced
<1>10. RowKept
  BY <1>8 DEF RowKept, Absent
<1> QED BY <1>1, <1>4, <1>5, <1>7, <1>9, <1>10 DEF GraphInv, FenceInv

LEMMA ResumeGraphStep ==
    ASSUME GraphInv, FenceInv, NEW d \in Drivers, ResumeGraph(d)
    PROVE  GraphInv' /\ FenceInv' /\ RowKept
<1> DEFINE w == [NoDriver EXCEPT !.pc = "starting", !.status = "running", !.version = stored.version,
                    !.nodes = [n \in Nodes |-> IF stored.nodes[n] = "running" THEN "pending"
                                               ELSE stored.nodes[n]]]
<1>0. stored \in Rows /\ driver \in [Drivers -> Copies] /\ faults \in Nat
  BY DEF GraphInv, GraphTypes
<1>1. /\ w \in Copies /\ w.tasks = [n \in Nodes |-> "none"] /\ w.version = stored.version
      /\ w.status = "running" /\ w.pc = "starting"
      /\ \A n \in Nodes : w.nodes[n] = IF stored.nodes[n] = "running" THEN "pending" ELSE stored.nodes[n]
  BY <1>0 DEF NoDriver, Copies, NodeStatuses, TaskStates, Rows
<1>2. driver' = [driver EXCEPT ![d] = w] /\ drives' = drives + 1 /\ UNCHANGED <<stored, faults>>
  BY DEF ResumeGraph
<1> HIDE DEF w
<1>3. GraphTypes' /\ StoredGraphConsistent' /\ (stored'.exists \/ stored' = Absent)
  BY <1>1, <1>2 DEF GraphInv, GraphTypes, StoredGraphConsistent
<1>4. Ordered(w.nodes)
  BY <1>1, GraphParents DEF GraphInv, StoredGraphConsistent, Ordered
<1>5. CopyInv(w)
  BY <1>1, <1>4 DEF CopyInv, TaskAgrees, Working
<1>6. \A c \in Drivers : CopyInv(driver'[c])
  BY <1>0, <1>2, <1>5 DEF GraphInv
<1>7. ASSUME NEW c \in Drivers PROVE Fenced(driver'[c], stored')
  <2>1. CASE c = d
    BY <1>0, <1>1, <1>2, <2>1 DEF Rows, Fenced
  <2>2. CASE c # d
    BY <1>0, <1>2, <1>7, <2>2 DEF FenceInv
  <2> QED BY <2>1, <2>2
<1> QED BY <1>2, <1>3, <1>6, <1>7 DEF GraphInv, FenceInv, RowKept

\* _schedule: a wave starts, ends or is interrupted.
LEMMA WaveStep ==
    ASSUME GraphInv, FenceInv, NEW d \in Drivers,
           \/ Wave(d) \/ WaveEnds(d) \/ Interrupted(d)
           \/ \E reason \in {"timeout", "cancel"} : Interrupt(d, reason)
    PROVE  GraphInv' /\ FenceInv' /\ RowKept
<1> DEFINE v == driver[d]
<1>0. v \in Copies /\ CopyInv(v) /\ drives \in Nat
  BY DEF GraphInv, GraphTypes
<1>1. ASSUME NEW status \in {"completed", "failed", "cancelled"}, v.pc # "idle",
             status = "completed" => \A n \in Nodes : v.nodes[n] = "completed"
      PROVE  Follows(v, Ends(v, status))
  <2> DEFINE w == Ends(v, status)
  <2>1. /\ w \in Copies /\ w.nodes = v.nodes /\ w.tasks = v.tasks /\ w.pc = "ending"
        /\ w.status = status /\ w.version = v.version /\ w.ahead = v.ahead
    BY <1>0 DEF Ends, Copies
  <2> HIDE DEF w
  <2>2. CopyInv(w)
    BY <1>0, <1>1, <2>1 DEF CopyInv, TaskAgrees
  <2>3. Follows(v, w)
    BY <1>1, <2>1, <2>2 DEF Follows
  <2> QED BY <2>3 DEF w
<1>2. CASE Wave(d)
  <2> DEFINE w == [v EXCEPT !.tasks = [n \in Nodes |-> IF n \in Ready(v) THEN "queued" ELSE "none"],
                            !.attempts = [n \in Nodes |-> 0]]
  <2>1. v.pc = "waves"
    BY <1>2 DEF Wave
  <2>2. /\ w \in Copies /\ w.nodes = v.nodes /\ w.pc = v.pc /\ w.status = v.status
        /\ w.version = v.version /\ w.ahead = v.ahead
        /\ \A n \in Nodes : w.tasks[n] = IF n \in Ready(v) THEN "queued" ELSE "none"
    BY <1>0 DEF Copies, TaskStates
  <2> HIDE DEF w
  <2>3. CopyInv(w)
    BY <1>0, <2>1, <2>2 DEF CopyInv, TaskAgrees, Working, Ready
  <2>4. Follows(v, w)
    BY <2>1, <2>2, <2>3 DEF Follows
  <2>5. PICK x : driver' = [driver EXCEPT ![d] = x] /\ Follows(v, x)
    BY <1>1, <1>2, <2>1, <2>4 DEF Wave, w
  <2> QED BY <1>0, <1>2, <2>5, CopyStep DEF Wave
<1>3. ASSUME v.pc # "idle", Busy(d) = {} PROVE Follows(v, TimedOut(v))
  <2> DEFINE cut == [n \in Nodes |-> IF v.nodes[n] \in {"pending", "running"} THEN "cancelled"
                                     ELSE v.nodes[n]]
             w == [Ends(v, "failed") EXCEPT !.nodes = cut]
  <2>2. /\ w \in Copies /\ w.nodes = cut /\ w.pc = "ending" /\ w.status = "failed"
        /\ w.version = v.version /\ w.ahead = v.ahead /\ w.tasks = v.tasks
    BY <1>0 DEF Ends, Copies, NodeStatuses
  <2>3. \A n \in Nodes : w.nodes[n] = IF v.nodes[n] \in {"pending", "running"} THEN "cancelled"
                                      ELSE v.nodes[n]
    BY <2>2
  <2> HIDE DEF w, cut
  <2>4. \A n \in Nodes : w.tasks[n] \notin Working
    BY <1>3, <2>2 DEF Busy, Working
  <2>5. Ordered(w.nodes)
    BY <1>0, <2>3, GraphParents DEF CopyInv, Ordered
  <2>6. CopyInv(w)
    BY <2>2, <2>4, <2>5 DEF CopyInv, TaskAgrees, Working
  <2>7. Follows(v, w)
    BY <1>3, <2>2, <2>3, <2>6 DEF Follows
  <2> QED BY <2>7 DEF w, cut, TimedOut
<1>4. CASE WaveEnds(d)
  <2> DEFINE w == [v EXCEPT !.tasks = [n \in Nodes |-> "none"]]
  <2>1. v.pc = "waves" /\ Busy(d) = {}
    BY <1>4 DEF WaveEnds
  <2>2. /\ w \in Copies /\ w.nodes = v.nodes /\ w.pc = v.pc /\ w.status = v.status
        /\ w.version = v.version /\ w.ahead = v.ahead /\ \A n \in Nodes : w.tasks[n] = "none"
    BY <1>0 DEF Copies, TaskStates
  <2> HIDE DEF w
  <2>3. CopyInv(w)
    BY <1>0, <2>1, <2>2 DEF CopyInv, TaskAgrees, Working
  <2>4. Follows(v, w)
    BY <2>1, <2>2, <2>3 DEF Follows
  <2>5. Follows(v, Ends(v, "failed")) /\ Follows(v, TimedOut(v))
    BY <1>1, <1>3, <2>1
  <2>6. \/ driver' = [driver EXCEPT ![d] = w]
        \/ driver' = [driver EXCEPT ![d] = TimedOut(v)]
        \/ driver' = [driver EXCEPT ![d] = Ends(v, "failed")]
    BY <1>4 DEF WaveEnds, w
  <2>7. PICK x : driver' = [driver EXCEPT ![d] = x] /\ Follows(v, x)
    BY <2>4, <2>5, <2>6
  <2> QED BY <1>0, <1>4, <2>7, CopyStep DEF WaveEnds
<1>6. CASE Interrupted(d)
  <2>1. v.pc = "interrupted" /\ Busy(d) = {}
    BY <1>6 DEF Interrupted
  <2>2. Follows(v, Ends(v, "cancelled")) /\ Follows(v, TimedOut(v))
    BY <1>1, <1>3, <2>1
  <2>3. PICK x : driver' = [driver EXCEPT ![d] = x] /\ Follows(v, x)
    BY <1>6, <2>2 DEF Interrupted
  <2> QED BY <1>0, <1>6, <2>3, CopyStep DEF Interrupted
<1>5. ASSUME NEW reason \in {"timeout", "cancel"}, Interrupt(d, reason)
      PROVE  GraphInv' /\ FenceInv' /\ RowKept
  <2> DEFINE x(k, b) == [v EXCEPT !.pc = "interrupted", !.reason = reason, !.version = k, !.ahead = b,
              !.nodes = [n \in Nodes |-> IF v.tasks[n] = "invoking" THEN "failed" ELSE v.nodes[n]],
              !.tasks = [n \in Nodes |-> CASE v.tasks[n] = "invoking" -> "storing"
                                           [] v.tasks[n] \in {"queued", "marking", "storing"} -> "error"
                                           [] OTHER -> v.tasks[n]]]
  <2>0. PICK k \in Nat, b \in BOOLEAN :
           /\ driver' = [driver EXCEPT ![d] = x(k, b)]
           /\ b \/ (k = v.version /\ b = v.ahead)
    <3>1. PICK cut \in BOOLEAN :
             driver' = [driver EXCEPT ![d] = x(IF cut THEN v.version + 1 ELSE v.version, v.ahead \/ cut)]
      BY <1>0, <1>5 DEF Interrupt, Copies
    <3>2. (IF cut THEN v.version + 1 ELSE v.version) \in Nat /\ (v.ahead \/ cut) \in BOOLEAN
      BY <1>0 DEF Copies
    <3>3. (v.ahead \/ cut) \/ ((IF cut THEN v.version + 1 ELSE v.version) = v.version
                                  /\ (v.ahead \/ cut) = v.ahead)
      BY <1>0 DEF Copies
    <3> HIDE DEF x
    <3> QED BY <3>1, <3>2, <3>3
  <2> DEFINE w == x(k, b)
  <2>1. v.pc = "waves" /\ driver' = [driver EXCEPT ![d] = w] /\ UNCHANGED <<stored, drives, faults>>
    BY <1>5, <2>0 DEF Interrupt
  <2>2. /\ w \in Copies /\ w.pc = "interrupted" /\ w.status = v.status
        /\ w.ahead \/ (w.version = v.version /\ w.ahead = v.ahead)
        /\ \A n \in Nodes :
              /\ w.nodes[n] = IF v.tasks[n] = "invoking" THEN "failed" ELSE v.nodes[n]
              /\ v.tasks[n] = "invoking" => w.tasks[n] = "storing"
              /\ v.tasks[n] # "invoking" => w.tasks[n] \notin Working
    BY <1>0, <2>0 DEF Copies, TaskStates, NodeStatuses, Working
  <2> HIDE DEF w
  <2>3. \A n \in Nodes : v.tasks[n] = "invoking" =>
             v.nodes[n] = "running" /\ \A m \in Dependencies[n] : v.nodes[m] = "completed"
    BY <1>0 DEF CopyInv, TaskAgrees, Working
  <2>4. \A n \in Nodes : v.nodes[n] = "completed" => w.nodes[n] = "completed"
    BY <2>2, <2>3
  <2>5. Ordered(w.nodes)
    BY <1>0, <2>2, <2>3, <2>4, GraphParents DEF CopyInv, Ordered
  <2>6. \A n \in Nodes : TaskAgrees(w, n)
    BY <2>2, <2>3, <2>4, GraphParents DEF TaskAgrees, Working
  <2>7. CopyInv(w)
    BY <1>0, <2>1, <2>2, <2>5, <2>6 DEF CopyInv
  <2>8. Follows(v, w)
    BY <2>1, <2>2, <2>4, <2>7 DEF Follows
  <2> QED BY <1>0, <2>1, <2>8, CopyStep
<1> QED BY <1>2, <1>4, <1>5, <1>6

\* _execute_node: what the task of one node does.
LEMMA NodeStep ==
    ASSUME GraphInv, FenceInv, NEW d \in Drivers, NEW n \in Nodes,
           \/ Mark(d, n) \/ SaveMark(d, n) \/ InputsFail(d, n) \/ SaveOutcome(d, n)
           \/ \E ok \in BOOLEAN : Invoke(d, n, ok)
    PROVE  GraphInv' /\ FenceInv' /\ RowKept
<1> DEFINE v == driver[d]
<1>0. /\ v \in Copies /\ CopyInv(v) /\ drives \in Nat /\ TaskAgrees(v, n)
      /\ driver \in [Drivers -> Copies]
  BY DEF GraphInv, GraphTypes, CopyInv
<1>1. CASE Mark(d, n)
  <2> DEFINE w == [Task(v, n, "marking") EXCEPT !.nodes[n] = "running"]
  <2>1. /\ v.pc = "waves" /\ v.tasks[n] = "queued" /\ driver' = [driver EXCEPT ![d] = w]
        /\ UNCHANGED <<stored, drives, faults>>
    BY <1>1 DEF Mark
  <2>2. /\ w \in Copies /\ w.pc = v.pc /\ w.status = v.status /\ w.version = v.version /\ w.ahead = v.ahead
        /\ \A m \in Nodes \ {n} : w.tasks[m] = v.tasks[m] /\ w.nodes[m] = v.nodes[m]
        /\ w.tasks[n] = "marking" /\ w.nodes[n] = "running"
    BY <1>0 DEF Task, Copies, NodeStatuses, TaskStates
  <2> HIDE DEF w
  <2>3. v.nodes[n] = "pending" /\ v.tasks[n] \in Working
    BY <1>0, <2>1 DEF TaskAgrees, Working
  <2>4. Follows(v, w)
    BY <1>0, <2>1, <2>2, <2>3, TaskGoesOn
  <2> QED BY <1>0, <2>1, <2>4, CopyStep
<1>2. CASE SaveMark(d, n)
  <2> DEFINE w == Task(v, n, "invoking")
  <2>1. v.pc = "waves" /\ v.tasks[n] = "marking" /\ Saved(d, v, w, Task(v, n, "error")) /\ drives' = drives
    BY <1>2 DEF SaveMark
  <2>2. v.nodes[n] = "running" /\ v.tasks[n] \in Working
    BY <1>0, <2>1 DEF TaskAgrees, Working
  <2>3. /\ w \in Copies /\ w.pc = v.pc /\ w.status = v.status /\ w.version = v.version /\ w.ahead = v.ahead
        /\ w.nodes = v.nodes /\ w.tasks = [v.tasks EXCEPT ![n] = "invoking"]
    BY <1>0, TaskFields DEF TaskStates
  <2>4. /\ \A m \in Nodes \ {n} : w.tasks[m] = v.tasks[m] /\ w.nodes[m] = v.nodes[m]
        /\ w.tasks[n] = "invoking" /\ w.nodes[n] = "running"
    BY <1>0, <2>2, <2>3 DEF Copies
  <2> HIDE DEF w
  <2>5. Follows(v, w)
    BY <1>0, <2>1, <2>2, <2>3, <2>4, TaskGoesOn, ZenonT(40)
  <2>6. Follows(v, Task(v, n, "error"))
    BY <1>0, <2>1, TaskEnds
  <2> QED BY <1>0, <2>1, <2>3, <2>5, <2>6, SavedStep
<1>3. CASE InputsFail(d, n)
  <2>1. /\ v.pc = "waves" /\ driver' = [driver EXCEPT ![d] = Task(v, n, "error")]
        /\ UNCHANGED <<stored, drives, faults>>
    BY <1>0, <1>3 DEF InputsFail
  <2>2. Follows(v, Task(v, n, "error"))
    BY <1>0, <2>1, TaskEnds
  <2> QED BY <1>0, <2>1, <2>2, CopyStep
<1>4. CASE SaveOutcome(d, n)
  <2>1. PICK t \in {"done", "error", "timeout"} :
           v.tasks[n] = "storing" /\ Saved(d, v, Task(v, n, t), Task(v, n, "error")) /\ drives' = drives
    BY <1>4 DEF SaveOutcome
  <2>2. v.pc # "idle"
    BY <1>0, <2>1 DEF CopyInv
  <2>3. Follows(v, Task(v, n, t)) /\ Task(v, n, t).nodes = v.nodes /\ Follows(v, Task(v, n, "error"))
    BY <1>0, <2>2, TaskEnds
  <2> QED BY <1>0, <2>1, <2>2, <2>3, SavedStep
<1>5. ASSUME NEW ok \in BOOLEAN, Invoke(d, n, ok) PROVE GraphInv' /\ FenceInv' /\ RowKept
  <2> DEFINE tried == [v EXCEPT !.attempts[n] = @ + 1]
             done(s) == [Task(v, n, "storing") EXCEPT !.nodes[n] = s]
  <2>1. v.pc = "waves" /\ v.tasks[n] = "invoking" /\ UNCHANGED <<stored, drives, faults>>
    BY <1>5 DEF Invoke
  <2>2. v.nodes[n] = "running" /\ v.tasks[n] \in Working
    BY <1>0, <2>1 DEF TaskAgrees, Working
  <2>3. ASSUME NEW s \in {"completed", "failed"} PROVE Follows(v, done(s))
    <3> DEFINE w == done(s)
    <3>1. /\ w \in Copies /\ w.pc = v.pc /\ w.status = v.status /\ w.version = v.version /\ w.ahead = v.ahead
          /\ \A m \in Nodes \ {n} : w.tasks[m] = v.tasks[m] /\ w.nodes[m] = v.nodes[m]
          /\ w.tasks[n] = "storing" /\ w.nodes[n] = s
      BY <1>0, <2>3 DEF Task, Copies, NodeStatuses, TaskStates
    <3> HIDE DEF w, tried, done
    <3>2. v.nodes[n] # "completed"
      BY <2>2
    <3>3. Follows(v, w)
      BY <1>0, <2>1, <2>2, <2>3, <3>1, <3>2, TaskGoesOn
    <3> QED BY <3>3 DEF w
  <2>4. Follows(v, tried)
    <3>1. /\ tried \in Copies /\ tried.pc = v.pc /\ tried.status = v.status
          /\ tried.version = v.version /\ tried.ahead = v.ahead /\ tried.nodes = v.nodes /\ tried.tasks = v.tasks
      <4>1. v.attempts[n] + 1 \in Nat
        BY <1>0 DEF Copies
      <4> QED BY <1>0, <4>1, AttemptFields
    <3> HIDE DEF tried
    <3>2. CopyInv(tried)
      BY <1>0, <3>1 DEF CopyInv, TaskAgrees
    <3> QED BY <2>1, <3>1, <3>2 DEF Follows
  <2>5. \/ driver' = [driver EXCEPT ![d] = tried]
        \/ \E s \in {"completed", "failed"} : driver' = [driver EXCEPT ![d] = done(s)]
    BY <1>5 DEF Invoke
  <2> HIDE DEF tried, done
  <2>6. PICK w : driver' = [driver EXCEPT ![d] = w] /\ Follows(v, w)
    BY <2>3, <2>4, <2>5
  <2> QED BY <1>0, <2>1, <2>6, CopyStep
<1> QED BY <1>1, <1>2, <1>3, <1>4, <1>5

\* The first and the last checkpoint of a call, and its process dying.
LEMMA CallStep ==
    ASSUME GraphInv, FenceInv, NEW d \in Drivers, Start(d) \/ Finish(d) \/ GraphCrash(d)
    PROVE  GraphInv' /\ FenceInv' /\ RowKept
<1> DEFINE v == driver[d]
<1>0. v \in Copies /\ CopyInv(v) /\ drives \in Nat
  BY DEF GraphInv, GraphTypes
<1>1. CASE Start(d)
  <2> DEFINE w == [v EXCEPT !.pc = "waves"]
  <2>1. v.pc = "starting" /\ Saved(d, v, w, NoDriver) /\ drives' = drives
    BY <1>1 DEF Start
  <2>2. /\ w \in Copies /\ w.pc = "waves" /\ w.status = v.status /\ w.version = v.version /\ w.ahead = v.ahead
        /\ w.nodes = v.nodes /\ w.tasks = v.tasks
    BY <1>0 DEF Copies
  <2> HIDE DEF w
  <2>3. CopyInv(w)
    BY <1>0, <2>1, <2>2 DEF CopyInv, TaskAgrees
  <2>4. Follows(v, w)
    BY <2>1, <2>2, <2>3 DEF Follows
  <2> QED BY <1>0, <2>1, <2>2, <2>4, NoDriverFollows, SavedStep
<1>2. CASE Finish(d)
  BY <1>0, <1>2, NoDriverFollows, SavedStep DEF Finish
<1>3. CASE GraphCrash(d)
  BY <1>0, <1>3, NoDriverFollows, CopyStep DEF GraphCrash
<1> QED BY <1>1, <1>2, <1>3

\* Every step keeps both invariants and the completed nodes of the row.
LEMMA GraphStep ==
    ASSUME GraphInv, FenceInv, [GraphNext]_graphVars
    PROVE  GraphInv' /\ FenceInv' /\ RowKept
<1>1. CASE UNCHANGED graphVars
  BY <1>1 DEF graphVars, GraphInv, GraphTypes, StoredGraphConsistent, FenceInv, RowKept
<1>2. ASSUME NEW d \in Drivers,
             \/ RunGraph(d) \/ ResumeGraph(d) \/ GraphCrash(d) \/ Engine(d)
             \/ \E reason \in {"timeout", "cancel"} : Interrupt(d, reason)
      PROVE  GraphInv' /\ FenceInv' /\ RowKept
  BY <1>2, RunGraphStep, ResumeGraphStep, CallStep, WaveStep, NodeStep DEF Engine
<1> QED BY <1>1, <1>2 DEF GraphNext

LEMMA GraphStarts == GraphInit => GraphInv /\ FenceInv
<1> SUFFICES ASSUME GraphInit PROVE GraphInv /\ FenceInv
  OBVIOUS
<1>1. stored = Absent /\ Absent \in Rows /\ driver = [d \in Drivers |-> NoDriver] /\ NoDriver \in Copies
  BY NoDriverFollows DEF GraphInit, Absent, Rows, NodeStatuses, Follows
<1>2. GraphTypes
  BY <1>1 DEF GraphInit, GraphTypes
<1>3. StoredGraphConsistent
  BY <1>1 DEF StoredGraphConsistent, Absent
<1>4. \A d \in Drivers : CopyInv(driver[d])
  BY <1>1, NoDriverFollows DEF Follows
<1>5. FenceInv
  BY <1>1 DEF FenceInv, Fenced, Absent, NoDriver
<1> QED BY <1>1, <1>2, <1>3, <1>4, <1>5 DEF GraphInv

\* Whichever drivers checkpoint with whatever copies, crash, time out or are fenced, the
\* row of a graph is consistent: a node was started only after all it depends on
\* completed, and a graph recorded as completed has no unfinished node.  It holds for
\* every graph that passes validate_dag.
THEOREM RowIsConsistent == GraphInit /\ [][GraphNext]_graphVars => []StoredGraphConsistent
<1>1. GraphInv /\ FenceInv /\ [GraphNext]_graphVars => (GraphInv /\ FenceInv)'
  BY GraphStep
<1>2. GraphInv => StoredGraphConsistent
  BY DEF GraphInv
<1> QED BY <1>1, <1>2, GraphStarts, PTL

\* A node the row says is completed stays completed: the expected version of
\* AnalyticalGraphStore.save keeps a driver with a stale copy from starting it again,
\* however many drivers work on the graph.  Only a driver one of whose own saves raised
\* or was interrupted, and left its copy ahead, is not kept from it.
THEOREM CompletedNodesStay == GraphInit /\ [][GraphNext]_graphVars => CompletedNodesKept
<1>1. GraphInv /\ FenceInv /\ [GraphNext]_graphVars => (GraphInv /\ FenceInv)'
  BY GraphStep
<1>2. GraphInv /\ FenceInv /\ [GraphNext]_graphVars => [RowKept]_graphVars
  BY GraphStep
<1> QED BY <1>1, <1>2, GraphStarts, PTL DEF CompletedNodesKept, RowKept

-----------------------------------------------------------------------------
(* The cache: the invariants. *)

\* A caller that owns a load is on its way to a result or an exception.
Owning == {"queued", "loading", "storing", "answering"}

\* A flight belongs to the caller that works on its key, and to no other.
OwnerInv ==
    /\ DOMAIN caller = Callers
    /\ flight \in [CacheKeys -> Callers \cup {Nobody}]
    /\ \A k \in CacheKeys : flight[k] # Nobody =>
          Key(flight[k]) = k /\ caller[flight[k]].pc \in Owning
    /\ \A c \in Callers : caller[c].pc \in Owning => flight[Key(c)] = c
    /\ \A c \in Callers : caller[c].pc = "waiting" => flight[Key(c)] # Nobody

\* An entry lies under its loader's key, a caller at work was allowed, and rows come
\* from a caller with the same key.
ScopeInv ==
    /\ \A e \in entries : e.by \in Callers /\ e.key = Key(e.by)
    /\ \A c \in Callers : caller[c].pc # "idle" => Allowed(RequestOf[c])
    /\ \A c \in Callers : caller[c].answer.kind = "rows" =>
          /\ Allowed(RequestOf[c])
          /\ caller[c].answer.by \in Callers
          /\ Key(caller[c].answer.by) = Key(c)

\* The index lists an entry under each of its tags, and an invalidation under way holds
\* its key; an entry stored in the middle of one is excepted.
Indexed(e) ==
    /\ e.tags \subseteq Tags
    /\ Memory \/ e.live
    /\ ~e.raced => \A s \in e.tags : /\ e.stored[s] = epoch[s]
                                     /\ e.key \in tagged[s]
                                     /\ invalidation.tag = s => e.key \in invalidation.keys

IndexInv ==
    /\ DOMAIN tagged = Tags
    /\ DOMAIN epoch = Tags
    /\ invalidation.tag \in Tags \cup {Nobody}
    /\ Memory => invalidation.tag = Nobody
    /\ \A e \in entries : Indexed(e)

-----------------------------------------------------------------------------
(* The cache: whose load it is. *)

LEMMA KeyInKeys == \A c \in Callers : Key(c) \in CacheKeys
BY DEF CacheKeys

\* No step changes the scope: keys stay what they are.
LEMMA KeysStay ==
    ASSUME config' = config
    PROVE  CacheKeys' = CacheKeys /\ \A c : Key(c)' = Key(c)
BY DEF CacheKeys, Key

LEMMA ConfigKept == ASSUME [CacheNext]_cacheVars PROVE config' = config
BY DEF CacheNext, cacheVars, Query, Hit, Miss, Join, StartLoad, LoadSucceeds, StoreValue, Answer,
       OwnerFails, CancelCaller, Expire, Invalidate, ReadMembers, DeleteMembers, InvalidationFails

\* Caller c alone goes on, to one of the given places.
GoesTo(c, places) ==
    /\ DOMAIN caller' = Callers
    /\ \A d \in Callers \ {c} : caller'[d] = caller[d]
    /\ caller'[c].pc \in places

\* What the steps of a caller do to it and to the flights, its answer left out.
CallerStep(c) ==
    \/ caller[c].pc \notin Owning /\ GoesTo(c, {"idle", "lookup", "joining"}) /\ UNCHANGED flight
    \/ caller[c].pc \in Owning /\ GoesTo(c, Owning) /\ UNCHANGED flight
    \/ /\ caller[c].pc = "joining" /\ flight[Key(c)] = Nobody /\ GoesTo(c, {"queued"})
       /\ flight' = [flight EXCEPT ![Key(c)] = c]
    \/ caller[c].pc = "joining" /\ flight[Key(c)] # Nobody /\ GoesTo(c, {"waiting"}) /\ UNCHANGED flight
    \/ /\ flight[Key(c)] = c
       /\ DOMAIN caller' = Callers
       /\ \A d \in Callers : IF d \in Waiters(c) \cup {c} THEN caller'[d].pc = "idle"
                             ELSE caller'[d] = caller[d]
       /\ flight' = [flight EXCEPT ![Key(c)] = Nobody]

LEMMA CallersStep ==
    ASSUME OwnerInv, [CacheNext]_cacheVars
    PROVE  UNCHANGED <<caller, flight>> \/ \E c \in Callers : CallerStep(c)
<1>0. ASSUME NEW c \in Callers, NEW pc, NEW answer, NEW places, pc \in places,
             caller' = [caller EXCEPT ![c] = [pc |-> pc, answer |-> answer]]
      PROVE  GoesTo(c, places)
  BY <1>0 DEF GoesTo, OwnerInv
<1>1. ASSUME NEW c \in Callers, Query(c) PROVE CallerStep(c)
  <2>1. GoesTo(c, {"idle", "lookup", "joining"})
    BY <1>0, <1>1 DEF Query, Moves, Answered
  <2> QED BY <1>1, <2>1 DEF Query, CallerStep, Owning
<1>2. ASSUME NEW c \in Callers, Hit(c) PROVE CallerStep(c)
  <2>1. GoesTo(c, {"idle", "lookup", "joining"})
    BY <1>2 DEF Hit, RowsFor, Answered, GoesTo, OwnerInv
  <2> QED BY <1>2, <2>1 DEF Hit, CallerStep, Owning
<1>3. ASSUME NEW c \in Callers, Miss(c) PROVE CallerStep(c)
  <2>1. GoesTo(c, {"idle", "lookup", "joining"})
    BY <1>3 DEF Miss, Moves, GoesTo, OwnerInv
  <2> QED BY <1>3, <2>1 DEF Miss, CallerStep, Owning
<1>4. ASSUME NEW c \in Callers, CancelCaller(c) PROVE CallerStep(c)
  <2>1. GoesTo(c, {"idle", "lookup", "joining"})
    BY <1>4 DEF CancelCaller, Answered, GoesTo, OwnerInv
  <2> QED BY <1>4, <2>1 DEF CancelCaller, CallerStep, Owning
<1>5. ASSUME NEW c \in Callers, StartLoad(c) \/ LoadSucceeds(c) \/ StoreValue(c) PROVE CallerStep(c)
  <2>1. GoesTo(c, Owning)
    BY <1>0, <1>5 DEF StartLoad, LoadSucceeds, StoreValue, Moves, Owning
  <2> QED BY <1>5, <2>1 DEF StartLoad, LoadSucceeds, StoreValue, CallerStep, Owning
<1>6. ASSUME NEW c \in Callers, Answer(c) PROVE CallerStep(c)
  <2>1. \A d : RowsFor(d, c).pc = "idle"
    BY DEF RowsFor, Answered
  <2>2. flight[Key(c)] = c
    BY <1>6 DEF Answer, OwnerInv, Owning
  <2> QED BY <1>6, <2>1, <2>2 DEF CallerStep, Answer
<1>7. ASSUME NEW c \in Callers, NEW kind \in {"error", "cancelled"}, OwnerFails(c, kind)
      PROVE  CallerStep(c)
  <2>1. \A d : Answered(d, kind, Nobody).pc = "idle"
    BY DEF Answered
  <2> QED BY <1>7, <2>1 DEF CallerStep, OwnerFails, WhoFails
<1>8. CASE \/ UNCHANGED cacheVars
           \/ \E k \in CacheKeys : Expire(k)
           \/ \E s \in Tags : Invalidate(s) \/ ReadMembers(s)
           \/ DeleteMembers \/ InvalidationFails
  BY <1>8 DEF cacheVars, Expire, Invalidate, ReadMembers, DeleteMembers, InvalidationFails
<1>9. ASSUME NEW c \in Callers, Join(c) PROVE CallerStep(c)
  <2>1. CASE flight[Key(c)] = Nobody
    <3>1. GoesTo(c, {"queued"})
      BY <1>0, <1>9, <2>1 DEF Join, Moves
    <3> QED BY <1>9, <2>1, <3>1 DEF CallerStep, Join
  <2>2. CASE flight[Key(c)] # Nobody
    <3>1. GoesTo(c, {"waiting"})
      BY <1>0, <1>9, <2>2 DEF Join, Moves
    <3> QED BY <1>9, <2>2, <3>1 DEF CallerStep, Join
  <2> QED BY <2>1, <2>2
<1> QED BY <1>1, <1>2, <1>3, <1>4, <1>5, <1>6, <1>7, <1>8, <1>9 DEF CacheNext

\* Only the owner of a key ends its flight, and it takes all that wait for it along.
LEMMA OwnersStep ==
    ASSUME OwnerInv, config' = config, NEW c \in Callers, CallerStep(c)
    PROVE  OwnerInv'
<1>0. /\ CacheKeys' = CacheKeys /\ \A d \in Callers : Key(d) \in CacheKeys
      /\ \A d \in Callers : Key(d)' = Key(d)
  BY KeysStay, KeyInKeys
<1> DEFINE Tables == DOMAIN caller' = Callers /\ flight' \in [CacheKeys -> Callers \cup {Nobody}]
           OwnedFlights == \A k \in CacheKeys : flight'[k] # Nobody =>
                       Key(flight'[k]) = k /\ caller'[flight'[k]].pc \in Owning
           Own == \A d \in Callers : caller'[d].pc \in Owning => flight'[Key(d)] = d
           Wait == \A d \in Callers : caller'[d].pc = "waiting" => flight'[Key(d)] # Nobody
           Inv == Tables /\ OwnedFlights /\ Own /\ Wait
<1>1. Inv => OwnerInv'
  BY <1>0 DEF OwnerInv, Key, CacheKeys
<1>2. CASE caller[c].pc \notin Owning /\ GoesTo(c, {"idle", "lookup", "joining"}) /\ UNCHANGED flight
  BY <1>0, <1>2 DEF OwnerInv, Owning, GoesTo
<1>3. CASE caller[c].pc \in Owning /\ GoesTo(c, Owning) /\ UNCHANGED flight
  BY <1>0, <1>3 DEF OwnerInv, Owning, GoesTo
<1>4. CASE /\ caller[c].pc = "joining" /\ flight[Key(c)] = Nobody /\ GoesTo(c, {"queued"})
           /\ flight' = [flight EXCEPT ![Key(c)] = c]
  <2>1. \A k \in CacheKeys : flight'[k] = IF k = Key(c) THEN c ELSE flight[k]
    BY <1>0, <1>4 DEF OwnerInv
  <2>2. Tables
    BY <1>0, <1>4 DEF OwnerInv, GoesTo
  <2>3. ASSUME NEW k \in CacheKeys, flight'[k] # Nobody
        PROVE  Key(flight'[k]) = k /\ caller'[flight'[k]].pc \in Owning
    BY <1>4, <2>1, <2>3 DEF OwnerInv, Owning, GoesTo
  <2>4. ASSUME NEW d \in Callers, caller'[d].pc \in Owning PROVE flight'[Key(d)] = d
    BY <1>0, <1>4, <2>1, <2>4, NobodyAssumption DEF OwnerInv, GoesTo
  <2>5. ASSUME NEW d \in Callers, caller'[d].pc = "waiting" PROVE flight'[Key(d)] # Nobody
    BY <1>0, <1>4, <2>1, <2>5, NobodyAssumption DEF OwnerInv, GoesTo
  <2>6. OwnedFlights
    BY <2>3
  <2>7. Own
    BY <2>4
  <2>8. Wait
    BY <2>5
  <2> HIDE DEF Tables, OwnedFlights, Own, Wait
  <2> QED BY <1>1, <2>2, <2>6, <2>7, <2>8
<1>5. CASE caller[c].pc = "joining" /\ flight[Key(c)] # Nobody /\ GoesTo(c, {"waiting"}) /\ UNCHANGED flight
  BY <1>0, <1>5 DEF OwnerInv, Owning, GoesTo
<1>6. CASE /\ flight[Key(c)] = c
           /\ DOMAIN caller' = Callers
           /\ \A d \in Callers : IF d \in Waiters(c) \cup {c} THEN caller'[d].pc = "idle"
                                 ELSE caller'[d] = caller[d]
           /\ flight' = [flight EXCEPT ![Key(c)] = Nobody]
  <2>1. \A k \in CacheKeys : flight'[k] = IF k = Key(c) THEN Nobody ELSE flight[k]
    BY <1>0, <1>6 DEF OwnerInv
  <2>2. Tables
    BY <1>0, <1>6 DEF OwnerInv
  <2>3. \A d \in Callers : \/ caller'[d] = caller[d] /\ d # c /\ d \notin Waiters(c)
                           \/ caller'[d].pc = "idle" /\ d \in Waiters(c) \cup {c}
    BY <1>6
  <2>4. ASSUME NEW k \in CacheKeys, flight'[k] # Nobody
        PROVE  Key(flight'[k]) = k /\ caller'[flight'[k]].pc \in Owning
    <3>1. k # Key(c) /\ flight'[k] = flight[k] /\ flight[k] # Nobody
      BY <2>1, <2>4
    <3>2. flight[k] \in Callers /\ Key(flight[k]) = k /\ caller[flight[k]].pc \in Owning
      BY <3>1 DEF OwnerInv
    <3>3. flight[k] \notin Waiters(c) /\ flight[k] # c
      BY <3>1, <3>2 DEF Waiters, Owning
    <3> QED BY <2>3, <3>1, <3>2, <3>3
  <2>5. ASSUME NEW d \in Callers, caller'[d].pc \in Owning PROVE flight'[Key(d)] = d
    BY <1>0, <1>6, <2>1, <2>3, <2>5, NobodyAssumption DEF OwnerInv, Owning
  <2>6. ASSUME NEW d \in Callers, caller'[d].pc = "waiting" PROVE flight'[Key(d)] # Nobody
    BY <1>0, <1>6, <2>1, <2>3, <2>6 DEF OwnerInv, Waiters
  <2>7. OwnedFlights
    BY <2>4
  <2>8. Own
    BY <2>5
  <2>9. Wait
    BY <2>6
  <2> HIDE DEF Tables, OwnedFlights, Own, Wait
  <2> QED BY <1>1, <2>2, <2>7, <2>8, <2>9
<1> QED BY <1>1, <1>2, <1>3, <1>4, <1>5, <1>6 DEF CallerStep

LEMMA OwnersStart == CacheInit => OwnerInv
BY DEF CacheInit, OwnerInv, Owning

LEMMA OwnersKept == ASSUME OwnerInv, [CacheNext]_cacheVars PROVE OwnerInv'
<1>1. config' = config
  BY ConfigKept
<1>2. CASE UNCHANGED <<caller, flight>>
  BY <1>1, <1>2 DEF OwnerInv, Key, CacheKeys
<1> QED BY <1>1, <1>2, CallersStep, OwnersStep

\* Nobody waits for a load that nobody makes: the flight a caller waits for has an owner
\* on its way to a result or an exception, for any number of callers, whenever loads
\* fail, owners or waiters are cancelled and other callers take the key over.
THEOREM WaitersServed == CacheInit /\ [][CacheNext]_cacheVars => []WaitersHaveAnOwner
<1>1. CacheInit => OwnerInv
  BY OwnersStart
<1>2. OwnerInv /\ [CacheNext]_cacheVars => OwnerInv'
  BY OwnersKept
<1>3. OwnerInv => WaitersHaveAnOwner
  BY KeyInKeys DEF OwnerInv, WaitersHaveAnOwner, Owning
<1> QED BY <1>1, <1>2, <1>3, PTL

-----------------------------------------------------------------------------
(* The cache: whose rows they are. *)

LEMMA ScopeStarts == CacheInit => ScopeInv
BY DEF CacheInit, ScopeInv, NoAnswer

\* The store keeps what was there, or the entry of a caller that loaded.
LEMMA EntriesStep ==
    ASSUME [CacheNext]_cacheVars
    PROVE  \A e \in entries' : \/ \E x \in entries : e.by = x.by /\ e.key = x.key
                               \/ e.by \in Callers /\ e.key = Key(e.by)
<1> SUFFICES ASSUME NEW e \in entries'
             PROVE  \/ \E x \in entries : e.by = x.by /\ e.key = x.key
                    \/ e.by \in Callers /\ e.key = Key(e.by)
  OBVIOUS
<1>1. ASSUME NEW keys, Drop(keys) PROVE e \in entries
  BY <1>1 DEF Drop, Without
<1>2. ASSUME NEW c \in Callers, StoreValue(c)
      PROVE  e \in entries \/ (e.by \in Callers /\ e.key = Key(e.by))
  <2>1. NewEntry(c).by = c /\ NewEntry(c).key = Key(c)
    BY DEF NewEntry
  <2>2. CASE SetEntry(NewEntry(c))
    <3>1. entries' \subseteq Without({NewEntry(c).key}) \cup {NewEntry(c)}
      BY <2>2 DEF SetEntry
    <3> QED BY <2>1, <3>1 DEF Without
  <2> QED BY <1>2, <2>2 DEF StoreValue
<1>3. ASSUME NEW k, Expire(k) PROVE \E x \in entries : e.by = x.by /\ e.key = x.key
  <2>1. CASE Memory
    <3>1. PICK x \in entries : e = [x EXCEPT !.live = @ /\ x.key # k]
      BY <1>3, <2>1 DEF Expire
    <3> QED BY <3>1
  <2> QED BY <1>1, <1>3, <2>1 DEF Expire
<1>4. CASE \E c \in Callers : Miss(c)
  BY <1>1, <1>4 DEF Miss
<1>5. CASE (\E s \in Tags : Invalidate(s)) \/ DeleteMembers
  BY <1>1, <1>5 DEF Invalidate, DeleteMembers
<1>6. CASE UNCHANGED entries
  BY <1>6
<1> QED BY <1>2, <1>3, <1>4, <1>5, <1>6
    DEF CacheNext, cacheVars, Query, Hit, Join, StartLoad, LoadSucceeds, Answer, OwnerFails,
        CancelCaller, ReadMembers, InvalidationFails

LEMMA ScopeStep ==
    ASSUME ScopeInv, OwnerInv, [CacheNext]_cacheVars
    PROVE  ScopeInv'
<1>0. config' = config /\ DOMAIN caller = Callers
  BY ConfigKept DEF OwnerInv
<1> DEFINE Fine(c, v) ==
      /\ v.pc # "idle" => Allowed(RequestOf[c])
      /\ v.answer.kind = "rows" =>
            Allowed(RequestOf[c]) /\ v.answer.by \in Callers /\ Key(v.answer.by) = Key(c)
<1>1. \A c \in Callers : Fine(c, caller[c])
  BY DEF ScopeInv
<1>2. ASSUME NEW c, NEW pc, pc = "idle" \/ Allowed(RequestOf[c]) PROVE Fine(c, [pc |-> pc, answer |-> NoAnswer])
  BY <1>2 DEF NoAnswer
<1>3. ASSUME NEW c, NEW kind \in {"denied", "error", "cancelled"} PROVE Fine(c, Answered(c, kind, Nobody))
  BY DEF Answered
<1>4. ASSUME NEW c, NEW d \in Callers, Allowed(RequestOf[c]), Key(d) = Key(c) PROVE Fine(c, RowsFor(c, d))
  BY <1>4 DEF RowsFor, Answered
<1>5. ASSUME NEW c \in Callers, NEW v, caller' = [caller EXCEPT ![c] = v], Fine(c, v)
      PROVE  \A d \in Callers : Fine(d, caller'[d])
  <2>1. \A d \in Callers : caller'[d] = IF d = c THEN v ELSE caller[d]
    BY <1>0, <1>5
  <2> HIDE DEF Fine
  <2> QED BY <1>1, <1>5, <2>1
<1> HIDE DEF Fine
<1>6. ASSUME NEW c \in Callers, NEW pc, Moves(c, pc), caller[c].pc # "idle"
      PROVE  \A d \in Callers : Fine(d, caller'[d])
  <2>1. Allowed(RequestOf[c])
    BY <1>6 DEF ScopeInv
  <2> QED BY <1>2, <1>5, <1>6, <2>1 DEF Moves
<1>7. ASSUME NEW c \in Callers, Query(c) PROVE \A d \in Callers : Fine(d, caller'[d])
  BY <1>2, <1>3, <1>5, <1>7 DEF Query, Moves
<1>8. ASSUME NEW c \in Callers, Hit(c) PROVE \A d \in Callers : Fine(d, caller'[d])
  <2>1. PICK e \in Entry(Key(c)) : caller' = [caller EXCEPT ![c] = RowsFor(c, e.by)]
    BY <1>8 DEF Hit
  <2>2. e.by \in Callers /\ Key(e.by) = Key(c) /\ Allowed(RequestOf[c])
    BY <1>8, <2>1 DEF Entry, ScopeInv, Hit
  <2> QED BY <1>4, <1>5, <2>1, <2>2
<1>9. ASSUME NEW c \in Callers, CancelCaller(c) PROVE \A d \in Callers : Fine(d, caller'[d])
  BY <1>3, <1>5, <1>9 DEF CancelCaller
<1>10. ASSUME NEW c \in Callers,
              Miss(c) \/ Join(c) \/ StartLoad(c) \/ LoadSucceeds(c) \/ StoreValue(c)
       PROVE  \A d \in Callers : Fine(d, caller'[d])
  BY <1>6, <1>10 DEF Miss, Join, StartLoad, LoadSucceeds, StoreValue
<1>11. ASSUME NEW c \in Callers, Answer(c) PROVE \A d \in Callers : Fine(d, caller'[d])
  <2>1. \A d \in Waiters(c) \cup {c} : Key(c) = Key(d) /\ Allowed(RequestOf[d])
    BY <1>11 DEF Waiters, ScopeInv, Answer
  <2> QED BY <1>1, <1>4, <1>11, <2>1 DEF Answer
<1>12. ASSUME NEW c \in Callers, NEW kind \in {"error", "cancelled"}, OwnerFails(c, kind)
       PROVE  \A d \in Callers : Fine(d, caller'[d])
  BY <1>1, <1>3, <1>12 DEF OwnerFails
<1>13. ASSUME \/ UNCHANGED cacheVars
              \/ \E k \in CacheKeys : Expire(k)
              \/ \E s \in Tags : Invalidate(s) \/ ReadMembers(s)
              \/ DeleteMembers \/ InvalidationFails
       PROVE  \A d \in Callers : Fine(d, caller'[d])
  <2>1. caller' = caller
    BY <1>13 DEF cacheVars, Expire, Invalidate, ReadMembers, DeleteMembers, InvalidationFails
  <2> QED BY <1>1, <2>1
<1>14. \A d \in Callers : Fine(d, caller'[d])
  BY <1>7, <1>8, <1>9, <1>10, <1>11, <1>12, <1>13 DEF CacheNext
<1>15. \A e \in entries' : e.by \in Callers /\ e.key = Key(e.by)
  BY EntriesStep DEF ScopeInv
<1> QED BY <1>0, <1>14, <1>15 DEF ScopeInv, Key, Fine

\* Rows reach a caller only if governance allows its own request, and only rows loaded
\* for the same query by a caller of its scope and authorization, for any requests and
\* any configuration, from the store, from another caller's load, before and after
\* entries are replaced, evicted, invalidated or expire.
THEOREM RowsInScope == CacheInit /\ [][CacheNext]_cacheVars => []RowsStayInScope
<1>1. CacheInit => OwnerInv /\ ScopeInv
  BY ScopeStarts, OwnersStart
<1>2. OwnerInv /\ ScopeInv /\ [CacheNext]_cacheVars => (OwnerInv /\ ScopeInv)'
  BY OwnersKept, ScopeStep
<1>3. ASSUME ScopeInv PROVE RowsStayInScope
  <2> SUFFICES ASSUME NEW c \in Callers, caller[c].answer.kind = "rows"
               PROVE  LET mine == RequestOf[c]
                          theirs == RequestOf[caller[c].answer.by]
                      IN  /\ Allowed(mine)
                          /\ mine.query = theirs.query /\ mine.fingerprint = theirs.fingerprint
                          /\ config.scope \in {"tenant", "user"} => mine.tenant = theirs.tenant
                          /\ config.scope = "user" => mine.user = theirs.user
    BY DEF RowsStayInScope
  <2> DEFINE d == caller[c].answer.by
  <2>1. Allowed(RequestOf[c]) /\ Key(d) = Key(c)
    BY <1>3 DEF ScopeInv
  <2> HIDE DEF d
  <2>2. /\ RequestOf[c].query = RequestOf[d].query /\ RequestOf[c].fingerprint = RequestOf[d].fingerprint
        /\ ScopeMaterial(config.scope, RequestOf[c]) = ScopeMaterial(config.scope, RequestOf[d])
    BY <2>1 DEF Key
  <2>3. CASE config.scope = "user"
    BY <2>1, <2>2, <2>3 DEF ScopeMaterial, d
  <2>4. CASE config.scope = "tenant"
    BY <2>1, <2>2, <2>4 DEF ScopeMaterial, d
  <2>5. CASE config.scope \notin {"tenant", "user"}
    BY <2>1, <2>2, <2>5 DEF d
  <2> QED BY <2>3, <2>4, <2>5
<1> QED BY <1>1, <1>2, <1>3, PTL

-----------------------------------------------------------------------------
(* The cache: what an invalidation leaves. *)

LEMMA IndexStarts == CacheInit => IndexInv
BY DEF CacheInit, IndexInv

\* The tags of entries that leave the store are taken from the index; an entry under
\* another key stays listed.
LEMMA UntaggedKeeps ==
    ASSUME NEW index, NEW gone, NEW e, e.tags \subseteq Tags, \A x \in gone : x.key # e.key
    PROVE  /\ DOMAIN Untagged(index, gone) = Tags
           /\ \A s \in e.tags : e.key \in index[s] => e.key \in Untagged(index, gone)[s]
BY DEF Untagged

\* An entry is listed under its tags once it is set, and the others still are.
LEMMA IndexAfterSetLists ==
    ASSUME NEW e, e.tags \subseteq Tags
    PROVE  /\ DOMAIN IndexAfterSet(e) = Tags
           /\ \A s \in e.tags : e.key \in IndexAfterSet(e)[s]
           /\ \A x : (x.tags \subseteq Tags /\ x.key # e.key) =>
                 \A s \in x.tags : x.key \in tagged[s] => x.key \in IndexAfterSet(e)[s]
<1>1. \A index : DOMAIN Listed(index, e) = Tags /\ \A s \in e.tags : e.key \in Listed(index, e)[s]
  BY DEF Listed
<1>2. \A index : \A s \in Tags : index[s] \subseteq Listed(index, e)[s]
  BY DEF Listed
<1>3. ASSUME NEW x, x.tags \subseteq Tags, x.key # e.key, NEW s \in x.tags, x.key \in tagged[s]
      PROVE  x.key \in Untagged(tagged, Entry(e.key))[s]
  BY <1>3 DEF Untagged, Entry
<1> QED BY <1>1, <1>2, <1>3 DEF IndexAfterSet

LEMMA StoreIndexes ==
    ASSUME IndexInv, NEW c \in Callers, StoreValue(c)
    PROVE  IndexInv'
<1> DEFINE e == NewEntry(c)
<1>0. /\ UNCHANGED <<config, epoch, invalidation>>
      /\ SetEntry(e) \/ UNCHANGED <<entries, tagged>>
  BY DEF StoreValue
<1>1. CASE UNCHANGED <<entries, tagged>>
  BY <1>0, <1>1 DEF IndexInv, Indexed, Memory
<1>2. CASE SetEntry(e)
  <2>1. /\ e.key = Key(c) /\ e.tags = RequestOf[c].sources /\ e.live /\ e.stored = epoch
        /\ e.raced = (invalidation.tag \in e.tags)
    BY DEF NewEntry
  <2>2. e.tags \subseteq Tags
    BY <2>1, SourcesAssumption
  <2> HIDE DEF e
  <2> DEFINE all == Without({e.key}) \cup {e}
  <2>3. PICK gone : /\ \A x \in all \ gone : \A y \in gone : y.key # x.key
                    /\ entries' = all \ gone
                    /\ tagged' = Untagged(IndexAfterSet(e), gone)
    BY <1>2 DEF SetEntry
  <2>4. DOMAIN tagged' = Tags
    BY <2>3 DEF Untagged
  <2>5. ASSUME NEW x \in entries' PROVE Indexed(x)'
    <3>1. x \in all \ gone /\ (x = e \/ (x \in entries /\ x.key # e.key))
      BY <2>3 DEF Without
    <3>2. x.tags \subseteq Tags /\ (Memory \/ x.live)
      BY <2>1, <2>2, <3>1 DEF IndexInv, Indexed
    <3>3. ASSUME ~x.raced, NEW s \in x.tags
          PROVE  /\ x.stored[s] = epoch[s]
                 /\ x.key \in IndexAfterSet(e)[s]
                 /\ invalidation.tag = s => x.key \in invalidation.keys
      <4>1. CASE x = e
        BY <2>1, <2>2, <3>3, <4>1, IndexAfterSetLists
      <4>2. CASE x \in entries /\ x.key # e.key
        BY <2>2, <3>2, <3>3, <4>2, IndexAfterSetLists DEF IndexInv, Indexed
      <4> QED BY <3>1, <4>1, <4>2
    <3>4. ASSUME ~x.raced, NEW s \in x.tags PROVE x.key \in tagged'[s]
      BY <2>3, <3>1, <3>2, <3>3, <3>4, UntaggedKeeps
    <3> QED BY <1>0, <3>2, <3>3, <3>4 DEF Indexed, Memory
  <2> QED BY <1>0, <2>4, <2>5 DEF IndexInv, Memory
<1> QED BY <1>0, <1>1, <1>2

LEMMA IndexStep ==
    ASSUME IndexInv, [CacheNext]_cacheVars
    PROVE  IndexInv'
<1>0. config' = config /\ (Memory' <=> Memory)
  BY ConfigKept DEF Memory
<1>1. CASE UNCHANGED <<entries, tagged, epoch, invalidation>>
  BY <1>0, <1>1 DEF IndexInv, Indexed
<1>2. ASSUME NEW c \in Callers, Miss(c) PROVE IndexInv'
  <2> DEFINE expired == {e \in Entry(Key(c)) : ~e.live}
  <2>1. UNCHANGED <<epoch, invalidation>>
    BY <1>2 DEF Miss
  <2>2. CASE expired = {}
    BY <1>1, <1>2, <2>1, <2>2 DEF Miss
  <2>3. CASE expired # {}
    <3>1. entries' = Without({Key(c)}) /\ tagged' = Untagged(tagged, expired)
      BY <1>2, <2>3 DEF Miss, Drop
    <3>2. \A e \in entries' : e \in entries /\ \A x \in expired : x.key # e.key
      BY <3>1 DEF Without, Entry
    <3> HIDE DEF expired
    <3>3. ASSUME NEW e \in entries', ~e.raced, NEW s \in e.tags PROVE e.key \in tagged'[s]
      BY <3>1, <3>2, <3>3, UntaggedKeeps DEF IndexInv, Indexed
    <3>4. DOMAIN tagged' = Tags
      BY <3>1 DEF Untagged
    <3> QED BY <1>0, <2>1, <3>2, <3>3, <3>4 DEF IndexInv, Indexed
  <2> QED BY <2>2, <2>3
<1>3. ASSUME NEW k, Expire(k) PROVE IndexInv'
  <2>1. UNCHANGED <<tagged, epoch, invalidation>>
    BY <1>3 DEF Expire
  <2>2. CASE Memory
    <3>1. ASSUME NEW e \in entries' PROVE Indexed(e)'
      <4>1. PICK x \in entries : e = [x EXCEPT !.live = @ /\ x.key # k]
        BY <1>3, <2>2, <3>1 DEF Expire
      <4>2. e.tags = x.tags /\ e.key = x.key /\ e.stored = x.stored /\ e.raced = x.raced
        BY <4>1
      <4> QED BY <1>0, <2>1, <2>2, <4>2 DEF IndexInv, Indexed
    <3> QED BY <1>0, <2>1, <3>1 DEF IndexInv
  <2>3. CASE ~Memory
    <3>1. entries' \subseteq entries
      BY <1>3, <2>3 DEF Expire, Drop, Without
    <3> QED BY <1>0, <2>1, <3>1 DEF IndexInv, Indexed
  <2> QED BY <2>2, <2>3
<1>4. ASSUME NEW s \in Tags, Invalidate(s) PROVE IndexInv'
  <2> DEFINE gone == {e \in entries : e.key \in tagged[s]}
  <2>1. /\ Memory /\ UNCHANGED invalidation /\ entries' = Without(tagged[s])
        /\ tagged' = Untagged(tagged, gone)
        /\ epoch' = [epoch EXCEPT ![s] = Latest + 1]
    BY <1>4 DEF Invalidate, Drop, Completed
  <2>2. \A e \in entries' : e \in entries /\ e.key \notin tagged[s] /\ \A x \in gone : x.key # e.key
    BY <2>1 DEF Without
  <2> HIDE DEF gone
  <2>3. ASSUME NEW e \in entries', ~e.raced, NEW t \in e.tags
        PROVE  e.key \in tagged'[t] /\ e.stored[t] = epoch'[t]
    <3>1. e.key \in tagged[t] /\ e.stored[t] = epoch[t] /\ t \in Tags /\ e.tags \subseteq Tags
      BY <2>2, <2>3 DEF IndexInv, Indexed
    <3>2. t # s
      BY <2>2, <3>1
    <3>3. e.stored[t] = epoch'[t]
      BY <2>1, <3>1, <3>2 DEF IndexInv
    <3> QED BY <2>1, <2>2, <3>1, <3>3, UntaggedKeeps
  <2>4. DOMAIN tagged' = Tags /\ DOMAIN epoch' = Tags
    BY <2>1 DEF Untagged, IndexInv
  <2> QED BY <1>0, <2>1, <2>2, <2>3, <2>4 DEF IndexInv, Indexed
<1>5. ASSUME NEW s \in Tags, ReadMembers(s) PROVE IndexInv'
  <2>1. /\ ~Memory /\ UNCHANGED <<entries, tagged, epoch>>
        /\ invalidation'.tag = s /\ invalidation'.keys = tagged[s]
    BY <1>5 DEF ReadMembers
  <2> QED BY <1>0, <2>1 DEF IndexInv, Indexed
<1>6. CASE InvalidationFails
  <2>1. UNCHANGED <<entries, tagged, epoch>> /\ invalidation'.tag = Nobody
    BY <1>6 DEF InvalidationFails
  <2> QED BY <1>0, <2>1, NobodyAssumption DEF IndexInv, Indexed
<1>7. CASE DeleteMembers
  <2> DEFINE s == invalidation.tag
  <2>1. /\ s \in Tags /\ entries' = Without(invalidation.keys) /\ invalidation'.tag = Nobody
        /\ tagged' = [tagged EXCEPT ![s] = {}]
        /\ epoch' = [epoch EXCEPT ![s] = Latest + 1]
    BY <1>7 DEF DeleteMembers, Drop, Completed, IndexInv
  <2>2. \A e \in entries' : e \in entries /\ e.key \notin invalidation.keys
    BY <2>1 DEF Without
  <2>3. ASSUME NEW e \in entries', ~e.raced, NEW t \in e.tags
        PROVE  e.key \in tagged'[t] /\ e.stored[t] = epoch'[t] /\ t \in Tags
    <3>1. /\ e.key \in tagged[t] /\ e.stored[t] = epoch[t] /\ t \in Tags
          /\ s = t => e.key \in invalidation.keys
      BY <2>2, <2>3 DEF IndexInv, Indexed
    <3>2. t # s
      BY <2>2, <3>1
    <3> QED BY <2>1, <3>1, <3>2 DEF IndexInv
  <2>4. DOMAIN tagged' = Tags /\ DOMAIN epoch' = Tags
    BY <2>1 DEF IndexInv
  <2> QED BY <1>0, <2>1, <2>2, <2>3, <2>4, NobodyAssumption DEF IndexInv, Indexed
<1> QED BY <1>1, <1>2, <1>3, <1>4, <1>5, <1>6, <1>7, StoreIndexes
    DEF CacheNext, cacheVars, Query, Hit, Join, StartLoad, LoadSucceeds, Answer, OwnerFails, CancelCaller

\* A completed invalidation of a tag leaves nothing in the cache that was stored before
\* it under the tag, whatever was replaced, evicted or expired in between, in memory
\* and with Redis, for any requests, tags and cache size; an entry stored in the middle
\* of an invalidation by Redis is the exception the property names.
THEOREM InvalidationsComplete == CacheInit /\ [][CacheNext]_cacheVars => []InvalidationIsComplete
<1>1. IndexInv /\ [CacheNext]_cacheVars => IndexInv'
  BY IndexStep
<1>2. IndexInv => InvalidationIsComplete
  BY DEF IndexInv, Indexed, InvalidationIsComplete
<1> QED BY <1>1, <1>2, IndexStarts, PTL

-----------------------------------------------------------------------------
(* The router. *)

RequestTypes ==
    [pc : {"idle", "limited", "stream_limited", "calling", "streaming"}, left : Seq(Models)]

\* A call under way has a candidate, and none of them twice.
CallInv(r) ==
    /\ r.pc # "idle" => r.left # <<>>
    /\ \A i, j \in 1..Len(r.left) : r.left[i] = r.left[j] => i = j

\* The candidates at p that a call under way may still try, with the call.
RoutedTo(r, m) == r.pc \in {"limited", "calling"} /\ \E i \in 1..Len(r.left) : r.left[i] = m
Slots(p) == Clients \X ModelsOf(p)
Routed(p) == {s \in Slots(p) : RoutedTo(request[s[1]], s[2])}

\* What a circuit says of the failures since the last success: below the threshold while
\* it is closed, one short of it after a rest, and while it is open no candidate is added
\* to the ones that can still fail.
CircuitInv(p) ==
    /\ health[p].circuit = "closed" => burst[p] = health[p].failures /\ burst[p] < Threshold
    /\ health[p].circuit = "lapsed" => health[p].failures >= Threshold /\ burst[p] = Threshold - 1
    /\ health[p].circuit = "open" =>
          /\ health[p].failures >= Threshold
          /\ burst[p] + Cardinality(Routed(p)) <= Threshold + Cardinality(Slots(p)) - 1

RouterInv ==
    /\ health \in [Providers -> [failures : Nat, circuit : {"closed", "open", "lapsed"}]]
    /\ burst \in [Providers -> Nat]
    /\ request \in [Clients -> RequestTypes]
    /\ \A c \in Clients : CallInv(request[c])
    /\ \A p \in Providers : CircuitInv(p)

LEMMA SlotsFinite ==
    ASSUME NEW p, NEW S, S \subseteq Slots(p)
    PROVE  /\ IsFiniteSet(S) /\ Cardinality(S) \in Nat /\ IsFiniteSet(Slots(p))
           /\ Cardinality(Slots(p)) \in Nat
           /\ Cardinality(S) <= Cardinality(Slots(p))
           /\ Cardinality(Slots(p)) = Cardinality(Clients) * Cardinality(ModelsOf(p))
<1>1. IsFiniteSet(ModelsOf(p)) /\ IsFiniteSet(Clients)
  BY RouterAssumption, FS_Subset DEF ModelsOf
<1>2. /\ IsFiniteSet(Slots(p))
      /\ Cardinality(Slots(p)) = Cardinality(Clients) * Cardinality(ModelsOf(p))
  BY <1>1, FS_Product DEF Slots
<1> QED BY <1>2, FS_Subset, FS_CardinalityType

LEMMA NoRequestFine == NoRequest \in RequestTypes /\ CallInv(NoRequest) /\ \A p : ~RoutedTo(NoRequest, p)
BY DEF NoRequest, RequestTypes, CallInv, RoutedTo

\* A call goes on and the health of the providers stays: an open circuit has no more
\* calls routed to it than before.
LEMMA RequestStep ==
    ASSUME RouterInv, NEW c \in Clients, NEW w \in RequestTypes, CallInv(w),
           \A m \in Models : health[ProviderOf[m]].circuit = "open" /\ RoutedTo(w, m) =>
                              RoutedTo(request[c], m),
           request' = [request EXCEPT ![c] = w], UNCHANGED <<health, burst>>
    PROVE  RouterInv'
<1>1. \A d \in Clients : request'[d] = IF d = c THEN w ELSE request[d]
  BY DEF RouterInv
<1>2. request' \in [Clients -> RequestTypes] /\ \A d \in Clients : CallInv(request'[d])
  BY <1>1 DEF RouterInv
<1>3. ASSUME NEW p \in Providers PROVE CircuitInv(p)'
  <2>1. CASE health[p].circuit # "open"
    BY <2>1 DEF RouterInv, CircuitInv
  <2>2. CASE health[p].circuit = "open"
    <3>1. Routed(p)' \subseteq Routed(p) /\ Routed(p) \subseteq Slots(p)
      BY <1>1, <2>2 DEF Routed, Slots, ModelsOf
    <3>2. Cardinality(Routed(p)') <= Cardinality(Routed(p)) /\ Cardinality(Routed(p)') \in Nat
          /\ Cardinality(Routed(p)) \in Nat /\ Cardinality(Slots(p)) \in Nat
      BY <3>1, SlotsFinite, FS_Subset
    <3>3. burst[p] \in Nat /\ Threshold \in Nat
      BY RouterAssumption DEF RouterInv
    <3> HIDE DEF Routed
    <3>4. burst[p] + Cardinality(Routed(p)) <= Threshold + Cardinality(Slots(p)) - 1
          /\ health[p].failures >= Threshold
      BY <2>2 DEF RouterInv, CircuitInv
    <3>5. burst[p] + Cardinality(Routed(p)') <= Threshold + Cardinality(Slots(p)) - 1
      BY <3>2, <3>3, <3>4
    <3> QED BY <2>2, <3>4, <3>5 DEF CircuitInv
  <2> QED BY <2>1, <2>2
<1> QED BY <1>2, <1>3 DEF RouterInv

\* The candidates are routable, and none is listed twice.
LEMMA CandidatesFine ==
    ASSUME NEW order \in Candidates
    PROVE  /\ order \in Seq(Models)
           /\ \A i \in 1..Len(order) : /\ order[i] \in Models
                                       /\ health[ProviderOf[order[i]]].circuit # "open"
           /\ \A i, j \in 1..Len(order) : order[i] = order[j] => i = j
<1> DEFINE S == {m \in Models : Routable(m)}
<1>1. Cardinality(S) \in Nat
  BY RouterAssumption, FS_Subset, FS_CardinalityType
<1>2. /\ order \in [1..Cardinality(S) -> S]
      /\ \A i, j \in 1..Cardinality(S) : i # j => order[i] # order[j]
  BY DEF Candidates, SetToSeqs
<1>3. \A m \in S : m \in Models /\ health[ProviderOf[m]].circuit # "open"
  BY DEF Routable
<1> HIDE DEF S
<1>4. order \in Seq(S) /\ Len(order) = Cardinality(S)
  BY <1>1, <1>2
<1> QED BY <1>1, <1>2, <1>3, <1>4

LEMMA CallStarts ==
    ASSUME RouterInv, NEW c \in Clients, Generate(c) \/ Stream(c)
    PROVE  RouterInv'
<1>1. PICK order \in Candidates :
        \/ request' = [request EXCEPT ![c] = NoRequest]
        \/ /\ order # <<>>
           /\ \/ request' = [request EXCEPT ![c] = [NoRequest EXCEPT !.pc = "limited", !.left = order]]
              \/ request' = [request EXCEPT ![c] =
                                [NoRequest EXCEPT !.pc = "stream_limited", !.left = <<Head(order)>>]]
  BY DEF Generate, Stream
<1>2. UNCHANGED <<health, burst>>
  BY DEF Generate, Stream
<1>3. CASE request' = [request EXCEPT ![c] = NoRequest]
  BY <1>2, <1>3, NoRequestFine, RequestStep
<1>4. CASE /\ order # <<>>
           /\ request' = [request EXCEPT ![c] = [NoRequest EXCEPT !.pc = "limited", !.left = order]]
  <2> DEFINE w == [NoRequest EXCEPT !.pc = "limited", !.left = order]
  <2>1. w \in RequestTypes /\ w.pc = "limited" /\ w.left = order
    BY CandidatesFine DEF NoRequest, RequestTypes
  <2>2. request' = [request EXCEPT ![c] = w]
    BY <1>4
  <2> HIDE DEF w
  <2>3. CallInv(w)
    BY <1>4, <2>1, CandidatesFine DEF CallInv
  <2>4. \A m \in Models : health[ProviderOf[m]].circuit = "open" => ~RoutedTo(w, m)
    BY <2>1, CandidatesFine DEF RoutedTo
  <2> QED BY <1>2, <2>1, <2>2, <2>3, <2>4, RequestStep
<1>5. CASE /\ order # <<>>
           /\ request' = [request EXCEPT ![c] =
                             [NoRequest EXCEPT !.pc = "stream_limited", !.left = <<Head(order)>>]]
  <2> DEFINE w == [NoRequest EXCEPT !.pc = "stream_limited", !.left = <<Head(order)>>]
  <2>1. Head(order) \in Models
    BY <1>5, CandidatesFine
  <2>2. w \in RequestTypes /\ w.pc = "stream_limited" /\ w.left = <<Head(order)>>
    <3>1. <<Head(order)>> \in Seq(Models)
      BY <2>1
    <3> QED BY <3>1 DEF NoRequest, RequestTypes
  <2>3. request' = [request EXCEPT ![c] = w]
    BY <1>5
  <2> HIDE DEF w
  <2>4. CallInv(w) /\ \A p : ~RoutedTo(w, p)
    BY <2>1, <2>2 DEF CallInv, RoutedTo
  <2> QED BY <1>2, <2>2, <2>3, <2>4, RequestStep
<1> QED BY <1>1, <1>3, <1>4, <1>5, SMTT(30)

LEMMA CallGoesOn ==
    ASSUME RouterInv, NEW c \in Clients, Acquire(c) \/ Leaves(c)
    PROVE  RouterInv'
<1>1. UNCHANGED <<health, burst>>
  BY DEF Acquire, Leaves
<1>2. CASE Leaves(c)
  BY <1>1, <1>2, NoRequestFine, RequestStep DEF Leaves
<1>3. CASE Acquire(c)
  <2> DEFINE r == request[c]
             w == [r EXCEPT !.pc = IF r.pc = "limited" THEN "calling" ELSE "streaming"]
  <2>0. r \in RequestTypes /\ CallInv(r)
    BY DEF RouterInv
  <2>1. request' = [request EXCEPT ![c] = w] /\ r.pc \in {"limited", "stream_limited"}
    BY <1>3 DEF Acquire, RouterInv
  <2>2. /\ w \in RequestTypes /\ w.left = r.left
        /\ w.pc = IF r.pc = "limited" THEN "calling" ELSE "streaming"
    BY <2>0 DEF RequestTypes
  <2> HIDE DEF w
  <2>3. CallInv(w) /\ \A p : RoutedTo(w, p) => RoutedTo(r, p)
    BY <2>0, <2>1, <2>2 DEF CallInv, RoutedTo
  <2> QED BY <1>1, <2>1, <2>2, <2>3, RequestStep
<1> QED BY <1>2, <1>3

\* A failure: the call is routed to the provider no more, and the circuit opens from the
\* threshold on.
LEMMA FailureCounted ==
    ASSUME RouterInv, NEW c \in Clients, Fails(c)
    PROVE  RouterInv'
<1> DEFINE r == request[c]
           left == Tail(r.left)
           w == IF left = <<>> THEN NoRequest ELSE [pc |-> "limited", left |-> left]
<1>0. r \in RequestTypes /\ CallInv(r) /\ r.pc = "calling" /\ r.left \in Seq(Models) /\ r.left # <<>>
  BY DEF RouterInv, RequestTypes, Fails, CallInv
<1>1. PICK p \in Providers, m \in Models :
         p = Provider(c) /\ p = ProviderOf[m] /\ m = r.left[1] /\ RoutedTo(r, m)
  BY <1>0, RouterAssumption DEF Provider, RoutedTo
<1> DEFINE h == [failures |-> health[p].failures + 1, circuit |-> CircuitAfter(health[p])]
<1>2. /\ request' = [request EXCEPT ![c] = w] /\ burst' = [burst EXCEPT ![p] = burst[p] + 1]
      /\ health' = [health EXCEPT ![p] = h]
  BY <1>1 DEF Fails, RouterInv
<1>3. /\ left \in Seq(Models) /\ Len(left) = Len(r.left) - 1 /\ Len(r.left) \in Nat \ {0}
      /\ \A i \in 1..Len(left) : left[i] = r.left[i + 1]
  BY <1>0
<1>4. w \in RequestTypes /\ CallInv(w)
  <2>1. CASE left = <<>>
    BY <2>1, NoRequestFine
  <2>2. CASE left # <<>>
    <3>1. w = [pc |-> "limited", left |-> left]
      BY <2>2
    <3>2. w \in RequestTypes /\ w.left = left
      <4>1. "limited" \in {"idle", "limited", "stream_limited", "calling", "streaming"}
        OBVIOUS
      <4> HIDE DEF left, w
      <4> QED BY <1>3, <3>1, <4>1 DEF RequestTypes
    <3>3. ASSUME NEW i \in 1..Len(left), NEW j \in 1..Len(left), left[i] = left[j] PROVE i = j
      BY <1>0, <1>3, <3>3 DEF CallInv
    <3> QED BY <2>2, <3>2, <3>3 DEF CallInv
  <2> QED BY <2>1, <2>2
<1>5. ~RoutedTo(w, m) /\ \A q : RoutedTo(w, q) => RoutedTo(r, q)
  <2>1. CASE left = <<>>
    BY <2>1, NoRequestFine
  <2>2. CASE left # <<>>
    <3>1. w = [pc |-> "limited", left |-> left] /\ w.left = left
      BY <2>2
    <3>2. ASSUME NEW i \in 1..Len(left) PROVE i + 1 \in 1..Len(r.left) /\ left[i] = r.left[i + 1] /\ left[i] # m
      BY <1>0, <1>1, <1>3 DEF CallInv
    <3> HIDE DEF left, w
    <3> QED BY <1>0, <3>1, <3>2 DEF RoutedTo
  <2> QED BY <2>1, <2>2
<1>6. /\ h \in [failures : Nat, circuit : {"closed", "open", "lapsed"}]
      /\ h.failures = health[p].failures + 1 /\ h.circuit = CircuitAfter(health[p])
  BY <1>1 DEF RouterInv, CircuitAfter
<1> HIDE DEF w, h, left, r
<1>7. \A d \in Clients : request'[d] = IF d = c THEN w ELSE request[d]
  BY <1>2 DEF RouterInv
<1>8. \A q \in Providers : /\ health'[q] = IF q = p THEN h ELSE health[q]
                           /\ burst'[q] = IF q = p THEN burst[p] + 1 ELSE burst[q]
  BY <1>1, <1>2 DEF RouterInv
<1>9. /\ request' \in [Clients -> RequestTypes] /\ \A d \in Clients : CallInv(request'[d])
      /\ health' \in [Providers -> [failures : Nat, circuit : {"closed", "open", "lapsed"}]]
      /\ burst' \in [Providers -> Nat]
  BY <1>1, <1>2, <1>4, <1>6, <1>7 DEF RouterInv
<1>10. ASSUME NEW q \in Providers
       PROVE  /\ Routed(q)' \subseteq Routed(q) /\ Routed(q) \subseteq Slots(q)
              /\ Cardinality(Routed(q)') <= Cardinality(Routed(q)) /\ Cardinality(Routed(q)') \in Nat
              /\ Cardinality(Routed(q)) \in Nat /\ Cardinality(Slots(q)) \in Nat
  <2>1. Routed(q)' \subseteq Routed(q) /\ Routed(q) \subseteq Slots(q)
    BY <1>5, <1>7 DEF Routed, Slots, r
  <2> QED BY <2>1, SlotsFinite, FS_Subset
<1>11. /\ <<c, m>> \in Slots(p) /\ <<c, m>> \in Routed(p) /\ <<c, m>> \notin Routed(p)'
  <2>1. <<c, m>> \in Slots(p) /\ <<c, m>>[1] = c /\ <<c, m>>[2] = m
    BY <1>1 DEF Slots, ModelsOf
  <2>2. request'[c] = w
    BY <1>7
  <2> QED BY <1>1, <1>5, <2>1, <2>2 DEF Routed, r
<1>12. /\ Cardinality(Slots(p)) \in Nat \ {0} /\ Cardinality(Routed(p)') <= Cardinality(Slots(p)) - 1
       /\ Cardinality(Routed(p)') <= Cardinality(Routed(p)) - 1
  <2>1. /\ Routed(p)' \subseteq Slots(p) \ {<<c, m>>} /\ Routed(p)' \subseteq Routed(p) \ {<<c, m>>}
        /\ IsFiniteSet(Routed(p)) /\ IsFiniteSet(Slots(p))
    BY <1>1, <1>10, <1>11, SlotsFinite
  <2>2. /\ Cardinality(Slots(p) \ {<<c, m>>}) = Cardinality(Slots(p)) - 1
        /\ Cardinality(Routed(p) \ {<<c, m>>}) = Cardinality(Routed(p)) - 1
        /\ IsFiniteSet(Slots(p) \ {<<c, m>>}) /\ IsFiniteSet(Routed(p) \ {<<c, m>>})
    BY <1>11, <2>1, FS_RemoveElement
  <2>3. /\ Cardinality(Slots(p) \ {<<c, m>>}) \in Nat /\ Cardinality(Slots(p)) \in Nat
        /\ Cardinality(Routed(p)') <= Cardinality(Slots(p) \ {<<c, m>>})
        /\ Cardinality(Routed(p)') <= Cardinality(Routed(p) \ {<<c, m>>})
    BY <2>1, <2>2, FS_Subset, FS_CardinalityType
  <2> QED BY <2>2, <2>3
<1> HIDE DEF Routed
<1>13. /\ burst[p] \in Nat /\ health[p].failures \in Nat /\ Threshold \in Nat \ {0}
       /\ health[p].circuit \in {"closed", "open", "lapsed"} /\ CircuitInv(p)
  BY <1>1, RouterAssumption DEF RouterInv
<1>14. CircuitInv(p)'
  <2>1. health'[p].failures = health[p].failures + 1 /\ burst'[p] = burst[p] + 1
        /\ health'[p].circuit = CircuitAfter(health[p])
    BY <1>1, <1>6, <1>8
  <2>2. CASE health[p].circuit = "closed"
    BY <1>12, <1>13, <2>1, <2>2, <1>10, <1>1 DEF CircuitInv, CircuitAfter
  <2>3. CASE health[p].circuit = "lapsed"
    BY <1>12, <1>13, <2>1, <2>3, <1>10, <1>1 DEF CircuitInv, CircuitAfter
  <2>4. CASE health[p].circuit = "open"
    BY <1>12, <1>13, <2>1, <2>4, <1>10, <1>1 DEF CircuitInv, CircuitAfter
  <2> QED BY <1>13, <2>2, <2>3, <2>4
<1>15. ASSUME NEW q \in Providers, q # p PROVE CircuitInv(q)'
  <2>1. health'[q] = health[q] /\ burst'[q] = burst[q] /\ burst[q] \in Nat /\ CircuitInv(q)
    BY <1>8, <1>15 DEF RouterInv
  <2> QED BY <1>10, <1>13, <2>1 DEF CircuitInv
<1> QED BY <1>9, <1>14, <1>15 DEF RouterInv

\* A success, or the reset time, of one provider.
LEMMA CircuitChanges ==
    ASSUME RouterInv, (\E c \in Clients : Succeeds(c)) \/ (\E p \in Providers : CircuitRests(p))
    PROVE  RouterInv'
<1>1. ASSUME NEW c \in Clients, Succeeds(c) PROVE RouterInv'
  <2> DEFINE closed == [failures |-> 0, circuit |-> "closed"]
  <2>0. request[c] \in RequestTypes /\ CallInv(request[c]) /\ request[c].pc = "calling"
    BY <1>1 DEF RouterInv, Succeeds
  <2>1. PICK p \in Providers : p = Provider(c)
    <3>1. Head(request[c].left) \in Models
      BY <2>0 DEF RequestTypes, CallInv
    <3> QED BY <3>1, RouterAssumption DEF Provider
  <2>2. /\ request' = [request EXCEPT ![c] = NoRequest] /\ burst' = [burst EXCEPT ![p] = 0]
        /\ health' = [health EXCEPT ![p] = closed]
    BY <1>1, <2>1 DEF Succeeds
  <2>3. closed \in [failures : Nat, circuit : {"closed", "open", "lapsed"}] /\ closed.failures = 0
        /\ closed.circuit = "closed"
    OBVIOUS
  <2> HIDE DEF closed
  <2>4. /\ \A d \in Clients : request'[d] = IF d = c THEN NoRequest ELSE request[d]
        /\ \A q \in Providers : /\ health'[q] = IF q = p THEN closed ELSE health[q]
                                /\ burst'[q] = IF q = p THEN 0 ELSE burst[q]
    BY <2>1, <2>2 DEF RouterInv
  <2>5. /\ request' \in [Clients -> RequestTypes] /\ \A d \in Clients : CallInv(request'[d])
        /\ health' \in [Providers -> [failures : Nat, circuit : {"closed", "open", "lapsed"}]]
        /\ burst' \in [Providers -> Nat]
    BY <2>1, <2>2, <2>3, <2>4, NoRequestFine DEF RouterInv
  <2>6. CircuitInv(p)'
    BY <2>1, <2>3, <2>4, RouterAssumption DEF CircuitInv
  <2>7. ASSUME NEW q \in Providers, q # p PROVE CircuitInv(q)'
    <3>1. health'[q] = health[q] /\ burst'[q] = burst[q] /\ burst[q] \in Nat /\ CircuitInv(q)
      BY <2>4, <2>7 DEF RouterInv
    <3>2. Routed(q)' \subseteq Routed(q) /\ Routed(q) \subseteq Slots(q)
      BY <2>4, NoRequestFine DEF Routed, Slots
    <3>3. /\ Cardinality(Routed(q)') <= Cardinality(Routed(q)) /\ Cardinality(Routed(q)') \in Nat
          /\ Cardinality(Routed(q)) \in Nat /\ Cardinality(Slots(q)) \in Nat /\ Threshold \in Nat
      BY <3>2, SlotsFinite, FS_Subset, RouterAssumption
    <3> HIDE DEF Routed
    <3> QED BY <3>1, <3>3 DEF CircuitInv
  <2> QED BY <2>5, <2>6, <2>7 DEF RouterInv
<1>2. ASSUME NEW p \in Providers, CircuitRests(p) PROVE RouterInv'
  <2>1. /\ health[p].circuit = "open" /\ health' = [health EXCEPT ![p].circuit = "lapsed"]
        /\ burst' = [burst EXCEPT ![p] = Threshold - 1] /\ request' = request
    BY <1>2 DEF CircuitRests
  <2>2. /\ \A q \in Providers : q # p => health'[q] = health[q] /\ burst'[q] = burst[q]
        /\ health'[p].circuit = "lapsed" /\ health'[p].failures = health[p].failures
        /\ burst'[p] = Threshold - 1
    BY <2>1 DEF RouterInv
  <2>3. /\ health' \in [Providers -> [failures : Nat, circuit : {"closed", "open", "lapsed"}]]
        /\ burst' \in [Providers -> Nat]
    <3>1. Threshold - 1 \in Nat
      BY RouterAssumption
    <3> QED BY <2>1, <3>1 DEF RouterInv
  <2>4. ASSUME NEW q \in Providers PROVE CircuitInv(q)'
    <3>1. Routed(q)' = Routed(q) /\ CircuitInv(q)
      BY <2>1 DEF Routed, RouterInv
    <3> HIDE DEF Routed
    <3> QED BY <2>1, <2>2, <3>1 DEF CircuitInv
  <2> QED BY <2>1, <2>3, <2>4 DEF RouterInv
<1> QED BY <1>1, <1>2

\* A provider that fails is left alone in time: since its last success it fails at most
\* Threshold times, after a rest once, and once more for every other candidate at it that
\* a call already under way may still try, for any number of providers, of profiles that
\* share one, of calls and of clients.
THEOREM BurstsBounded == RouterInit /\ [][RouterNext]_routerVars => []FailureBurstsBounded
<1>1. RouterInit => RouterInv
  BY NoRequestFine, RouterAssumption DEF RouterInit, RouterInv, CircuitInv
<1>2. RouterInv /\ [RouterNext]_routerVars => RouterInv'
  <2> SUFFICES ASSUME RouterInv, [RouterNext]_routerVars PROVE RouterInv'
    OBVIOUS
  <2>1. CASE UNCHANGED <<health, request, burst>>
    BY <2>1 DEF RouterInv, CircuitInv, Routed
  <2> QED BY <2>1, CallStarts, CallGoesOn, FailureCounted, CircuitChanges
      DEF RouterNext, routerVars, WindowSlides
<1>3. RouterInv => FailureBurstsBounded
  <2> SUFFICES ASSUME RouterInv, NEW p \in Providers
               PROVE  burst[p] <= Threshold + Cardinality(Clients) * Cardinality(ModelsOf(p)) - 1
    BY DEF FailureBurstsBounded
  <2>1. /\ burst[p] \in Nat /\ Threshold \in Nat \ {0} /\ CircuitInv(p)
        /\ health[p].circuit \in {"closed", "open", "lapsed"}
    BY RouterAssumption DEF RouterInv
  <2>2. /\ Cardinality(Routed(p)) \in Nat /\ Cardinality(Slots(p)) \in Nat
        /\ Cardinality(Slots(p)) = Cardinality(Clients) * Cardinality(ModelsOf(p))
    BY SlotsFinite DEF Routed
  <2>3. burst[p] <= Threshold + Cardinality(Slots(p)) - 1
    <3> HIDE DEF Routed, Slots
    <3> QED BY <2>1, <2>2 DEF CircuitInv
  <2> QED BY <2>2, <2>3
<1> QED BY <1>1, <1>2, <1>3, PTL

-----------------------------------------------------------------------------
(* The events. *)

\* What is inserted and not fanned out yet, and what event n of this process leaves behind.
Fanning == {emitter[e].number : e \in {f \in Emitters : emitter[f].pc = "inserted"}}
Overtakes(n) == \A m \in Fanning \cup foreign : m < n => m \in raced \cup client.seen

\* Numbers are taken one after the other: the log has no gap, and an emitter that was
\* not overtaken holds the next one.
EmitterInv ==
    /\ \E k \in Nat : /\ log = 1..k
                      /\ \A e \in Emitters : emitter[e].number \in 0..(k + 1)
    /\ emitter \in [Emitters -> [pc : {"idle", "numbered", "inserted"}, number : Nat]]
    /\ ~Postgres => \A e \in Emitters : emitter[e].pc = "idle"
    /\ \A e \in Emitters : emitter[e].pc = "numbered" => emitter[e].number > 0
    /\ foreign \subseteq log /\ (~Postgres => foreign = {})
    /\ \A e \in Emitters : emitter[e].pc = "inserted" =>
          emitter[e].number \in log /\ (e \in Elsewhere => emitter[e].number \in foreign)
    /\ \A e \in Emitters \ Elsewhere : emitter[e].pc = "inserted" => Overtakes(emitter[e].number)

SubTypes ==
    /\ sub \in [pc : {"off", "reading", "yielding"}, cursor : Nat, backlog : SUBSET log, queue : Seq(log)]
    /\ Len(sub.queue) <= QueueSize
    /\ client \in [seen : SUBSET log, last : Nat, connects : Nat]
    /\ client.last \in client.seen \cup {0}
    /\ \A m \in client.seen : m <= client.last

\* What the client may miss, and what a queue holds before position i.
Excused == lost \cup raced
Before(q, i) == {q[j] : j \in 1..(i - 1)}

CursorInv ==
    /\ sub.pc # "off" => sub.cursor <= client.last /\ (KeepsCursor => sub.cursor = client.last)
    /\ sub.pc = "reading" => sub.backlog = {} /\ sub.cursor = client.last

\* What is on its way to the client comes in order: before an event of the backlog or of
\* the queue comes every smaller one that the client has not seen and that is not excused.
BacklogInv(m) == \A n \in sub.backlog : m < n => m \in sub.backlog \cup Excused
QueueInv(m) ==
    \A i \in 1..Len(sub.queue) :
        m < sub.queue[i] => m \in sub.backlog \cup Excused \/ m \in Before(sub.queue, i)
OnItsWay(m) ==
    m \in sub.backlog \cup Excused \cup Fanning \cup foreign \/ m \in Before(sub.queue, Len(sub.queue) + 1)

OrderInv ==
    sub.pc = "yielding" =>
        \A m \in log : m > client.last => BacklogInv(m) /\ QueueInv(m) /\ OnItsWay(m)

StreamInv == EmitterInv /\ SubTypes /\ CursorInv /\ OrderInv /\ SkippedEventsRaced

LEMMA LastNumberIs ==
    ASSUME NEW k \in Nat, log = 1..k PROVE LastNumber = k
<1>1. CASE k = 0
  BY <1>1 DEF LastNumber
<1>2. CASE k > 0
  <2>1. log # {} /\ k \in log /\ \A m \in log : m <= k
    BY <1>2
  <2>2. LastNumber = CHOOSE n \in log : \A m \in log : m <= n
    BY <2>1 DEF LastNumber
  <2>3. LastNumber \in log /\ \A m \in log : m <= LastNumber
    BY <2>1, <2>2
  <2> QED BY <2>1, <2>3
<1> QED BY <1>1, <1>2

\* An event that is put in the queue, a full one giving up its oldest, keeps the order
\* when every smaller event is on its way already.
LEMMA QueueGrows ==
    ASSUME SubTypes, CursorInv, OrderInv, NEW n \in Nat, n \in log', log' = log \cup {n}, log \subseteq Nat,
           Queued(n), bus' = bus, client' = client, raced' = raced, foreign' = foreign,
           n \notin log => \A m \in log : m < n,
           \A m \in Fanning : m = n \/ m \in Fanning',
           sub.pc = "yielding" => \A m \in log : m > client.last /\ m < n =>
               m \in sub.backlog \cup Excused \/ m \in Before(sub.queue, Len(sub.queue) + 1)
    PROVE  SubTypes' /\ CursorInv' /\ OrderInv'
<1>0. QueueSize \in Nat \ {0}
  BY EventAssumption DEF EventAssumption
<1>1. CASE sub.pc = "off"
  BY <1>1 DEF Queued, SubTypes, CursorInv, OrderInv, KeepsCursor
<1>2. CASE sub.pc # "off"
  <2> DEFINE full == Len(sub.queue) = QueueSize
             kept == IF full THEN Tail(sub.queue) ELSE sub.queue
             d == IF full THEN 1 ELSE 0
  <2>1. /\ sub.queue \in Seq(log) /\ Len(sub.queue) \in Nat /\ Len(sub.queue) <= QueueSize
        /\ sub.pc \in {"off", "reading", "yielding"} /\ sub.cursor \in Nat /\ sub.backlog \in SUBSET log
    BY DEF SubTypes
  <2>2. /\ sub' = [sub EXCEPT !.queue = Append(kept, n)]
        /\ lost' = IF full THEN lost \cup {Head(sub.queue)} ELSE lost
    BY <1>2 DEF Queued
  <2>3. /\ kept \in Seq(log) /\ Len(kept) = Len(sub.queue) - d /\ Len(kept) + 1 <= QueueSize
        /\ \A i \in 1..Len(kept) : kept[i] = sub.queue[i + d]
        /\ full => Head(sub.queue) = sub.queue[1]
    BY <1>0, <2>1
  <2>4. d \in {0, 1} /\ (full <=> d = 1)
    OBVIOUS
  <2> HIDE DEF kept, full, d
  <2>5. kept \in Seq(log') /\ n \in log'
    BY <2>3
  <2>6. /\ Append(kept, n) \in Seq(log') /\ Len(Append(kept, n)) = Len(kept) + 1 /\ Len(kept) \in Nat
        /\ \A i \in 1..Len(kept) : Append(kept, n)[i] = kept[i]
        /\ Append(kept, n)[Len(kept) + 1] = n
    BY <2>5
  <2>7. /\ sub'.pc = sub.pc /\ sub'.cursor = sub.cursor /\ sub'.backlog = sub.backlog
        /\ sub'.queue = Append(kept, n)
        /\ sub' \in [pc : {"off", "reading", "yielding"}, cursor : Nat, backlog : SUBSET log', queue : Seq(log')]
    BY <2>1, <2>2, <2>6 DEF SubTypes
  <2>8. SubTypes'
    BY <2>7, <2>6, <2>3 DEF SubTypes
  <2>9. CursorInv'
    BY <2>7 DEF CursorInv, KeepsCursor
  <2>10a. /\ \A i \in 1..Len(kept) : sub'.queue[i] = sub.queue[i + d]
         /\ sub'.queue[Len(kept) + 1] = n /\ Len(sub'.queue) = Len(kept) + 1
    BY <2>3, <2>6, <2>7
  <2>10. ASSUME sub.pc = "yielding", NEW m \in log', m > client.last
         PROVE  BacklogInv(m)' /\ QueueInv(m)' /\ OnItsWay(m)'
    <3>0. m \in Nat /\ (m # n => m \in log) /\ Excused \subseteq Excused' /\ lost \subseteq lost'
      BY <2>2 DEF Excused
    <3>1. m \in log => BacklogInv(m) /\ QueueInv(m) /\ OnItsWay(m)
      BY <2>10 DEF OrderInv
    \* What was before a position is still before the shifted one, or was given up.
    <3>2. \A i \in 1..(Len(sub.queue) + 1) :
             m \in Before(sub.queue, i) => m \in Excused' \/ m \in Before(sub'.queue, i - d)
      <4>0. SUFFICES ASSUME NEW i \in 1..(Len(sub.queue) + 1), m \in Before(sub.queue, i)
                     PROVE  m \in Excused' \/ m \in Before(sub'.queue, i - d)
        OBVIOUS
      <4>1. PICK j \in 1..(i - 1) : sub.queue[j] = m
        BY <4>0 DEF Before
      <4>2. CASE j = 1 /\ full
        BY <4>1, <4>2, <2>2, <2>3 DEF Excused
      <4>3. CASE ~(j = 1 /\ full)
        <5>1. j - d \in 1..(i - d - 1) /\ j - d \in 1..Len(kept)
          BY <4>3, <2>1, <2>3, <2>4
        <5>2. sub'.queue[j - d] = m
          <6>1. sub'.queue[j - d] = sub.queue[(j - d) + d]
            BY <5>1, <2>10a
          <6>2. (j - d) + d = j
            BY <2>4
          <6> QED BY <6>1, <6>2, <4>1
        <5> QED BY <5>1, <5>2 DEF Before
      <4> QED BY <4>2, <4>3
    <3>3. BacklogInv(m)'
      <4>1. SUFFICES ASSUME NEW x \in sub.backlog, m < x PROVE m \in sub.backlog \cup Excused'
        BY <2>7 DEF BacklogInv
      <4>2. m \in log
        <5>1. x \in log /\ x \in Nat
          BY <2>1
        <5> QED BY <4>1, <5>1, <3>0
      <4> QED BY <4>1, <4>2, <3>0, <3>1 DEF BacklogInv
    <3>4. QueueInv(m)'
      <4>1. SUFFICES ASSUME NEW i \in 1..(Len(kept) + 1), m < sub'.queue[i]
                     PROVE  m \in sub.backlog \cup Excused' \/ m \in Before(sub'.queue, i)
        BY <2>6, <2>7 DEF QueueInv
      <4>2. CASE i = Len(kept) + 1
        <5>1. m < n /\ m \in log
          BY <4>1, <4>2, <2>6, <2>7, <3>0
        <5>2. m \in sub.backlog \cup Excused \/ m \in Before(sub.queue, Len(sub.queue) + 1)
          BY <5>1, <2>10
        <5>3. Len(sub.queue) + 1 \in 1..(Len(sub.queue) + 1) /\ Len(sub.queue) + 1 - d = i
          BY <4>2, <2>1, <2>3, <2>4
        <5>4. m \in Before(sub.queue, Len(sub.queue) + 1) => m \in Excused' \/ m \in Before(sub'.queue, Len(sub.queue) + 1 - d)
          BY <5>3, <3>2, <2>1, <2>4
        <5> QED BY <5>2, <5>3, <5>4, <3>0
      <4>3. CASE i # Len(kept) + 1
        <5>0. i \in 1..Len(kept) /\ i + d \in 1..Len(sub.queue)
          <6>1. i \in 1..(Len(kept) + 1) /\ Len(kept) \in Nat
            BY <2>6
          <6>2. i \in 1..Len(kept)
            BY <6>1, <4>3
          <6>3. Len(kept) + d = Len(sub.queue) /\ d \in Nat
            BY <2>3, <2>4
          <6> QED BY <6>1, <6>2, <6>3
        <5>1. i \in 1..Len(kept) /\ i + d \in 1..Len(sub.queue) /\ sub'.queue[i] = sub.queue[i + d]
          BY <5>0, <2>10a
        <5>2. sub.queue[i + d] \in log
          BY <5>1, <2>1
        <5>3. m \in log /\ m < sub.queue[i + d]
          <6>1. m < sub.queue[i + d]
            BY <4>1, <5>1
          <6>2. PICK x \in log : x = sub.queue[i + d]
            BY <5>2
          <6>3. m < x /\ x \in Nat
            BY <6>1, <6>2
          <6> QED BY <6>1, <6>3, <3>0
        <5>4. m \in sub.backlog \cup Excused \/ m \in Before(sub.queue, i + d)
          BY <5>1, <5>3, <3>1 DEF QueueInv
        <5>5. i + d \in 1..(Len(sub.queue) + 1) /\ i + d - d = i
          BY <5>1, <2>1, <2>4
        <5>6. m \in Before(sub.queue, i + d) => m \in Excused' \/ m \in Before(sub'.queue, i + d - d)
          BY <5>5, <3>2, <2>1, <2>4
        <5> QED BY <5>4, <5>5, <5>6, <3>0
      <4> QED BY <4>2, <4>3
    <3>5. OnItsWay(m)'
      <4>1. Len(sub'.queue) + 1 = Len(kept) + 2 /\ Len(kept) + 1 \in 1..(Len(sub'.queue) + 1 - 1)
        BY <2>6, <2>7
      <4>2. CASE m = n
        <5>1. m \in Before(sub'.queue, Len(sub'.queue) + 1)
          BY <4>1, <4>2, <2>6, <2>7 DEF Before
        <5> QED BY <5>1 DEF OnItsWay
      <4>3. CASE m # n
        <5>1. m \in sub.backlog \cup Excused \cup Fanning \cup foreign \/ m \in Before(sub.queue, Len(sub.queue) + 1)
          BY <4>3, <3>0, <3>1 DEF OnItsWay
        <5>2. m \in Before(sub.queue, Len(sub.queue) + 1) => m \in Excused' \/ m \in Before(sub'.queue, Len(sub.queue) + 1 - d)
          BY <3>2, <2>1, <2>4
        <5>3. m \in Before(sub'.queue, Len(sub.queue) + 1 - d) => m \in Before(sub'.queue, Len(sub'.queue) + 1)
          BY <2>1, <2>3, <2>4, <2>6, <2>7 DEF Before
        <5> QED BY <5>1, <5>2, <5>3, <4>3, <3>0, <2>7 DEF OnItsWay
      <4> QED BY <4>2, <4>3
    <3> QED BY <3>3, <3>4, <3>5
  <2>11. OrderInv'
    BY <2>7, <2>10 DEF OrderInv
  <2> QED BY <2>8, <2>9, <2>11
<1> QED BY <1>1, <1>2

\* A number is taken, inserted or dropped.
LEMMA NumberTaken ==
    ASSUME StreamInv, NEW e \in Emitters, NextSequence(e) \/ Insert(e)
    PROVE  StreamInv'
<1>1. PICK k \in Nat : log = 1..k /\ \A f \in Emitters : emitter[f].number \in 0..(k + 1)
  BY DEF StreamInv, EmitterInv
<1>2. /\ bus' = bus /\ sub' = sub /\ client' = client /\ lost' = lost
      /\ emitter \in [Emitters -> [pc : {"idle", "numbered", "inserted"}, number : Nat]]
  BY DEF NextSequence, Insert, StreamInv, EmitterInv
<1>3. CASE NextSequence(e)
  <2>1. /\ emitter' = [emitter EXCEPT ![e] = [pc |-> "numbered", number |-> k + 1]]
        /\ log' = log /\ raced' = raced /\ foreign' = foreign /\ Postgres /\ emitter[e].pc = "idle"
    BY <1>1, <1>3, LastNumberIs DEF NextSequence
  <2>2. /\ \A f \in Emitters : f # e => emitter'[f] = emitter[f]
        /\ emitter'[e].pc = "numbered" /\ emitter'[e].number = k + 1
        /\ emitter' \in [Emitters -> [pc : {"idle", "numbered", "inserted"}, number : Nat]]
    BY <1>2, <2>1
  <2>4. Fanning' = Fanning
    BY <2>1, <2>2 DEF Fanning
  <2>3. EmitterInv'
    BY <1>1, <1>2, <2>1, <2>2, <2>4 DEF StreamInv, EmitterInv, Overtakes, Postgres
  <2> QED BY <1>2, <2>1, <2>3, <2>4 DEF StreamInv, SubTypes, CursorInv, KeepsCursor, OrderInv, BacklogInv,
             QueueInv, OnItsWay, Excused, SkippedEventsRaced
<1>4. CASE Insert(e) /\ emitter[e].number \in log
  <2>1. /\ emitter' = [emitter EXCEPT ![e] = [pc |-> "idle", number |-> 0]]
        /\ log' = log /\ raced' = raced /\ foreign' = foreign /\ emitter[e].pc = "numbered"
    BY <1>4 DEF Insert
  <2>2. /\ \A f \in Emitters : f # e => emitter'[f] = emitter[f]
        /\ emitter'[e].pc = "idle" /\ emitter'[e].number = 0
        /\ emitter' \in [Emitters -> [pc : {"idle", "numbered", "inserted"}, number : Nat]]
    BY <1>2, <2>1
  <2>4. Fanning' = Fanning
    BY <2>1, <2>2 DEF Fanning
  <2>3. EmitterInv'
    BY <1>1, <1>2, <2>1, <2>2, <2>4 DEF StreamInv, EmitterInv, Overtakes, Postgres
  <2> QED BY <1>2, <2>1, <2>3, <2>4 DEF StreamInv, SubTypes, CursorInv, KeepsCursor, OrderInv, BacklogInv,
             QueueInv, OnItsWay, Excused, SkippedEventsRaced
<1>5. CASE Insert(e) /\ emitter[e].number \notin log
  <2>0. /\ emitter[e].pc = "numbered" /\ emitter[e].number > 0 /\ emitter[e].number \in Nat
        /\ emitter[e].number \in 0..(k + 1)
    BY <1>1, <1>2, <1>5 DEF Insert, StreamInv, EmitterInv
  <2>1. emitter[e].number = k + 1
    BY <1>1, <1>5, <2>0
  <2>2. /\ emitter' = [emitter EXCEPT ![e].pc = "inserted"] /\ log' = log \cup {k + 1}
        /\ foreign' = (IF e \in Elsewhere THEN foreign \cup {k + 1} ELSE foreign)
        /\ raced' = (IF e \in Elsewhere THEN raced ELSE raced \cup Fanning \cup (foreign \ client.seen))
    BY <1>5, <2>1 DEF Insert, Fanning
  <2>3. /\ \A f \in Emitters : f # e => emitter'[f] = emitter[f]
        /\ emitter'[e].pc = "inserted" /\ emitter'[e].number = k + 1
        /\ emitter' \in [Emitters -> [pc : {"idle", "numbered", "inserted"}, number : Nat]]
    BY <1>2, <2>1, <2>2
  <2>4. log' = 1..(k + 1) /\ log \subseteq log' /\ raced \subseteq raced' /\ Excused \subseteq Excused'
    BY <1>1, <1>2, <2>2 DEF Excused
  <2>5. Fanning' = Fanning \cup {k + 1} /\ foreign \subseteq foreign' /\ foreign' \subseteq foreign \cup {k + 1}
    <3>1. \A f \in Emitters : emitter[f].pc = "inserted" => f # e
      BY <2>0
    <3> QED BY <3>1, <2>2, <2>3 DEF Fanning
  <2>6. \A f \in Emitters : f # e /\ emitter'[f].pc = "inserted" =>
            /\ emitter'[f].number \in log
            /\ f \in Elsewhere => emitter'[f].number \in foreign
            /\ f \notin Elsewhere => Overtakes(emitter[f].number) /\ emitter'[f].number = emitter[f].number
    BY <2>3 DEF StreamInv, EmitterInv
  <2>7. \A f \in Emitters : emitter'[f].number \in 0..(k + 2)
    BY <1>1, <2>3
  <2>8. EmitterInv'
    <3>1. \E j \in Nat : log' = 1..j /\ \A f \in Emitters : emitter'[f].number \in 0..(j + 1)
      <4>1. k + 1 \in Nat /\ (k + 1) + 1 = k + 2
        OBVIOUS
      <4> QED BY <4>1, <2>4, <2>7
    <3>2. ~Postgres' => FALSE
      BY <1>2, <2>0 DEF StreamInv, EmitterInv, Postgres
    <3>3. \A f \in Emitters : emitter'[f].pc = "numbered" => emitter'[f].number > 0
      BY <2>3 DEF StreamInv, EmitterInv
    <3>4. \A f \in Emitters : emitter'[f].pc = "inserted" =>
             emitter'[f].number \in log' /\ (f \in Elsewhere => emitter'[f].number \in foreign')
      BY <2>2, <2>3, <2>4, <2>5, <2>6
    <3>5. ASSUME NEW f \in Emitters \ Elsewhere, emitter'[f].pc = "inserted",
                 NEW m \in Fanning' \cup foreign', m < emitter'[f].number
          PROVE  m \in raced' \cup client'.seen
      <4>1. CASE f = e
        BY <3>5, <4>1, <1>2, <2>2, <2>3, <2>5
      <4>2. CASE f # e
        <5>1. emitter'[f].number \in 1..k /\ Overtakes(emitter'[f].number)
          BY <3>5, <4>2, <1>1, <2>6
        <5>2. m \in Fanning \cup foreign
          BY <3>5, <5>1, <2>5
        <5> QED BY <3>5, <5>1, <5>2, <1>2, <2>4 DEF Overtakes
      <4> QED BY <4>1, <4>2
    <3>6. foreign' \subseteq log'
      BY <1>1, <2>4, <2>5 DEF StreamInv, EmitterInv
    <3> QED BY <2>3, <3>1, <3>2, <3>3, <3>4, <3>5, <3>6 DEF EmitterInv, Overtakes
  <2>9. SubTypes'
    <3>1. sub.queue \in Seq(log')
      <4>1. sub.queue \in Seq(log)
        BY DEF StreamInv, SubTypes
      <4>2. log \subseteq log'
        BY <2>4
      <4> QED BY <4>1, <4>2
    <3> QED BY <1>2, <2>4, <3>1 DEF StreamInv, SubTypes
  <2>10. CursorInv' /\ SkippedEventsRaced'
    BY <1>1, <1>2, <2>2, <2>4 DEF StreamInv, SubTypes, CursorInv, KeepsCursor, SkippedEventsRaced
  <2>11. ASSUME sub.pc = "yielding", NEW m \in log', m > client.last
         PROVE  (BacklogInv(m) /\ QueueInv(m) /\ OnItsWay(m))'
    <3>1. CASE m \in log
      <4>1. BacklogInv(m) /\ QueueInv(m) /\ OnItsWay(m)
        BY <3>1, <2>11 DEF StreamInv, OrderInv
      <4> QED BY <4>1, <1>2, <2>4, <2>5 DEF BacklogInv, QueueInv, OnItsWay
    <3>2. CASE m = k + 1
      <4>1. /\ \A x \in sub.backlog : ~(m < x)
            /\ \A i \in 1..Len(sub.queue) : ~(m < sub.queue[i])
        BY <3>2, <1>1 DEF StreamInv, SubTypes
      <4>2. m \in Fanning'
        BY <3>2, <2>3 DEF Fanning
      <4> QED BY <4>1, <4>2, <1>2 DEF BacklogInv, QueueInv, OnItsWay
    <3> QED BY <2>2, <3>1, <3>2
  <2> QED BY <1>2, <2>8, <2>9, <2>10, <2>11 DEF StreamInv, OrderInv
<1> QED BY <1>3, <1>4, <1>5

\* An event is put in the queue: at once in memory, after its insertion with PostgreSQL.
LEMMA EventQueued ==
    ASSUME StreamInv, NEW e \in Emitters, EmitInMemory(e) \/ FanOut(e)
    PROVE  StreamInv'
<1>1. PICK k \in Nat : log = 1..k /\ \A f \in Emitters : emitter[f].number \in 0..(k + 1)
  BY DEF StreamInv, EmitterInv
<1>2. /\ bus' = bus /\ client' = client /\ raced' = raced /\ foreign' = foreign
      /\ SubTypes /\ CursorInv /\ OrderInv
      /\ emitter \in [Emitters -> [pc : {"idle", "numbered", "inserted"}, number : Nat]]
      /\ log \subseteq Nat
  BY <1>1 DEF EmitInMemory, FanOut, StreamInv, EmitterInv
<1>3. client.last \in 0..k
  BY <1>1 DEF StreamInv, SubTypes
<1>4. lost \subseteq lost'
  BY DEF EmitInMemory, FanOut, Queued
<1>5. CASE EmitInMemory(e)
  <2>1. /\ log' = log \cup {k + 1} /\ Queued(k + 1) /\ emitter' = emitter /\ ~Postgres
        /\ k + 1 \in Nat /\ k + 1 \in log' /\ log' = 1..(k + 1)
    BY <1>1, <1>5, LastNumberIs DEF EmitInMemory
  <2>2. EmitterInv'
    <3>1. \A f \in Emitters : emitter[f].number \in 0..(k + 2)
      BY <1>1
    <3>2. \E j \in Nat : log' = 1..j /\ \A f \in Emitters : emitter'[f].number \in 0..(j + 1)
      <4>1. k + 1 \in Nat /\ (k + 1) + 1 = k + 2
        OBVIOUS
      <4> QED BY <4>1, <3>1, <2>1
    <3> QED BY <3>2, <2>1, <1>2 DEF StreamInv, EmitterInv, Postgres
  <2>3. Fanning = {} /\ foreign = {}
    BY <2>1 DEF Fanning, StreamInv, EmitterInv
  <2>4. \A m \in log : m < k + 1
    BY <1>1
  <2>5. sub.pc = "yielding" => \A m \in log : m > client.last /\ m < k + 1 =>
           m \in sub.backlog \cup Excused \/ m \in Before(sub.queue, Len(sub.queue) + 1)
    BY <1>2, <2>3 DEF OrderInv, OnItsWay
  <2>6. SubTypes' /\ CursorInv' /\ OrderInv'
    BY <1>2, <2>1, <2>3, <2>4, <2>5, QueueGrows
  <2>7. SkippedEventsRaced'
    BY <1>1, <1>2, <1>3, <1>4, <2>1 DEF StreamInv, SkippedEventsRaced
  <2> QED BY <2>2, <2>6, <2>7 DEF StreamInv
<1>6. CASE FanOut(e)
  <2>0. PICK n \in Nat : n = emitter[e].number
    BY <1>2
  <2>1. /\ emitter[e].pc = "inserted" /\ emitter' = [emitter EXCEPT ![e] = [pc |-> "idle", number |-> 0]]
        /\ log' = log /\ n \in log
    BY <1>6, <2>0 DEF FanOut, StreamInv, EmitterInv
  <2>2. /\ \A f \in Emitters : f # e => emitter'[f] = emitter[f]
        /\ emitter'[e].pc = "idle" /\ emitter'[e].number = 0
        /\ emitter' \in [Emitters -> [pc : {"idle", "numbered", "inserted"}, number : Nat]]
    BY <1>2, <2>1
  <2>3. EmitterInv'
    <3>1. Fanning' \subseteq Fanning
      BY <2>2 DEF Fanning
    <3> QED BY <1>1, <1>2, <2>1, <2>2, <3>1 DEF StreamInv, EmitterInv, Overtakes, Postgres
  <2>4. SkippedEventsRaced'
    BY <1>2, <1>4, <2>1 DEF StreamInv, SkippedEventsRaced
  <2>5. \A m \in Fanning : m = n \/ m \in Fanning'
    BY <2>0, <2>2 DEF Fanning
  <2>7. CASE e \in Elsewhere
    <3>1. n \in foreign /\ sub' = sub /\ lost' = lost
      BY <1>6, <2>0, <2>1, <2>7 DEF FanOut, StreamInv, EmitterInv
    <3>2. SubTypes' /\ CursorInv'
      BY <1>2, <2>1, <3>1 DEF SubTypes, CursorInv, KeepsCursor
    <3>3. OrderInv'
      BY <1>2, <2>1, <2>5, <3>1 DEF OrderInv, BacklogInv, QueueInv, OnItsWay, Excused
    <3> QED BY <2>3, <2>4, <3>2, <3>3 DEF StreamInv
  <2>8. CASE e \notin Elsewhere
    <3>1. Queued(n)
      BY <1>6, <2>0, <2>8 DEF FanOut
    <3>0. \A m \in Fanning \cup foreign : m > client.last /\ m < n => m \in raced
      BY <1>1, <1>2, <1>3, <2>0, <2>1, <2>8 DEF StreamInv, EmitterInv, Overtakes, SubTypes
    <3>2. sub.pc = "yielding" => \A m \in log : m > client.last /\ m < n =>
             m \in sub.backlog \cup Excused \/ m \in Before(sub.queue, Len(sub.queue) + 1)
      BY <1>2, <3>0 DEF OrderInv, OnItsWay, Excused
    <3>3. log' = log \cup {n} /\ n \in log'
      BY <2>1
    <3>4. SubTypes' /\ CursorInv' /\ OrderInv'
      BY <1>2, <2>1, <2>5, <3>1, <3>2, <3>3, QueueGrows
    <3> QED BY <2>3, <2>4, <3>4 DEF StreamInv
  <2> QED BY <2>7, <2>8
<1> QED BY <1>5, <1>6

\* The client connects or goes; the subscription reads the history.
LEMMA HistoryRead ==
    ASSUME StreamInv, Connect \/ ReadHistory \/ Disconnect
    PROVE  StreamInv'
<1>1. /\ bus' = bus /\ log' = log /\ emitter' = emitter /\ raced' = raced /\ foreign' = foreign
      /\ lost \subseteq lost' /\ client'.last = client.last /\ client'.seen = client.seen
      /\ client' \in [seen : SUBSET log, last : Nat, connects : Nat]
  BY DEF Connect, ReadHistory, Disconnect, StreamInv, SubTypes
<1>2. EmitterInv' /\ SkippedEventsRaced'
  BY <1>1 DEF StreamInv, EmitterInv, Overtakes, Fanning, SkippedEventsRaced, Postgres
<1>3. History \subseteq log /\ QueueSize \in Nat /\ log \subseteq Nat
  BY EventAssumption DEF History, StreamInv, EmitterInv
<1>4. sub \in [pc : {"off", "reading", "yielding"}, cursor : Nat, backlog : SUBSET log, queue : Seq(log)]
      /\ Len(sub.queue) <= QueueSize /\ client.last \in Nat /\ client.last \in client.seen \cup {0} /\ CursorInv
      /\ \A m \in client.seen : m <= client.last
  BY DEF StreamInv, SubTypes
<1>5. CASE Disconnect \/ (Connect /\ bus # "memory_run")
  <2>1. /\ sub'.pc \in {"off", "reading"} /\ sub'.backlog = {} /\ sub'.queue = <<>>
        /\ sub'.cursor \in Nat /\ (sub'.pc = "reading" => sub'.cursor = client.last)
        /\ sub' \in [pc : {"off", "reading", "yielding"}, cursor : Nat, backlog : SUBSET log, queue : Seq(log)]
    <3>1. CASE Disconnect
      BY <3>1 DEF Disconnect, NoSubscription
    <3>2. CASE Connect /\ bus # "memory_run"
      <4>1. sub' = [pc |-> "reading", cursor |-> client.last, backlog |-> {}, queue |-> <<>>]
        BY <3>2 DEF Connect, NoSubscription, ResumePoint
      <4> QED BY <1>4, <4>1
    <3> QED BY <1>5, <3>1, <3>2
  <2> QED BY <1>1, <1>2, <1>3, <1>4, <2>1 DEF StreamInv, SubTypes, CursorInv, OrderInv
<1>6. CASE ReadHistory \/ (Connect /\ bus = "memory_run")
  <2>1. /\ sub'.pc = "yielding" /\ sub'.backlog = After(client.last) /\ sub'.cursor = client.last
        /\ sub'.queue \in Seq(log) /\ Len(sub'.queue) <= QueueSize /\ lost' = lost \cup (log \ History)
        /\ sub' \in [pc : {"off", "reading", "yielding"}, cursor : Nat, backlog : SUBSET log, queue : Seq(log)]
    <3>1. CASE ReadHistory
      <4>1. sub.cursor = client.last
        BY <1>4, <3>1 DEF ReadHistory, CursorInv, Polls, KeepsCursor
      <4>2. /\ sub' = [sub EXCEPT !.pc = "yielding", !.backlog = After(client.last)]
            /\ lost' = lost \cup (log \ History)
        BY <3>1, <4>1 DEF ReadHistory
      <4>3. After(client.last) \in SUBSET log
        BY <1>3 DEF After
      <4> HIDE DEF After
      <4> QED BY <1>4, <4>1, <4>2, <4>3
    <3>2. CASE Connect /\ bus = "memory_run"
      <4>1. /\ sub' = [pc |-> "yielding", cursor |-> client.last, backlog |-> After(client.last), queue |-> <<>>]
            /\ lost' = lost \cup (log \ History)
        BY <3>2 DEF Connect, NoSubscription, ResumePoint
      <4>2. After(client.last) \in SUBSET log
        BY <1>3 DEF After
      <4>3. <<>> \in Seq(log) /\ Len(<<>>) <= QueueSize
        BY <1>3
      <4> HIDE DEF After
      <4> QED BY <1>4, <4>1, <4>2, <4>3
    <3> QED BY <1>6, <3>1, <3>2
  <2>2. \A m \in log : m > client.last => m \in sub'.backlog \cup Excused'
    BY <2>1 DEF After, Excused
  <2>3. SubTypes' /\ CursorInv'
    BY <1>1, <1>4, <2>1 DEF SubTypes, CursorInv
  <2>4. OrderInv'
    BY <1>1, <2>2 DEF OrderInv, BacklogInv, QueueInv, OnItsWay
  <2> QED BY <1>2, <2>3, <2>4 DEF StreamInv
<1> QED BY <1>5, <1>6

\* The endpoint sends the next event of the backlog.
LEMMA BacklogYielded ==
    ASSUME StreamInv, YieldBacklog PROVE StreamInv'
<1>1. PICK n \in sub.backlog :
          /\ \A m \in sub.backlog : n <= m
          /\ sub' = [sub EXCEPT !.backlog = @ \ {n}, !.cursor = IF n > @ THEN n ELSE @]
          /\ Sends(n)
  BY DEF YieldBacklog
<1>2. /\ bus' = bus /\ log' = log /\ emitter' = emitter /\ raced' = raced /\ foreign' = foreign
      /\ lost' = lost /\ sub.pc = "yielding"
  BY DEF YieldBacklog
<1>3. /\ sub \in [pc : {"off", "reading", "yielding"}, cursor : Nat, backlog : SUBSET log, queue : Seq(log)]
      /\ Len(sub.queue) <= QueueSize /\ client \in [seen : SUBSET log, last : Nat, connects : Nat]
      /\ client.last \in client.seen \cup {0} /\ (\A m \in client.seen : m <= client.last)
      /\ log \subseteq Nat \ {0} /\ n \in log
  BY <1>1 DEF StreamInv, SubTypes, EmitterInv
<1>4. EmitterInv'
  <2>1. client.seen \subseteq client'.seen
    BY DEF YieldBacklog, YieldQueued, Sends, StreamInv, SubTypes
  <2> QED BY <1>2, <2>1 DEF StreamInv, EmitterInv, Overtakes, Fanning, Postgres
<1>5. /\ sub'.pc = "yielding" /\ sub'.queue = sub.queue /\ sub'.backlog = sub.backlog \ {n}
      /\ sub'.cursor = (IF n > sub.cursor THEN n ELSE sub.cursor)
      /\ sub' \in [pc : {"off", "reading", "yielding"}, cursor : Nat, backlog : SUBSET log, queue : Seq(log)]
  BY <1>1, <1>2, <1>3
<1>6. /\ client'.last = (IF n <= client.last THEN client.last ELSE n)
      /\ client'.seen = (IF n <= client.last THEN client.seen ELSE client.seen \cup {n})
      /\ client' \in [seen : SUBSET log, last : Nat, connects : Nat]
  BY <1>1, <1>3 DEF Sends
<1>7. SubTypes' /\ CursorInv'
  <2>1. SubTypes'
    <3>1. client'.last \in client'.seen \cup {0} /\ \A m \in client'.seen : m <= client'.last
      <4>1. n \in Nat /\ client.last \in Nat /\ client.seen \subseteq Nat
        BY <1>3
      <4> QED BY <4>1, <1>3, <1>6
    <3> QED BY <1>2, <1>3, <1>5, <1>6, <3>1 DEF SubTypes
  <2>2. sub.cursor \in Nat /\ client.last \in Nat /\ n \in Nat /\ sub.cursor <= client.last
        /\ (KeepsCursor => sub.cursor = client.last) /\ (KeepsCursor' <=> KeepsCursor)
    BY <1>2, <1>3 DEF StreamInv, CursorInv, KeepsCursor
  <2>3. CursorInv'
    BY <1>5, <1>6, <2>2 DEF CursorInv
  <2> QED BY <2>1, <2>3
<1>8. ASSUME NEW m \in log, m > client.last PROVE BacklogInv(m) /\ QueueInv(m) /\ OnItsWay(m)
  BY <1>2, <1>8 DEF StreamInv, OrderInv
<1>9. SkippedEventsRaced'
  <2>1. SUFFICES ASSUME NEW m \in log, m < client'.last PROVE m \in client'.seen \cup Excused
    BY <1>2 DEF SkippedEventsRaced, Excused
  <2>2. m < client.last => m \in client.seen \cup Excused
    BY DEF StreamInv, SkippedEventsRaced, Excused
  <2>3. CASE m > client.last
    <3>1. m < n /\ m \in Nat /\ n \in Nat
      BY <1>3, <1>6, <2>1, <2>3
    <3>2. m \notin sub.backlog
      BY <1>1, <3>1
    <3> QED BY <1>8, <2>3, <3>1, <3>2 DEF BacklogInv
  <2>4. CASE m = client.last
    BY <1>3, <1>6, <2>4
  <2> QED BY <1>3, <1>6, <2>2, <2>3, <2>4
<1>10. OrderInv'
  <2>1. SUFFICES ASSUME NEW m \in log, m > client'.last PROVE (BacklogInv(m) /\ QueueInv(m) /\ OnItsWay(m))'
    BY <1>2 DEF OrderInv
  <2>2. m > client.last /\ m # n
    BY <1>3, <1>6, <2>1
  <2>3. m \in sub.backlog <=> m \in sub'.backlog
    BY <1>5, <2>2
  <2> QED BY <1>2, <1>5, <1>8, <2>2, <2>3 DEF BacklogInv, QueueInv, OnItsWay, Excused, Fanning
<1> QED BY <1>4, <1>7, <1>9, <1>10 DEF StreamInv

\* The endpoint sends, or drops, the next event of the queue.
LEMMA QueueYielded ==
    ASSUME StreamInv, YieldQueued PROVE StreamInv'
<1>0. /\ sub \in [pc : {"off", "reading", "yielding"}, cursor : Nat, backlog : SUBSET log, queue : Seq(log)]
      /\ Len(sub.queue) <= QueueSize /\ client \in [seen : SUBSET log, last : Nat, connects : Nat]
      /\ client.last \in client.seen \cup {0} /\ (\A m \in client.seen : m <= client.last)
      /\ log \subseteq Nat \ {0} /\ QueueSize \in Nat
      /\ sub.queue # <<>> /\ sub.backlog = {} /\ sub.pc = "yielding"
  BY EventAssumption DEF StreamInv, SubTypes, EmitterInv, YieldQueued
<1>1. PICK n \in log : n = Head(sub.queue) /\ n = sub.queue[1]
  <2>1. sub.queue \in Seq(log) /\ sub.queue # <<>>
    BY <1>0
  <2>2. Head(sub.queue) \in log /\ Head(sub.queue) = sub.queue[1]
    BY <2>1
  <2> QED BY <2>2
<1>2. /\ bus' = bus /\ log' = log /\ emitter' = emitter /\ raced' = raced /\ foreign' = foreign /\ lost' = lost
  BY DEF YieldQueued
<1>3. /\ sub.cursor \in Nat /\ client.last \in Nat /\ n \in Nat /\ sub.cursor <= client.last
      /\ (KeepsCursor => sub.cursor = client.last) /\ (KeepsCursor' <=> KeepsCursor)
  BY <1>0, <1>2 DEF StreamInv, CursorInv, KeepsCursor
<1>4. EmitterInv'
  <2>1. client.seen \subseteq client'.seen
    BY DEF YieldBacklog, YieldQueued, Sends, StreamInv, SubTypes
  <2> QED BY <1>2, <2>1 DEF StreamInv, EmitterInv, Overtakes, Fanning, Postgres
<1>5. /\ sub' = [sub EXCEPT !.queue = Tail(@), !.cursor = IF KeepsCursor /\ n > sub.cursor THEN n ELSE @]
      /\ IF KeepsCursor => n > sub.cursor THEN Sends(n) ELSE client' = client
  BY <1>1 DEF YieldQueued
<1>6. /\ sub'.pc = "yielding" /\ sub'.queue = Tail(sub.queue) /\ sub'.backlog = {}
      /\ sub'.cursor = (IF KeepsCursor /\ n > sub.cursor THEN n ELSE sub.cursor)
      /\ sub' \in [pc : {"off", "reading", "yielding"}, cursor : Nat, backlog : SUBSET log, queue : Seq(log)]
  <2>1. PICK c \in Nat : c = IF KeepsCursor /\ n > sub.cursor THEN n ELSE sub.cursor
    BY <1>3
  <2>2. PICK t \in Seq(log) : t = Tail(sub.queue)
    <3>1. sub.queue \in Seq(log) /\ sub.queue # <<>>
      BY <1>0
    <3>2. Tail(sub.queue) \in Seq(log)
      BY <3>1
    <3> QED BY <3>2
  <2>3. sub' = [sub EXCEPT !.queue = t, !.cursor = c]
    BY <1>5, <2>1, <2>2
  <2> QED BY <1>0, <2>1, <2>2, <2>3
<1>7. /\ Len(sub'.queue) = Len(sub.queue) - 1 /\ Len(sub.queue) \in Nat \ {0}
      /\ \A i \in 1..Len(sub'.queue) : sub'.queue[i] = sub.queue[i + 1]
  BY <1>0, <1>6
\* Whether it is dropped or not, the client is then at the event or past it.
<1>8. /\ client'.last = (IF n <= client.last THEN client.last ELSE n)
      /\ client'.seen = (IF n <= client.last THEN client.seen ELSE client.seen \cup {n})
      /\ client' \in [seen : SUBSET log, last : Nat, connects : Nat]
  <2>1. CASE KeepsCursor => n > sub.cursor
    <3>1. client \in [seen : SUBSET log, last : Nat, connects : Nat] /\ n \in log /\ n \in Nat
      BY <1>0, <1>3
    <3> QED BY <1>5, <2>1, <3>1 DEF Sends
  <2>2. CASE ~(KeepsCursor => n > sub.cursor)
    BY <1>0, <1>3, <1>5, <2>2
  <2> QED BY <2>1, <2>2
<1>9. SubTypes'
  BY <1>0, <1>1, <1>2, <1>6, <1>7, <1>8 DEF SubTypes
<1>10. CursorInv'
  BY <1>3, <1>6, <1>8 DEF CursorInv
<1>11. ASSUME NEW m \in log, m > client.last PROVE QueueInv(m) /\ OnItsWay(m)
  BY <1>0, <1>11 DEF StreamInv, OrderInv
<1>12. SkippedEventsRaced'
  <2>1. SUFFICES ASSUME NEW m \in log, m < client'.last PROVE m \in client'.seen \cup Excused
    BY <1>2 DEF SkippedEventsRaced, Excused
  <2>2. m < client.last => m \in client.seen \cup Excused
    BY DEF StreamInv, SkippedEventsRaced, Excused
  <2>3. CASE m > client.last
    <3>1. m < n /\ m \in Nat /\ n \in Nat
      BY <1>0, <1>3, <1>8, <2>1, <2>3
    <3>2. m \notin Before(sub.queue, 1) /\ 1 \in 1..Len(sub.queue)
      BY <1>7 DEF Before
    <3> QED BY <1>0, <1>1, <1>11, <2>3, <3>1, <3>2 DEF QueueInv
  <2>4. CASE m = client.last
    BY <1>0, <1>8, <2>4
  <2> QED BY <1>0, <1>3, <1>8, <2>2, <2>3, <2>4
<1>13. OrderInv'
  <2>1. SUFFICES ASSUME NEW m \in log, m > client'.last PROVE (BacklogInv(m) /\ QueueInv(m) /\ OnItsWay(m))'
    BY <1>2 DEF OrderInv
  <2>2. m > client.last /\ m # n
    BY <1>0, <1>3, <1>8, <2>1
  <2>3. ASSUME NEW i \in 1..Len(sub.queue), m \in Before(sub.queue, i + 1) PROVE m \in Before(sub'.queue, i)
    <3>1. PICK j \in 1..i : sub.queue[j] = m
      BY <2>3 DEF Before
    <3>2. j # 1
      BY <1>1, <2>2, <3>1
    <3>3. j - 1 \in 1..(i - 1) /\ j - 1 \in 1..Len(sub'.queue) /\ (j - 1) + 1 = j
      BY <1>7, <3>2
    <3>4. sub'.queue[j - 1] = m
      BY <1>7, <3>1, <3>3
    <3> QED BY <3>3, <3>4 DEF Before
  <2>4. BacklogInv(m)'
    BY <1>6 DEF BacklogInv
  <2>5. Excused' = Excused /\ Fanning' = Fanning /\ foreign' = foreign
    BY <1>2 DEF Excused, Fanning
  <2>6. QueueInv(m)'
    <3>1. SUFFICES ASSUME NEW i \in 1..Len(sub'.queue), m < sub'.queue[i]
                   PROVE  m \in Excused \/ m \in Before(sub'.queue, i)
      BY <2>5 DEF QueueInv
    <3>2. i + 1 \in 1..Len(sub.queue) /\ i \in 1..Len(sub.queue) /\ m < sub.queue[i + 1]
      BY <1>7, <3>1
    <3>3. m \in Excused \/ m \in Before(sub.queue, i + 1)
      BY <1>0, <1>11, <2>2, <3>2 DEF QueueInv
    <3> QED BY <2>3, <3>2, <3>3
  <2>7. OnItsWay(m)'
    <3>1. m \in Excused \cup Fanning \cup foreign \/ m \in Before(sub.queue, Len(sub.queue) + 1)
      BY <1>0, <1>11, <2>2 DEF OnItsWay
    <3>2. Len(sub.queue) \in 1..Len(sub.queue) /\ Len(sub'.queue) + 1 = Len(sub.queue)
      BY <1>7
    <3>3. m \in Excused \cup Fanning \cup foreign \/ m \in Before(sub'.queue, Len(sub'.queue) + 1)
      BY <2>3, <3>1, <3>2
    <3> QED BY <2>5, <3>3 DEF OnItsWay
  <2> QED BY <2>4, <2>6, <2>7
<1> QED BY <1>4, <1>9, <1>10, <1>12, <1>13 DEF StreamInv

\* The client misses no event below the last one it saw, over any number of connections,
\* unless a full queue or history gave it up or a later event of this process overtook
\* it: for every bus, every number of emitters and every queue size.
THEOREM SkipsAreExcused == EventInit /\ [][EventNext]_eventVars => []SkippedEventsRaced
<1>1. EventInit => StreamInv
  <2> SUFFICES ASSUME EventInit PROVE StreamInv
    OBVIOUS
  <2>1. EmitterInv
    <3>1. log = 1..0 /\ \A e \in Emitters : emitter[e].number \in 0..(0 + 1)
      BY DEF EventInit
    <3> QED BY <3>1 DEF EventInit, EmitterInv
  <2>2. SubTypes /\ CursorInv /\ OrderInv /\ SkippedEventsRaced
    BY EventAssumption DEF EventInit, NoSubscription, SubTypes, CursorInv, OrderInv, SkippedEventsRaced
  <2> QED BY <2>1, <2>2 DEF StreamInv
<1>2. StreamInv /\ [EventNext]_eventVars => StreamInv'
  <2> SUFFICES ASSUME StreamInv, [EventNext]_eventVars PROVE StreamInv'
    OBVIOUS
  <2>1. CASE UNCHANGED eventVars
    BY <2>1 DEF eventVars, StreamInv, EmitterInv, SubTypes, CursorInv, OrderInv, SkippedEventsRaced, Postgres,
       KeepsCursor, BacklogInv, QueueInv, OnItsWay, Excused, Fanning, Overtakes
  <2> QED BY <2>1, NumberTaken, EventQueued, HistoryRead, BacklogYielded, QueueYielded DEF EventNext, Delivers
<1>3. StreamInv => SkippedEventsRaced
  BY DEF StreamInv
<1> QED BY <1>1, <1>2, <1>3, PTL

-----------------------------------------------------------------------------
(* The work queue: lease fencing for any number of items, workers, attempts and crashes. *)

\* What IInv says of one item's row and accepted results.
Kept(row, accepted) ==
    /\ row.attempts <= MaximumAttempts
    /\ row.status = "pending" => row.attempts < MaximumAttempts
    /\ accepted # {} => row.status = "completed" /\ accepted = {row.attempts}
    /\ row.owner # None => row.status = "leased"
    /\ row.status = "absent" => row.attempts = 0

\* What IInv says of the execution of worker w.
Holds(w) ==
    worker[w].pc # "idle" =>
        /\ worker[w].key \in Keys
        /\ worker[w].claim <= item[worker[w].key].attempts
        /\ Owned(worker[w].key, w) => worker[w].claim = item[worker[w].key].attempts

\* IInv, item by item and worker by worker.
LEMMA IInvParts ==
    ASSUME IInv
    PROVE  /\ \A k \in Keys : /\ Kept(item[k], results[k])
                              /\ item[k] \in WorkItem
                              /\ item[k].attempts \in Nat
                              /\ results[k] \in SUBSET Nat
           /\ \A w \in Workers : Holds(w) /\ worker[w] \in Execution /\ worker[w].claim \in Nat
           /\ MaximumAttempts \in Nat \ {0}
  BY QueueAssumption
     DEF IInv, Kept, Holds, AttemptsBounded, ResultIsFenced, Eligible, TypeOK, WorkItem, Execution

\* What a step that gives row k the value v may do to the execution of w: start one
\* that holds its lease, end it, or leave its claim alone, and then w owns the row
\* only as it did before.
Carried(w, k, v) ==
    \/ Holds(w)'
    \/ worker'[w] = Idle
    \/ /\ worker'[w] = worker[w] \/ (worker[w].pc # "idle" /\
                                     worker'[w] = [worker[w] EXCEPT !.pc = "failing"])
       /\ v.owner = w => Owned(k, w) /\ v.attempts = item[k].attempts

\* A step that gives at most one row a new value: the row keeps to IInv and
\* loses no attempt, and every execution is carried along.
LEMMA RowStep ==
    ASSUME IInv, NEW k \in Keys, NEW v \in WorkItem, NEW S \in SUBSET Nat,
           item' = [item EXCEPT ![k] = v], results' = [results EXCEPT ![k] = S],
           Kept(v, S), v.attempts >= item[k].attempts,
           worker' \in [Workers -> Execution], crashes' \in Nat,
           \A w \in Workers : Carried(w, k, v)
    PROVE  IInv'
<1>1. TypeOK'
  BY DEF IInv, TypeOK
<1>2. \A q \in Keys : item'[q] = (IF q = k THEN v ELSE item[q]) /\
                      results'[q] = (IF q = k THEN S ELSE results[q])
  BY DEF IInv, TypeOK
<1>3. \A q \in Keys : Kept(item'[q], results'[q])
  BY <1>2, IInvParts
<1>4. ASSUME NEW w \in Workers PROVE Holds(w)'
  <2>1. CASE worker'[w] = Idle
    BY <2>1 DEF Holds, Idle
  <2>2. CASE /\ worker'[w] = worker[w] \/ (worker[w].pc # "idle" /\
                                           worker'[w] = [worker[w] EXCEPT !.pc = "failing"])
             /\ v.owner = w => Owned(k, w) /\ v.attempts = item[k].attempts
    <3>1. /\ worker'[w].key = worker[w].key /\ worker'[w].claim = worker[w].claim
          /\ worker'[w].pc # "idle" => worker[w].pc # "idle"
      BY <2>2, IInvParts DEF Execution
    <3>2. Holds(w) /\ worker[w].claim \in Nat /\ item[k].attempts \in Nat /\ v.attempts \in Nat
      BY IInvParts DEF WorkItem
    <3>3. CASE worker[w].key = k
      BY <1>2, <2>2, <3>1, <3>2, <3>3 DEF Holds, Owned
    <3>4. CASE worker[w].key # k
      BY <1>2, <3>1, <3>2, <3>4 DEF Holds, Owned
    <3> QED  BY <3>3, <3>4
  <2> QED  BY <2>1, <2>2 DEF Carried
<1> QED
  BY <1>1, <1>3, <1>4
     DEF IInv, Kept, Holds, AttemptsBounded, ResultIsFenced, Eligible, Owned

\* A step that changes no row.
LEMMA ExecutionStep ==
    ASSUME IInv, NEW k \in Keys, UNCHANGED <<item, results>>, crashes' \in Nat,
           worker' \in [Workers -> Execution],
           \A w \in Workers :
              \/ worker'[w] = worker[w]
              \/ worker'[w] = Idle
              \/ worker[w].pc # "idle" /\ worker'[w] = [worker[w] EXCEPT !.pc = "failing"]
    PROVE  IInv'
<1>1. item' = [item EXCEPT ![k] = item[k]] /\ results' = [results EXCEPT ![k] = results[k]]
  BY DEF IInv, TypeOK
<1>2. Kept(item[k], results[k]) /\ item[k] \in WorkItem /\ item[k].attempts >= item[k].attempts
  BY IInvParts
<1>3. \A w \in Workers : item[k].owner = w => Owned(k, w)
  BY <1>2, QueueAssumption DEF Kept, Owned
<1>4. results[k] \in SUBSET Nat /\ \A w \in Workers : Carried(w, k, item[k])
  BY <1>3, IInvParts DEF Carried
<1> QED  BY <1>1, <1>2, <1>4, RowStep

\* The queue's own steps: a new item and a lease that runs out.
LEMMA QueueSteps ==
    ASSUME IInv, NEW k \in Keys, Enqueue(k) \/ LeaseExpires(k)
    PROVE  IInv'
<1>1. /\ item[k] \in WorkItem /\ Kept(item[k], results[k]) /\ item[k].attempts \in Nat
      /\ UNCHANGED <<worker, crashes, results>> /\ MaximumAttempts \in Nat \ {0}
      /\ results' = [results EXCEPT ![k] = results[k]] /\ results[k] \in SUBSET Nat
      /\ worker' \in [Workers -> Execution] /\ crashes' \in Nat
  BY IInvParts DEF Enqueue, LeaseExpires, IInv, TypeOK
<1>2. CASE LeaseExpires(k)
  <2> DEFINE v == [item[k] EXCEPT !.expired = TRUE]
  <2>1. item' = [item EXCEPT ![k] = v] /\ v \in WorkItem /\ item[k].status = "leased"
    BY <1>1, <1>2 DEF LeaseExpires, IInv, TypeOK, WorkItem
  <2>2. v.attempts = item[k].attempts /\ v.owner = item[k].owner /\ v.status = "leased"
    BY <1>1, <2>1 DEF WorkItem
  <2> HIDE DEF v
  <2>3. Kept(v, results[k]) /\ v.attempts >= item[k].attempts
    BY <1>1, <2>1, <2>2 DEF Kept
  <2>4. \A w \in Workers : Carried(w, k, v)
    BY <1>1, <2>1, <2>2 DEF Carried, Owned
  <2> QED  BY <1>1, <2>1, <2>3, <2>4, RowStep
<1>3. CASE Enqueue(k)
  <2> DEFINE v == [item[k] EXCEPT !.status = "pending"]
  <2>1. item' = [item EXCEPT ![k] = v] /\ v \in WorkItem /\ item[k].status = "absent"
    BY <1>1, <1>3 DEF Enqueue, IInv, TypeOK, WorkItem, WorkStatus
  <2>2. v.attempts = 0 /\ item[k].attempts = 0 /\ v.owner = None /\ v.status = "pending"
    BY <1>1, <2>1 DEF WorkItem, Kept
  <2> HIDE DEF v
  <2>3. Kept(v, results[k]) /\ v.attempts >= item[k].attempts
    BY <1>1, <2>1, <2>2 DEF Kept
  <2>4. \A w \in Workers : Carried(w, k, v)
    BY <1>1, <2>2, QueueAssumption DEF Carried
  <2> QED  BY <1>1, <2>1, <2>3, <2>4, RowStep
<1> QED  BY <1>2, <1>3

\* claim: the new owner's execution knows the attempt it counted.
LEMMA ClaimStep ==
    ASSUME IInv, NEW w \in Workers, Claim(w)
    PROVE  IInv'
<1>1. PICK k \in Keys :
         /\ Eligible(k)
         /\ item' = [item EXCEPT ![k] = [status |-> "leased", owner |-> w,
                                         attempts |-> @.attempts + 1, expired |-> FALSE]]
         /\ worker' = [worker EXCEPT ![w] = [pc |-> "handling", key |-> k,
                                             claim |-> item[k].attempts + 1]]
  BY DEF Claim
<1>2. /\ item[k] \in WorkItem /\ Kept(item[k], results[k]) /\ item[k].attempts \in Nat
      /\ MaximumAttempts \in Nat \ {0} /\ item[k].attempts + 1 \in Nat
      /\ UNCHANGED <<crashes, results>>
      /\ results' = [results EXCEPT ![k] = results[k]] /\ results[k] \in SUBSET Nat
      /\ crashes' \in Nat
  BY IInvParts DEF Claim, IInv, TypeOK
<1> DEFINE v == [status |-> "leased", owner |-> w, attempts |-> item[k].attempts + 1,
                 expired |-> FALSE]
           e == [pc |-> "handling", key |-> k, claim |-> item[k].attempts + 1]
<1>3. item' = [item EXCEPT ![k] = v] /\ worker' = [worker EXCEPT ![w] = e]
  BY <1>1 DEF IInv, TypeOK
<1>4. /\ v \in WorkItem /\ v.status = "leased" /\ v.owner = w /\ v.attempts = item[k].attempts + 1
      /\ e \in Execution /\ e.key = k /\ e.claim = v.attempts /\ e.pc = "handling"
  BY <1>2 DEF WorkItem, Execution, WorkStatus
<1> HIDE DEF v, e
<1>5. results[k] = {}
  BY <1>1, <1>2 DEF Eligible, Kept
<1>6. worker' \in [Workers -> Execution] /\ worker'[w] = e /\ item'[k] = v
      /\ \A u \in Workers \ {w} : worker'[u] = worker[u]
  BY <1>3, <1>4 DEF IInv, TypeOK
<1>7. Holds(w)'
  BY <1>4, <1>6, <1>2 DEF Holds
<1>8. Kept(v, results[k]) /\ v.attempts >= item[k].attempts
  BY <1>1, <1>2, <1>4, <1>5 DEF Kept, Eligible
<1>9. \A u \in Workers : Carried(u, k, v)
  BY <1>4, <1>6, <1>7 DEF Carried
<1> QED  BY <1>2, <1>3, <1>4, <1>6, <1>8, <1>9, RowStep

\* The steps of a worker that holds, or believes it holds, a lease.
LEMMA WorkerSteps ==
    ASSUME IInv, NEW w \in Workers,
           Renew(w) \/ Complete(w) \/ HandlerFails(w) \/ Fail(w) \/ WorkerCrash(w)
    PROVE  IInv'
<1> DEFINE k == worker[w].key
<1>1. /\ worker[w].pc # "idle" /\ k \in Keys /\ worker[w] \in Execution /\ Holds(w)
      /\ worker[w].claim \in Nat
      /\ item[k] \in WorkItem /\ item[k].attempts \in Nat /\ Kept(item[k], results[k])
      /\ results[k] \in SUBSET Nat /\ MaximumAttempts \in Nat \ {0}
      /\ crashes' \in Nat
  <2>1. worker[w].pc # "idle" /\ (crashes' = crashes \/ crashes' = crashes + 1)
    BY DEF Renew, Complete, HandlerFails, Fail, WorkerCrash
  <2>2. Holds(w) /\ k \in Keys
    BY <2>1, IInvParts DEF Holds
  <2>3. crashes' \in Nat
    BY <2>1 DEF IInv, TypeOK
  <2> QED  BY <2>1, <2>2, <2>3, IInvParts
<1>2. CASE worker' = [worker EXCEPT ![w].pc = "failing"] /\ UNCHANGED <<item, results>>
  <2>1. worker' \in [Workers -> Execution]
    BY <1>1, <1>2 DEF IInv, TypeOK, Execution
  <2>2. \A u \in Workers : worker'[u] = worker[u] \/
           (worker[u].pc # "idle" /\ worker'[u] = [worker[u] EXCEPT !.pc = "failing"])
    BY <1>1, <1>2 DEF IInv, TypeOK
  <2> HIDE DEF k
  <2> QED  BY <1>1, <1>2, <2>1, <2>2, ExecutionStep
<1>3. CASE worker' = [worker EXCEPT ![w] = Idle] /\ UNCHANGED <<item, results>>
  <2>1. worker' \in [Workers -> Execution] /\ \A u \in Workers : worker'[u] \in {worker[u], Idle}
    BY <1>3 DEF IInv, TypeOK, Execution, Idle
  <2> HIDE DEF k
  <2> QED  BY <1>1, <1>3, <2>1, ExecutionStep
<1>4. ASSUME NEW status \in {"pending", "completed", "failed"}, NEW S \in SUBSET Nat,
             Owned(k, w), item' = Released(k, status), results' = [results EXCEPT ![k] = S],
             worker' = [worker EXCEPT ![w] = Idle],
             status = "pending" => item[k].attempts < MaximumAttempts,
             S # {} => status = "completed" /\ S = {item[k].attempts}
      PROVE  IInv'
  <2> DEFINE v == [status |-> status, owner |-> None, attempts |-> item[k].attempts,
                   expired |-> FALSE]
  <2>1. item' = [item EXCEPT ![k] = v]
    BY <1>1, <1>4 DEF Released, IInv, TypeOK
  <2>2. v \in WorkItem /\ v.status = status /\ v.owner = None /\ v.attempts = item[k].attempts
    BY <1>1 DEF WorkItem, WorkStatus
  <2>3. Kept(v, S) /\ v.attempts >= item[k].attempts
    BY <1>1, <1>4, <2>2 DEF Kept
  <2>4. worker' \in [Workers -> Execution] /\ \A u \in Workers : worker'[u] \in {worker[u], Idle}
    BY <1>4 DEF IInv, TypeOK, Execution, Idle
  <2> HIDE DEF v, k
  <2>5. \A u \in Workers : Carried(u, k, v)
    BY <2>2, <2>4, QueueAssumption DEF Carried
  <2> QED  BY <1>1, <1>4, <2>1, <2>2, <2>3, <2>4, <2>5, RowStep
<1>5. CASE Renew(w)
  <2> DEFINE v == [item[k] EXCEPT !.expired = FALSE]
  <2>1. /\ item' = [item EXCEPT ![k] = v] /\ v \in WorkItem /\ v.attempts = item[k].attempts
        /\ v.owner = item[k].owner /\ v.status = item[k].status
        /\ UNCHANGED <<worker, results>>
    BY <1>1, <1>5 DEF Renew, IInv, TypeOK, WorkItem
  <2>2. /\ results' = [results EXCEPT ![k] = results[k]] /\ worker' \in [Workers -> Execution]
        /\ Kept(v, results[k]) /\ v.attempts >= item[k].attempts
    BY <1>1, <2>1 DEF IInv, TypeOK, Kept
  <2>3. Owned(k, w)
    BY <1>5 DEF Renew
  <2>4. \A u \in Workers : worker'[u] = worker[u] /\ (v.owner = u => Owned(k, u))
    BY <2>1, <2>3 DEF Owned
  <2> HIDE DEF v, k
  <2>5. \A u \in Workers : Carried(u, k, v)
    BY <2>1, <2>4 DEF Carried
  <2> QED  BY <1>1, <2>1, <2>2, <2>5, RowStep
<1>6. CASE Complete(w)
  <2>1. CASE Owned(k, w)
    <3> DEFINE S == results[k] \cup {worker[w].claim}
    <3>1. S = {item[k].attempts} /\ S \in SUBSET Nat
      BY <1>1, <2>1 DEF Holds, Kept, Owned
    <3>2. /\ item' = Released(k, "completed") /\ worker' = [worker EXCEPT ![w] = Idle]
          /\ results' = [results EXCEPT ![k] = S]
      BY <1>1, <1>6, <2>1 DEF Complete, IInv, TypeOK
    <3> HIDE DEF S, k
    <3> QED  BY <1>4, <2>1, <3>1, <3>2
  <2> QED  BY <1>2, <1>6, <2>1 DEF Complete
<1>7. CASE Fail(w)
  <2>1. CASE Owned(k, w)
    <3>1. results[k] = {} /\ results' = [results EXCEPT ![k] = results[k]]
      BY <1>1, <1>7, <2>1 DEF Kept, Owned, Fail, IInv, TypeOK
    <3>2. /\ FailedStatus(k) \in {"pending", "failed"}
          /\ FailedStatus(k) = "pending" => item[k].attempts < MaximumAttempts
          /\ item' = Released(k, FailedStatus(k)) /\ worker' = [worker EXCEPT ![w] = Idle]
      BY <1>7, <2>1 DEF Fail, FailedStatus
    <3> HIDE DEF k
    <3> QED  BY <1>1, <1>4, <2>1, <3>1, <3>2
  <2> QED  BY <1>3, <1>7, <2>1 DEF Fail
<1> QED
  BY <1>2, <1>3, <1>5, <1>6, <1>7 DEF HandlerFails, WorkerCrash

\* The inductive invariant holds always.
LEMMA QueueInvariant == Spec => []IInv
<1>1. Init => IInv
  <2> SUFFICES ASSUME Init PROVE IInv
    OBVIOUS
  <2>1. TypeOK
    BY DEF Init, TypeOK, Idle, WorkItem, WorkStatus, Execution
  <2> QED  BY <2>1, QueueAssumption DEF Init, IInv, AttemptsBounded, ResultIsFenced, Idle
<1>2. IInv /\ [Next]_vars => IInv'
  <2> SUFFICES ASSUME IInv, [Next]_vars PROVE IInv'
    OBVIOUS
  <2>1. CASE UNCHANGED vars
    BY <2>1 DEF vars, IInv, TypeOK, AttemptsBounded, ResultIsFenced, Eligible, Owned
  <2> QED  BY <2>1, QueueSteps, ClaimStep, WorkerSteps DEF Next, RunOnce
<1> QED  BY <1>1, <1>2, PTL DEF Spec

\* However leases expire, are taken over, renewed and abandoned, an item keeps the
\* result of its latest claim only: complete is conditional on the lease owner.
THEOREM LeasesFence == Spec => []ResultIsFenced
BY QueueInvariant, PTL DEF IInv

\* For any number of workers and crashes, an item is claimed at most maximum_attempts
\* times, and fail gives it back to the queue only if it can be claimed again.
THEOREM AttemptsLimited == Spec => []AttemptsBounded
BY QueueInvariant, PTL DEF IInv

=============================================================================
