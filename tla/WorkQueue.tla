------------------------------ MODULE WorkQueue ------------------------------
(***************************************************************************)
(* The lease-based work queue and the workers that drain it:               *)
(* InMemoryWorkQueue and PostgresWorkQueue, whose operations are atomic    *)
(* (a lock or one SQL statement), and DistributedWorker.run_once, which is *)
(* suspended between them.  Every worker has its own worker_id and runs    *)
(* run_once once at a time; its process may die and come back under the    *)
(* same id.                                                                *)
(***************************************************************************)
EXTENDS Integers

CONSTANTS
    Keys,           \* (tenant, deduplication key) pairs of the work items
    Workers,        \* worker ids
    MaximumAttempts,\* WorkItem.maximum_attempts
    MaxCrashes,     \* how many worker processes may die
    None            \* the lease_owner of an item that is not leased, no item

ASSUME QueueAssumption ==
    /\ MaximumAttempts \in Nat \ {0}
    /\ MaxCrashes \in Nat
    /\ None \notin Workers \cup Keys

VARIABLES
    item,     \* the rows of traccia_runtime_work_items
    worker,   \* the run_once execution of every worker
    crashes,  \* worker processes that died
    results   \* by item, the claims whose result was accepted

vars == <<item, worker, crashes, results>>

WorkStatus == {"absent", "pending", "leased", "completed", "failed"}

\* A row: `expired` is whether lease_expires_at has passed.
WorkItem == [status: WorkStatus, owner: Workers \cup {None}, attempts: Nat, expired: BOOLEAN]

\* A worker is idle, in its handler, or about to report a failure for the item
\* it claimed as the `claim`-th attempt.
Execution == [pc: {"idle", "handling", "failing"}, key: Keys \cup {None}, claim: Nat]

Idle == [pc |-> "idle", key |-> None, claim |-> 0]

Init ==
    /\ item = [k \in Keys |-> [status |-> "absent", owner |-> None, attempts |-> 0,
                               expired |-> FALSE]]
    /\ worker = [w \in Workers |-> Idle]
    /\ crashes = 0
    /\ results = [k \in Keys |-> {}]

-----------------------------------------------------------------------------
(* The queue. *)

\* enqueue inserts a key once; a later enqueue of the key returns the first item.
Enqueue(k) ==
    /\ item[k].status = "absent"
    /\ item' = [item EXCEPT ![k].status = "pending"]
    /\ UNCHANGED <<worker, crashes, results>>

\* Mutant: an expired lease is not taken over.
EligibleMutant(k) == item[k].status = "pending" /\ item[k].attempts < MaximumAttempts

\* Pending, or leased with an expired lease, and with an attempt left.
Eligible(k) ==
    /\ \/ item[k].status = "pending"
       \/ item[k].status = "leased" /\ item[k].expired
    /\ item[k].attempts < MaximumAttempts

\* Mutant: the UPDATE checks the status but not the lease owner.
OwnedMutant(k, w) == item[k].status = "leased"

\* The lease the worker's UPDATE is conditional on; its expiry is not.
Owned(k, w) == item[k].status = "leased" /\ item[k].owner = w

\* Mutant: the attempts of a failed item are not looked at.
FailedStatusMutant(k) == "pending"

\* fail with retry: back to the queue unless this was the last attempt.
FailedStatus(k) == IF item[k].attempts < MaximumAttempts THEN "pending" ELSE "failed"

\* The lease is given back and the row gets its new status.
Released(k, status) ==
    [item EXCEPT ![k] = [status |-> status, owner |-> None, attempts |-> @.attempts,
                         expired |-> FALSE]]

-----------------------------------------------------------------------------
(* DistributedWorker.run_once *)

\* claim leases an eligible item and counts the attempt.  The oldest comes first,
\* but SKIP LOCKED passes over rows another statement holds: any may be taken.
Claim(w) ==
    /\ worker[w].pc = "idle"
    /\ \E k \in Keys :
          /\ Eligible(k)
          /\ item' = [item EXCEPT ![k] = [status |-> "leased", owner |-> w,
                                          attempts |-> @.attempts + 1, expired |-> FALSE]]
          /\ worker' = [worker EXCEPT ![w] = [pc |-> "handling", key |-> k,
                                              claim |-> item[k].attempts + 1]]
    /\ UNCHANGED <<crashes, results>>

\* A handler that knows its work takes long renews the lease, expired or not.
Renew(w) ==
    /\ worker[w].pc = "handling"
    /\ Owned(worker[w].key, w)
    /\ item[worker[w].key].expired
    /\ item' = [item EXCEPT ![worker[w].key].expired = FALSE]
    /\ UNCHANGED <<worker, crashes, results>>

\* The handler returned; complete is refused if the lease went to somebody else,
\* and the refusal is reported like a failure of the handler.
Complete(w) ==
    /\ worker[w].pc = "handling"
    /\ LET k == worker[w].key
       IN  IF Owned(k, w)
           THEN /\ item' = Released(k, "completed")
                /\ results' = [results EXCEPT ![k] = @ \cup {worker[w].claim}]
                /\ worker' = [worker EXCEPT ![w] = Idle]
           ELSE /\ worker' = [worker EXCEPT ![w].pc = "failing"]
                /\ UNCHANGED <<item, results>>
    /\ UNCHANGED crashes

\* The handler raised, the kind has no handler, or the worker was cancelled.
HandlerFails(w) ==
    /\ worker[w].pc = "handling"
    /\ worker' = [worker EXCEPT ![w].pc = "failing"]
    /\ UNCHANGED <<item, crashes, results>>

\* fail; without the lease it raises ConflictError out of run_once.
Fail(w) ==
    /\ worker[w].pc = "failing"
    /\ LET k == worker[w].key
       IN  item' = IF Owned(k, w) THEN Released(k, FailedStatus(k)) ELSE item
    /\ worker' = [worker EXCEPT ![w] = Idle]
    /\ UNCHANGED <<crashes, results>>

\* The worker's process dies; its leases run on.
WorkerCrash(w) ==
    /\ crashes < MaxCrashes
    /\ worker[w].pc # "idle"
    /\ crashes' = crashes + 1
    /\ worker' = [worker EXCEPT ![w] = Idle]
    /\ UNCHANGED <<item, results>>

\* The clock passes lease_expires_at.
LeaseExpires(k) ==
    /\ item[k].status = "leased"
    /\ ~item[k].expired
    /\ item' = [item EXCEPT ![k].expired = TRUE]
    /\ UNCHANGED <<worker, crashes, results>>

RunOnce(w) == Claim(w) \/ Complete(w) \/ HandlerFails(w) \/ Fail(w)

Next ==
    \/ \E k \in Keys : Enqueue(k) \/ LeaseExpires(k)
    \/ \E w \in Workers : RunOnce(w) \/ Renew(w) \/ WorkerCrash(w)

Spec == Init /\ [][Next]_vars

\* Workers poll for work and their handlers end, one way or the other; time passes.
Fairness ==
    /\ \A w \in Workers : WF_vars(RunOnce(w))
    /\ \A k \in Keys : WF_vars(LeaseExpires(k))

FairSpec == Spec /\ Fairness

-----------------------------------------------------------------------------
(* Properties. *)

\* Rows and executions have the shape the queue gives them.
TypeOK ==
    /\ item \in [Keys -> WorkItem]
    /\ worker \in [Workers -> Execution]
    /\ crashes \in Nat
    /\ results \in [Keys -> SUBSET Nat]

\* The result of an item is the one of its latest claim, accepted once: a worker
\* whose lease expired and was taken over cannot complete the item, whenever it
\* comes back and whoever failed, crashed or was reclaimed in between.
ResultIsFenced ==
    \A k \in Keys : results[k] # {} => /\ item[k].status = "completed"
                                       /\ results[k] = {item[k].attempts}

\* An item is claimed at most maximum_attempts times, and one that went back to
\* the queue can be claimed again.
AttemptsBounded ==
    \A k \in Keys : /\ item[k].attempts <= MaximumAttempts
                    /\ item[k].status = "pending" => Eligible(k)

\* An execution knows an attempt that was made, and the lease it holds is for the
\* latest one; a lease has an owner, and no result is kept before completion.
IInv ==
    /\ TypeOK
    /\ AttemptsBounded
    /\ ResultIsFenced
    /\ \A k \in Keys : /\ item[k].owner # None => item[k].status = "leased"
                       /\ item[k].status = "absent" => item[k].attempts = 0
    /\ \A w \in Workers : worker[w].pc # "idle" =>
          LET k == worker[w].key
          IN  /\ k \in Keys
              /\ worker[w].claim <= item[k].attempts
              /\ Owned(k, w) => worker[w].claim = item[k].attempts

\* A claim whose worker died on the last attempt: nothing ends the lease.
Abandoned(k) ==
    /\ item[k].status = "leased"
    /\ item[k].expired
    /\ item[k].attempts = MaximumAttempts
    /\ \A w \in Workers : worker[w].key # k

\* Every enqueued item is completed or failed in the end, although leases expire
\* and workers die, unless a worker died on the item's last attempt.
ItemsSettle ==
    \A k \in Keys : item[k].status = "pending" ~>
        item[k].status \in {"completed", "failed"} \/ (crashes > 0 /\ Abandoned(k))

=============================================================================
