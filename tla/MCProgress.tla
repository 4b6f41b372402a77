----------------------------- MODULE MCProgress ------------------------------
(* Instance for TLC of what waits for somebody else: a service that stops    *)
(* for its responses, an item for a worker, a subscriber for its events.     *)
EXTENDS ConversationService, EventStream

CONSTANTS Keys, Workers, MaximumAttempts, MaxCrashes

VARIABLES item, worker, crashes, results

Queue == INSTANCE WorkQueue

queueVars == <<item, worker, crashes, results>>

-----------------------------------------------------------------------------
(* The three do not interact: a behaviour exercises one of Subjects.  The    *)
(* others stay in their initial state, where no step they owe is enabled.    *)

CONSTANT Subjects

VARIABLE subject

allVars == <<vars, queueVars, eventVars, subject>>

MCInit ==
    /\ Init /\ Queue!Init /\ EventInit
    /\ subject \in Subjects
    /\ subject # "events" => bus = CHOOSE b \in Buses : TRUE

MCNext ==
    /\ UNCHANGED subject
    /\ \/ subject = "conversation" /\ Next /\ UNCHANGED <<queueVars, eventVars>>
       \/ subject = "queue" /\ Queue!Next /\ UNCHANGED <<vars, eventVars>>
       \/ subject = "events" /\ EventNext /\ UNCHANGED <<vars, queueVars>>

MCSpec ==
    /\ MCInit /\ [][MCNext]_allVars
    /\ Fairness /\ Queue!Fairness /\ EventFairness

\* Every enqueued item is completed or failed in the end, although leases expire
\* and workers die, unless a worker died on the item's last attempt.
ItemsSettle == Queue!ItemsSettle

=============================================================================
