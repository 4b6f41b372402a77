---------------------------- MODULE EventStream ----------------------------
(***************************************************************************)
(* The event buses of runs and conversations and the SSE endpoints on top  *)
(* of them, for one run or conversation: emitters take a number and        *)
(* publish, a subscriber reads the history and then its queue, and its     *)
(* client reconnects with the last number it saw.  An event is its         *)
(* sequence number.  The four buses differ in what is atomic, in whether   *)
(* subscribe keeps a cursor and in whether it polls the history.           *)
(***************************************************************************)
EXTENDS Integers, Sequences, FiniteSets

CONSTANTS
    Buses,         \* subset of {"memory_run", "memory_conversation", "postgres_run", "postgres_conversation"}
    Emitters,      \* the driving task and the requests that publish
    Elsewhere,     \* emitters in another process than the subscriber
    QueueSize,     \* events a subscriber's queue holds
    HistoryLimit,  \* events an in-memory bus keeps
    MaxEvents,     \* bound: events
    MaxConnects    \* bound: connections of the client

ASSUME EventAssumption == QueueSize \in Nat \ {0}

VARIABLES
    bus,       \* which bus it is, fixed
    log,       \* the numbers of the published events
    emitter,   \* by emitter: where its _emit is, and its number
    sub,       \* the subscription and what it has not yielded yet
    client,    \* what the client has seen, and its last number
    lost,      \* numbers a full queue or a full history gave up
    foreign,   \* history: numbers another process published
    raced      \* history: numbers a later event of this process overtook

eventVars == <<bus, log, emitter, sub, client, lost, foreign, raced>>

Postgres == bus \in {"postgres_run", "postgres_conversation"}

\* memory_run's backlog cannot overlap its queue; postgres_conversation relies on the
\* endpoint to drop what it sees twice.
KeepsCursor == bus \in {"memory_conversation", "postgres_run"}

\* Mutant: only the in-memory conversation bus polls.
PollsMutant == bus = "memory_conversation"

\* subscribe reads the history again when its queue stays empty.
Polls == bus \in {"memory_conversation", "postgres_run"}

NoSubscription == [pc |-> "off", cursor |-> 0, backlog |-> {}, queue |-> <<>>]

EventInit ==
    /\ bus \in Buses
    /\ log = {}
    /\ emitter = [e \in Emitters |-> [pc |-> "idle", number |-> 0]]
    /\ sub = NoSubscription
    /\ client = [seen |-> {}, last |-> 0, connects |-> 0]
    /\ lost = {}
    /\ foreign = {}
    /\ raced = {}

LastNumber == IF log = {} THEN 0 ELSE CHOOSE n \in log : \A m \in log : m <= n

\* The in-memory buses keep the newest events only.
History == IF Postgres THEN log ELSE {n \in log : n > LastNumber - HistoryLimit}

After(n) == {m \in History : m > n}

-----------------------------------------------------------------------------
(* publish *)

\* The fan-out to a queue: a full one gives up its oldest event.
Queued(n) ==
    IF sub.pc = "off" THEN UNCHANGED <<sub, lost>>
    ELSE LET full == Len(sub.queue) = QueueSize
         IN  /\ sub' = [sub EXCEPT !.queue = Append(IF full THEN Tail(@) ELSE @, n)]
             /\ lost' = IF full THEN lost \cup {Head(sub.queue)} ELSE lost

\* In memory next_sequence and publish do not suspend: _emit is one step.
EmitInMemory(e) ==
    /\ ~Postgres
    /\ e \notin Elsewhere
    /\ LastNumber < MaxEvents
    /\ log' = log \cup {LastNumber + 1}
    /\ Queued(LastNumber + 1)
    /\ UNCHANGED <<bus, emitter, client, foreign, raced>>

\* In PostgreSQL the number is read, ...
NextSequence(e) ==
    /\ Postgres
    /\ emitter[e].pc = "idle"
    /\ LastNumber < MaxEvents
    /\ emitter' = [emitter EXCEPT ![e] = [pc |-> "numbered", number |-> LastNumber + 1]]
    /\ UNCHANGED <<bus, log, sub, client, lost, foreign, raced>>

\* ... inserted unless another event has it by now, which raises out of publish, ...
\* One of this process is on its way to the queue ahead of those that are inserted and
\* not in it yet, and of those of another process that the client has not seen.
Insert(e) ==
    LET n == emitter[e].number
        inserted == {emitter[f].number : f \in {g \in Emitters : emitter[g].pc = "inserted"}}
    IN  /\ emitter[e].pc = "numbered"
        /\ IF n \in log
           THEN /\ emitter' = [emitter EXCEPT ![e] = [pc |-> "idle", number |-> 0]]
                /\ UNCHANGED <<log, foreign, raced>>
           ELSE /\ log' = log \cup {n}
                /\ emitter' = [emitter EXCEPT ![e].pc = "inserted"]
                /\ IF e \in Elsewhere
                   THEN foreign' = foreign \cup {n} /\ UNCHANGED raced
                   ELSE raced' = raced \cup inserted \cup (foreign \ client.seen) /\ UNCHANGED foreign
        /\ UNCHANGED <<bus, sub, client, lost>>

\* ... and then put in the queues of the subscribers in the same process.
FanOut(e) ==
    /\ emitter[e].pc = "inserted"
    /\ emitter' = [emitter EXCEPT ![e] = [pc |-> "idle", number |-> 0]]
    /\ IF e \in Elsewhere THEN UNCHANGED <<sub, lost>> ELSE Queued(emitter[e].number)
    /\ UNCHANGED <<bus, log, client, foreign, raced>>

-----------------------------------------------------------------------------
(* subscribe and the endpoint *)

\* Mutant: the header is not read, a new connection gets what is new from now on.
ResumePointMutant == LastNumber

\* last-event-id: the client connects with the last number it saw.
ResumePoint == client.last

\* The queue is registered before the history is read; memory_run does both at once.
Connect ==
    /\ sub.pc = "off"
    /\ client.connects < MaxConnects
    /\ client' = [client EXCEPT !.connects = @ + 1]
    /\ sub' = [NoSubscription EXCEPT
                  !.pc = IF bus = "memory_run" THEN "yielding" ELSE "reading",
                  !.cursor = ResumePoint,
                  !.backlog = IF bus = "memory_run" THEN After(ResumePoint) ELSE {}]
    /\ lost' = IF bus = "memory_run" THEN lost \cup (log \ History) ELSE lost
    /\ UNCHANGED <<bus, log, emitter, foreign, raced>>

\* history after the cursor, first or when polling; events a bounded history dropped are lost.
ReadHistory ==
    /\ \/ sub.pc = "reading"
       \/ sub.pc = "yielding" /\ Polls /\ sub.backlog = {} /\ sub.queue = <<>>
          /\ After(sub.cursor) # {}
    /\ sub' = [sub EXCEPT !.pc = "yielding", !.backlog = After(sub.cursor)]
    /\ lost' = lost \cup (log \ History)
    /\ UNCHANGED <<bus, log, emitter, client, foreign, raced>>

\* The endpoint sends what is newer than what it sent before.
Sends(n) ==
    client' = IF n <= client.last THEN client
              ELSE [client EXCEPT !.last = n, !.seen = @ \cup {n}]

\* The history is read in the order of its numbers.
YieldBacklog ==
    /\ sub.pc = "yielding"
    /\ \E n \in sub.backlog :
          /\ \A m \in sub.backlog : n <= m
          /\ sub' = [sub EXCEPT !.backlog = @ \ {n}, !.cursor = IF n > @ THEN n ELSE @]
          /\ Sends(n)
    /\ UNCHANGED <<bus, log, emitter, lost, foreign, raced>>

\* With a cursor an event that is not newer is dropped.
YieldQueued ==
    /\ sub.pc = "yielding"
    /\ sub.backlog = {}
    /\ sub.queue # <<>>
    /\ LET n == Head(sub.queue)
           passes == KeepsCursor => n > sub.cursor
       IN  /\ sub' = [sub EXCEPT !.queue = Tail(@), !.cursor = IF KeepsCursor /\ passes THEN n ELSE @]
           /\ IF passes THEN Sends(n) ELSE UNCHANGED client
    /\ UNCHANGED <<bus, log, emitter, lost, foreign, raced>>

\* The connection breaks, at any point.
Disconnect ==
    /\ sub.pc # "off"
    /\ sub' = NoSubscription
    /\ UNCHANGED <<bus, log, emitter, client, lost, foreign, raced>>

Delivers == ReadHistory \/ YieldBacklog \/ YieldQueued

EventNext ==
    \/ \E e \in Emitters : EmitInMemory(e) \/ NextSequence(e) \/ Insert(e) \/ FanOut(e)
    \/ Connect \/ Delivers \/ Disconnect

\* An inserted event is fanned out; a connected subscription goes on to yield and, where
\* it polls, to poll.  Nobody has to emit or to connect.
EventFairness == WF_eventVars(Delivers) /\ WF_eventVars(\E e \in Emitters : FanOut(e))

-----------------------------------------------------------------------------
(* Properties. *)

\* The client misses no event below the last one it saw, over reconnections, unless a full
\* queue or history gave it up or, with PostgreSQL, a later event of this process overtook
\* it on the way to the queue: one of another process, or of another emitter.
SkippedEventsRaced ==
    \A n \in log : n < client.last => n \in client.seen \cup lost \cup raced

\* Every event reaches a client that stays connected, those that another process put
\* into a log that the subscription polls too, unless a full queue or history gave it up
\* or a later event of this process overtook it.
EventsReachSubscribers ==
    \A n \in 1..MaxEvents :
        (sub.pc # "off" /\ n \in log) ~> (sub.pc = "off" \/ n \in client.seen \cup lost \cup raced)

\* What docs/analytical-runtime.md says of both PostgreSQL subscriptions: durable polling
\* makes events of another process visible to a client that stays connected, whatever
\* this process emits.
RemoteEventsVisible ==
    \A n \in 1..MaxEvents :
        (sub.pc # "off" /\ n \in foreign) ~> (sub.pc = "off" \/ n \in client.seen)

=============================================================================
