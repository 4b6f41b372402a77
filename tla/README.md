# Traccia Runtime: TLA+ models and proofs

This directory is a verification development for the Traccia Runtime (`src/src/traccia_runtime`):
TLA+ modules translated from the code, TLC configurations that model-check them on small
instances, and TLAPS proofs that hold for every value of the constants.  `PROJECT.json` lists
the runs, the source lines behind every definition, the hazards the properties are for, the
mutants that show each property can fail, and the theorems.

## The system

Traccia Runtime executes agent runs.  A client starts a run; an asyncio task plans, calls a
model, executes the tools the model asks for, verifies the answer and completes the run,
writing a checkpoint of the run after every step.  A run may pause for a clarification or
for the approval of a tool call, and is resumed by another request.  The process may be shut
down or die; at the next start it recovers the runs that were under way.

| component | state it keeps | operations | interacts with |
|---|---|---|---|
| agent runtime (`runtime/`) | the task table, the draining flags, the copy of the run each task works on | `start`, `cancel`, `resume`, `recover`, `shutdown`, the steps of `_execute` | every other one |
| run state machine (`runtime/state_machine.py`) | none: a table | `validate_transition`, `_recovery_status` | every writer of a run |
| run store (`persistence/`) | one row per run, with a version | `create`, `get`, `save` if the version is unchanged, `list_active` | runtime |
| tool executor (`tools/executor.py`) | a semaphore per tool | `execute` | ledger, cache, handlers |
| tool-execution ledger (`persistence/`) | one record per `run:call` | `begin`, `complete`, `fail` | executor |
| approvals (`approvals/`) | one record per request | `create`, `decide` | runtime |
| planners (`planning/`) | none | `plan` | runtime |
| event buses (`events/`) | the event log, subscriber queues | `next_sequence`, `publish`, `subscribe` | runtime, API |
| work queue and workers (`distributed/`) | one row per work item with a lease | `enqueue`, `claim`, `renew`, `complete`, `fail`, `run_once` | application handlers |
| conversations (`conversations/`) | conversations, messages, a task per conversation | `submit`, `cancel`, `update`, `recover`, `shutdown` | runtime, event bus |
| analytical graphs (`analytics/`) | node results and graph checkpoints | `execute`, `resume` | methods, governance, work queue |
| cache (`cache/`) | entries, loads in flight | `get_or_set_json`, `invalidate_tags` | runtime, executor, retrieval |
| model routing (`models/`) | provider health, circuits, request windows | `generate`, `stream` | runtime |
| query governance (`governance/`) | a semaphore | `evaluate`, `execute` | analytics, cache |
| policies (`policies/`) | the registered policies | `register`, `evaluate` | runtime, executor |
| semantic layer (`semantics/`) | the catalog | `validate_query`, `validate_generated_sql`, `compile` | analytics, talk-to-data |
| documents (`security/documents.py`) | none | extraction, sanitising, redaction | hiring |
| talk-to-data example (`examples/talk_to_data_multi_agent`) | pending clarifications in message metadata | `handle`, `run_turn`, `run`, `execute` | conversations, runtime, semantic layer, governance |
| hiring example (`examples/hiring_agent`) | applications, assessments, decisions | upload, `evaluate`, follow-up, decide | conversations, runtime, documents |
| context, verification, retrieval | definitions | pure decisions and text | runtime |

What is hard here: a run has up to five kinds of writers (its task, the task's exception
handlers, a cancelling request, a resuming request, recovery) which share nothing but a version
number; cancellation reaches a task at any await, also while a statement is on its way to
PostgreSQL, and the handlers of the cancellation await again; deadlines fire at any await;
the process may stop between any two statements; and tools have effects that must not be
repeated.  What makes each component correct:

- runtime: the stored status only moves along the table, a terminal run stays as it ended,
  is announced at most once and as what it is, no work starts after it, every task ends;
- executor and ledger: effects within the retry policy across restarts, no checkpoint
  claims a result the ledger does not have;
- approvals: a call that needs one runs after a decision on it, as that decision says;
- work queue: a worker that lost its lease cannot deliver, attempts are bounded, items settle;
- conversations: one response at a time, user edits survive, shutdown ends, what a dead
  process left unfinished is settled by the next one and nothing else is touched;
- graphs: a node runs after its dependencies, and a stale driver takes back no finished node;
- cache: no stale value after invalidation, rows stay in their scope, nobody waits in vain;
- router: a failing provider is left alone once its circuit opens;
- events: a connected or reconnecting subscriber misses nothing but what races explain;
- policies: what they redact or refuse crosses no boundary they are asked about, whichever way
  it came in;
- semantic layer: governed filters stay, freshness is enforced, parameters match, every model read is joined;
- talk-to-data: only guarded, governed and bounded SQL runs, questions are limited, turns end;
- hiring: conclusions pass every gate, reviewers see neither hidden text nor what is redacted.

## Modules

| module | models |
|---|---|
| `RunStates` | the statuses, `ALLOWED_TRANSITIONS`, `validate_transition`, `_recovery_status` |
| `RunStatusMachine` | abstract specification: what may happen to the stored status and version of a run |
| `AgentRun` | the state of one run: rows, task, requests, process; the stores' operations |
| `ToolExecutor` | `ToolExecutor.execute`, step by step |
| `AgentDriver` | the task: `_drive`, `_drive_observed`, `_execute` and what it dispatches to, interruptions |
| `AgentRuntime` | `start`, `cancel`, `resume`, `recover`, `shutdown`, crash and restart; the properties |
| `MCAgentRuntime` | the TLC instance (symmetry of requests) |
| `AgentRuntimeProofs` | type correctness, refinement of `RunStatusMachine`, finality of terminal runs |
| `RunEndProofs` | one terminal event, of the stored status; no work after the end |
| `RunRecordProofs` | completed calls are in the ledger, provider calls are bounded |
| `ToolEffectsProofs` | the bound on side effects, the decision gate of approvals |
| `WorkQueue` | the lease queue and `DistributedWorker.run_once` |
| `ConversationService` | `submit`, `update`, `cancel`, `recover`, `shutdown` and the response task of one conversation |
| `MCConversationService` | the TLC instance (symmetry of turns and editors) |
| `ConversationProofs` | type correctness, one response at a time, saved edits stay, recovery is complete, end statuses stay |
| `AnalyticalGraph` | `AnalyticalGraphEngine.run` and `resume`, waves, attempts, checkpoints of two drivers |
| `QueryGovernance` | `QueryGovernanceEngine.evaluate` |
| `CacheService` | `get_or_set_json`, both stores, invalidation, and `GovernedQueryExecutor` as their user |
| `ModelRouter` | candidates, fallback, circuits, rate limits, streams |
| `EventStream` | the four event buses, subscriptions and reconnecting clients |
| `MCServices` | the TLC instance of the queue and the five modules above, for safety |
| `MCProgress` | the TLC instance of conversations, queue and events with their fairness |
| `ServiceProofs` | queue, graphs, cache, router and events: every safety property of theirs |
| `SequenceFilters` | a list comprehension with a condition, as a fold |
| `SemanticLayer` | catalog, resolution, validation of selections, queries and generated SQL |
| `SemanticCompiler` | the one-model and the production compiler, over `SemanticLayer` |
| `SqlGuard` | `validate_read_only_sql`, `validate_parameters`, the ranking limit of a request |
| `AnalyticsTurn` | the talk-to-data conversation, composed of `SemanticLayer` and `SqlGuard` |
| `TalkToDataCli` | the two-agent workflow with its clarification loop, over `SqlGuard` |
| `Documents` | extraction, hidden text, injection findings, sanitising, redaction |
| `HiringPipeline` | uploads, reviews, conclusions, follow-ups and decisions, over `Documents` |
| `PolicyBoundaries` | the policies, `CompositePolicyEngine` and the boundaries of a run |
| `MCApplications` | the TLC instance of the applications, from `SemanticLayer` on |
| `ApplicationProofs` | SQL of both talk-to-data workflows, clarifications, hiring conclusions |
| `DataProofs` | what the folds compute: policies over a text, sanitised documents, compiled queries |

### The runtime model

The model is the durable single-node deployment of `docs/operations.md`: PostgreSQL stores,
one process at a time, one run.  Runs share no state the properties speak of.

A task is represented by the await it is suspended at (`pc`); a step is the effect of that
await and the code up to the next one.  Awaits that no other actor can observe (policy checks,
context building, progress events, audit rows, spans) are merged into the next one that has an
effect; they still count as places where an exception, a timeout or a cancellation may occur,
since an interruption at the merged await is an interruption before its effect.

- `copy` is the `RunState` object of the task, `req[r].copy` the one of a request.  A save
  succeeds only if the version of the copy is the stored one (`VersionMatches`), otherwise it
  raises `ConflictError`.
- `cancelReq` models `task.cancel()`: "asked" until `CancelledError` is thrown into the task.
  While it is asked, the statement the task waits for may still take effect on the server
  (`Lands`); the cancellation is then "due" and is the next thing the task sees.
- `Interrupted` sends an exception where the code's `try` blocks send it: inside the
  executor's blocks the ledger is marked first (`t_fail`), inside `_execute` the handlers of
  `_drive_observed` run (`h_read`, `h_save`, `h_emit`), and an exception in a handler ends
  the task.
- `cause` remembers which handler it is; a cancellation while `shutdown` is cancelling rewinds
  the run to its recovery checkpoint without validating the transition.
- `"spin"` is the loop of `_execute` reached with a status no branch handles: it never awaits
  again.  No run reaches it; a recovery that does not rewind does (a mutant shows it).
- Requests arrive when the process is up and `start` has returned.  The server finishes the
  requests in flight before it closes the container, and `recover` runs before requests are
  served (`astart`): both are how uvicorn's lifespan is used.
- History variables: `invoked`, `modelCalls` and `issued` count what really happened outside
  the process; no action reads the first two.

Data abstractions: tool calls have increasing ids; every charged completion costs one token
and a cached one none; `output` is whether there is text; the arguments of a call matter only
through whether a decision modified them; messages, citations, memory, artifacts and audit
rows are left out.  `Profiles` is the number of models of the agent, the default one and its
fallbacks: one attempt calls up to that many candidates (`CallModel`, `CallFallback`), which
`tried` counts.  A resuming client decides with any member of `ApprovalStatus`; `taken` in an
approval's record is history, the decisions that were stored on it.  `Faults`, `Deadlines`,
`RequestKinds` and `MaxRestarts` say which inputs the environment gives in an instance.

### The work queue model

The in-memory and the PostgreSQL queue do the same under a lock or in one statement, so every
operation is one action.  `FOR UPDATE SKIP LOCKED` passes over rows another statement holds,
so a claim takes any eligible row.  The clock is the Boolean `expired`.  Worker ids are
distinct and a worker runs `run_once` once at a time.  A repeated enqueue of a key changes
nothing.  The worker passes `retry=True` to every `fail`.  `results` records which claim's
result was accepted.

### The conversation model

One conversation in one process at a time, over the PostgreSQL stores.  A turn is one call of
`submit` with its assistant message, its response task and its run; an editor is one call of
`update`.  As in the runtime model, a task is the await it is suspended at.

- `submit[t].snap` and `edit[e].snap` are the copies that were read before the lock or the
  save.  `save` succeeds only over the version of the copy.  Whole records are written.
- The awaits in `InTry` are inside the `try` of `_respond_observed`; an exception or a
  cancellation there leads to the handler that stores the message as failed or cancelled, and
  ends the task with the message as it is anywhere else (`Unwind`).
- Once `cancel()` was called the next step of the task raises (`cancelReq`), with one
  exception: a task that awaits the task of its run passes the cancellation on.  The run's
  handler saves the run and *returns*, and the response continues with a result without error.
  A second cancellation interrupts that handler and comes back as the exception.
- The runtime is seen through `run[t]` only: stored, running, stopping, returned (with or
  without output), failed.  `AgentRuntime` models what happens inside.
- `Container.aclose` shuts the conversations down first, then the runtime, which refuses new
  runs from then on and rewinds the active ones.  `astart` resumes the stored runs, then fails
  the pending messages, then requests are served.  Submissions in flight may overlap the
  shutdown, which `_accepting` is checked for, once, at the start of `submit`.
- History variables: `edits`, `born` and `interrupted`.

### The services

`MCServices`, `MCProgress` and `MCApplications` gather components that share no state: `subject` says which of
them a behaviour exercises, and the variables of the others stay as they are, so that the state
space is the sum of theirs and not the product.

- `AnalyticalGraph`.  A driver is one call of `run` or `resume`, in one process or in several;
  `driver[d]` is its copy, saved whole and under its version.  A wave's nodes interleave; the
  graph's timeout, a node's own (`TimedOut`), a cancellation, a raising save (`faults`) and a crash
  interrupt it anywhere.  A save that is interrupted or raises leaves the version of the copy counted
  up; `ahead` remembers it.
- `CacheService`.  An entry is named after the caller that loaded it; `entries` is a set with at
  most one record per key, and `recency` is the order of the memory store's `OrderedDict`.  `flight` is `_inflight`; a
  caller is the await it is suspended at.  The memory store changes under a lock, the Redis store
  in the statements the client sends: `invalidation` is one that has read its index and not yet
  deleted.  `epoch` and `raced` are history: they say what an invalidation should have removed and
  what was stored in the middle of one.
- `ModelRouter`.  A candidate is a model profile, health belongs to its provider (`ProviderOf`), and
  several profiles may share one.  A call decides its candidates once; meanwhile others open and
  close circuits.  Scores only order the candidates, so any order may come out.  `burst` counts a
  provider's failures since its last success.
- `EventStream`.  An event is its number.  Taking a number, inserting and fanning out are three
  steps where the bus does not hold a lock over them; `Elsewhere` are emitters of another process.
  `backlog` is what a subscription read from the log, a set that it yields in ascending order.
  `lost`, `raced` and `foreign` are history: what a bounded queue or history gave up, what a later
  event of this process overtook, and what another process inserted.

### The applications

Agents and users are external: a reply is any member of a small set, which holds replies that
every check must refuse as well as ones it must accept.

- `AnalyticsTurn`.  A statement is the record of what the guard's patterns find in it (tables,
  CTEs, placeholders, predicates, equalities, order, limit) and of the tables it really reads
  (`reads`), which include items of a FROM list that the pattern passes over.  What a ranking is and
  how many rows it asks for is read from the router's paraphrase of the question (`Requests`, any
  member) and from the purpose of a task, as in the code.  Calls the code gathers are tasks that
  reply in any order; one that fails ends the turn.  `executed` is what reached the database.
- `SemanticCompiler`.  A compiled statement is its tables, its clauses in order and its parameters.
  The code renders clauses while it appends parameters; the model lists the predicates first
  (`ProductionPredicates`, in the code's order) and folds `AddClause` over them.  Every query of the
  instance is compiled once; the model has one step per behaviour, and its properties compare the
  result with what the catalog demands.  `GovernedFiltersHold` allows other clauses on a governed
  field only where they narrow it (`Narrowing`: a period, a snapshot, freshness, validity).
- `TalkToDataCli`.  `run` and `run_turn` differ in who holds the transcript, in what an unsupported
  request ends with and in whether an empty answer is refused.
- `HiringPipeline` and `Documents`.  A line of text has a kind, the patterns it matches, a size, a
  tone, an opacity and a place; a pattern may match on one line or over two with empty ones between.
  The kind says what stands in the line: the name as it was given, the name in other forms, contact
  data.  Redaction replaces what it has the exact string or the pattern of, and no other form.
- `PolicyBoundaries`.  A text is the set of marks a policy can find in it.  A run receives, builds
  its context from memory, documents and transcript, asks the user, calls models, streaming or not,
  and tools, and completes; the session's memory feeds the next run.  `crossed` is what left in the
  last step, each with its way: to a provider, to a tool, and to a user in the stored answer, in
  streamed deltas or in the arguments an approval shows.

## Runs

| run | instance | shows |
|---|---|---|
| `run_races` | 1 call that needs approval, 2 requests (symmetric) with any decision, faults, deadline, shutdown, no restart | the type invariant; the stored run implements `RunStatusMachine`; at most one terminal event, matching the status; a decision before invocation, and its arguments; nothing starts after the end |
| `run_replay` | 2 calls with side effects, one non-idempotent, 2 attempts each, 2 models, 2 restarts, faults | side effects bounded, completed calls recorded, provider calls bounded with fallbacks, across recoveries |
| `run_restart` | a planner that may choose any action, 1 call that needs approval, 1 request, deadline, 1 restart, fairness | terminal events across crash, shutdown and recovery; tasks end after the deadline; shutdown completes |
| `conversations` | 2 turns, 1 editor, 1 fault, 1 restart (symmetric) | one response at a time, edits kept, recovery complete, ended messages final |
| `progress` | a conversation of 2 turns whose runs need never settle; 2 items, 2 workers, 3 attempts, 2 crashes; 3 emitters, one elsewhere, 3 events, 2 connections, on every bus but the conversations' in PostgreSQL; fairness | shutdown completes, a cancelled response ends; items settle; events reach subscribers |
| `services` | queue: 2 items, 2 workers, 3 attempts, 2 crashes; graph: 3 nodes, one of which needs the others, 2 drivers, 1 raising save; cache: 4 callers, 3 scopes, 2 backends, 1 entry, 1 invalidation; router: 2 providers with 4 profiles, 2 clients, 4 requests; events: as in `progress` | fencing and attempts; stored graph consistent, completed nodes kept by every driver that is not ahead; invalidation complete, rows in scope, waiters have an owner; failure bursts bounded; nothing skipped but by races |
| `applications` | 3 turns, 4 paraphrases, 1 clarification and 1 repair of each kind; 2 clarifications on the command line; a catalog of 3 models and 2560 queries; 16 uploads, 1 evaluation with 1 retry; 2 registrations, 2 agents, 2 runs of 2 model calls; fairness | only governed and bounded SQL runs, clarifications bounded, SQL follows a ready intent, turns end; governed filters, freshness, parameters and joins of compiled SQL; conclusions pass every gate, reviewers see clean text; nothing crosses unredacted where the engine is asked |
| `timeout_stranded` | no calls, deadline | violation: a timeout can leave a run that is not terminal |
| `resume_stranded` | 1 call that needs approval, 1 request | violation: an early resume strands the run |
| `interrupted_response` | 1 turn, shutdown, 1 restart | violation: a response interrupted by a graceful restart is not marked failed |
| `undecided_approval` | 1 call that needs approval, 1 request | violation: a decision that is none opens the call |
| `remote_events` | both PostgreSQL buses, 1 connection, fairness | violation: an event of another process never arrives |

The bounds.  Two requests suffice for every pairwise race of requests with the task between
them; a third request meets the same two version checks.  Two calls show one being replayed
while the other is open, two restarts an interruption of a recovery.  `MaxSteps` is large
enough for a model step, a tool step, a second model step and completion in each run, and
small enough that the limit is reached as well.  In the queue, three attempts let an item
be taken over twice, so that the first owner is stale with respect to two successors.
In a conversation, two turns are a response and a rival submission or successor; the races of
three (a callback of the first task after the second is registered) are covered by the proof.
`RecoveryLimit` is the number of turns: the code's limit of 1000 leaves older messages pending
beyond it.  A third driver of a graph meets the version check the second one met.  Each of
the two providers has two profiles, so that one call fails at a provider more than once.  Three callers of
one tenant and one of another make an owner, a waiter and a stranger; one cache entry makes every
store an eviction.  A queue of one event and a history of two are full at once.  Three turns are a
question, its clarification with a failure, and the answer.  The texts that cross a boundary need
two marks, as policies remove one each, and a second run, as the memory brings back the first.
`MaxTurns`, `MaxDrives`, `MaxSaveFaults`, `MaxQueries`, `MaxInvalidations`, `MaxRequests`,
`MaxEvents`, `MaxConnects`, `MaxRetries`, `MaxDecisions`, `MaxModelSteps` and `MaxRuns` are bounds of
the models; the other constants are settings of the code.  `CHECK_DEADLOCK FALSE`: a finished run in
a stopped process, a queue whose items are all settled, a service that is down, a bound that is
reached are meant to stop.

Fairness.  `RuntimeStep` is weakly fair: a ready task is scheduled by the event loop and a
store answers or raises.  `Interrupt` is weakly fair: a cancellation or an expired timeout is
delivered.  `GraceExpires` and `ShutdownEnds` follow timers and task ends.  `ExternalStep`
(the answer of a provider, the return of a handler) is not fair: nothing guarantees it, and the
liveness properties hold without it, as the deadline and the shutdown are for.  A handler that
blocks the event loop is outside the model.  In the queue, workers poll and their handlers end
(weak fairness of `RunOnce`) and time passes; crashes and renewals are not fair.  In a
conversation the steps of requests and tasks, the delivery of a cancellation, the end of a run
that was told to stop and the steps of shutdown are weakly fair; that a run settles by itself is
not assumed.  A subscription that is connected yields what it has and polls where its code does,
and an inserted event is fanned out; nothing makes an emitter emit or a client connect.  In the
talk-to-data conversation an agent's run or a statement ends (the deadlines of runs and the
statement timeout see to it), successfully or not.

## What the violations show

1. `TIMED_OUT` is missing from the table for six statuses in which the deadline can fire; the
   timeout handler's transition then raises and the run stays as it was, with no task.
2. `resume` saves the run before it can know that a task may be scheduled; the pausing task is
   still alive while it publishes the pause, which is what tells the client it may resume.
3. A graceful restart cancels a response, which is then stored as cancelled or, when the
   cancellation found it waiting for its run, as completed without text; recovery looks only for
   messages without an end status, so neither is marked failed and retryable.
4. `resume` parses the decision into an enumeration with two more members than the three it names:
   with `pending` or `expired` the call is approved and runs.  `DecisionGate` says what remains true
   whatever clients send.
5. Subscriptions to runs in PostgreSQL poll from a cursor that a local event has moved on: what
   another process inserted before that event is never read.  Subscriptions to conversations read
   the log once and then only their own queue.

The entries under `findings` quote the documents, tests and messages these contradict.

### Notes on the code

Behaviour met while modelling that no document contradicts, or that is excepted by name in a
property because a document says more than the code does:

- A graph save counts the version of its copy up before the statement and takes it back only after
  a conflict (`analytics/stores.py:61`).  After an interruption or another exception in between the
  copy is a version ahead, its next checkpoint may be accepted over the row that another driver
  wrote, and a completed node is taken back; `docs/analytical-runtime.md:91-92` says that another
  worker resumes only incomplete nodes.  `CompletedNodesKept` excepts a driver that is ahead.  A
  graceful cancellation marks running nodes failed, so that a resumed graph fails, while a crash
  leaves them running and resumable.
- The SQL guard finds one table after each FROM or JOIN (`talk_to_data_multi_agent/application/workflow.py:16`);
  further items of a list pass it, and governance is asked about documented tables only.  The
  example's README (line 108) says that undocumented tables are rejected.  `OnlyGovernedSqlRuns`
  speaks of the tables the pattern finds, and of the documented ones among those really read.
- The deltas of a streamed answer are published (`runtime/runtime.py:643`) before `after_model` is
  asked about the answer, and of the engine's answer at `plan_tool` the redacted arguments are
  dropped: an approval shows the original ones, redacted by key name (`runtime/runtime.py:768`).
  `policies/engine.py` (lines 86 and 250) promises checks before output reaches a user and
  identifiers cross a boundary.  The model has both crossings; `NothingCrossesUnredacted` claims
  nothing of them.
- `redact_pii` replaces exact strings (`security/documents.py:163`): a name with other blanks or over
  the end of a line stays, against "identity-free" in the README of the hiring example (line 32).
  `ReviewersSeeCleanText` says which forms are gone.
- The production compiler takes the right-hand model of every join (`production_compiler.py:187`),
  although the path it computed may enter the join from there: with a join declared towards the
  facts the base is joined with itself and the other model is missing.  `EveryModelJoined` is about
  catalogs whose joins lead outward.
- A clarification joins the transcript without being asked about at the input boundary; it is
  checked with the context and the request.
- In PostgreSQL two emitters can take one number; the second insert violates a constraint and
  raises out of `publish`.  A number that is inserted late is behind the cursor of a subscription.
- With Redis an entry stored between the read of a tag's index and the deletion of the index
  survives (`raced`).  The cancellation of an owner is raised in its waiters.
- At `plan_tool` the runtime looks at a required approval only; a denial there is found again at
  `before_tool`, where a transformation is a refusal too.
- `TalkToDataWorkflow` turns an unsupported request into a question when it names an undocumented
  table and `pnr_flight` is documented; `run_turn` accepts an empty clarification.
- In `AnalyticsWorkflow` the status of a repaired intent is not looked at, an empty `input_task_id`
  passes, a result without rows fails the turn, and a failed gather leaves its siblings running.
- The production compiler keeps one filter per dimension: the second of a range is dropped.
- The hiring pipeline runs an evaluation again when the announcement after the save failed, which
  stores a second assessment.

## Proofs

The proofs hold for every value of the constants that satisfies the named assumptions below; TLC
evaluates each of them in the runs of the modules that extend its module.  None bounds a set or a
counter that the code does not bound.

| assumption | says | because |
|---|---|---|
| `CallsAssumption`, `BoundsAssumption`, `EnvironmentAssumption` (`AgentRun`) | sets of calls are sets of calls, limits are naturals (positive where the settings are), planners and kinds of requests are those of the code | the settings' field constraints, the enumerations |
| `QueueAssumption` (`WorkQueue`) | attempts are positive, `None` is no worker and no key | field constraints |
| `ConversationAssumption` (`ConversationService`) | limits are naturals, `None` is no turn | the limit of `recover` is 1000; the rest are names and bounds of the model |
| `DagAssumption` (`AnalyticalGraph`) | the graph is a valid DAG | the validator of `AnalyticalGraph` refuses any other |
| `NobodyAssumption`, `SourcesAssumption` (`CacheService`) | `Nobody` is no caller and no tag; tags are the sources of requests | the cache tags an entry with its request's sources |
| `RouterAssumption` (`ModelRouter`) | the threshold is positive, profiles and clients are finitely many, a profile has a provider | settings; a cardinality needs a finite set |
| `EventAssumption` (`EventStream`) | queues hold at least one event | the code's queues hold 1000; an `asyncio.Queue` of size 0 would be unbounded |
| `CliAssumption`, `AssessmentAssumption` (`TalkToDataCli`) | 0 to 5 clarifications; a reply has a status and tables | argument check, `IntentAssessment` |
| `TurnAssumption` (`AnalyticsTurn`) | the limit is a natural, statements have a limit, a plan has at most 3 queries, `Nothing` is no pending state | `Field(max_length=3)` of the plan |
| `LayerAssumption`, `CatalogAssumption` (`SemanticLayer`) | the catalog is one that loads (`ValidLayer`), is finite, and its metrics and dimensions belong to models and have their own names as aliases | the validators and `_index` refuse any other |
| `QueryAssumption` (`SemanticCompiler`) | filters have operators of the enumeration and lists of values | `MetricFilter`, `MetricQuery` |
| `UploadAssumption` (`HiringPipeline`) | a document is a list of lines with a kind, a size, a tone, an opacity and a place | how the extractors return text |
| `RegistrationAssumption` (`PolicyBoundaries`) | a registration is a list of policies | `register` keeps a list |
| `RankingAssumption` (`SqlGuard`) | the default ranking is within the maximum, `NoLimit` is no number | the two constants of the code |

Two theorems have a hypothesis of their own.  `RecoveryFailsEverything` assumes that the turns do not outnumber
`RecoveryLimit`: beyond it the code leaves messages pending.  `OutwardJoinsReachEveryModel` assumes
`OutwardJoins`: the joins of the catalog lead away from the facts, as in a star or a snowflake.
`MCApplications` asserts that the catalog of its run satisfies it; where one does not, the code goes
wrong (see the notes on the code).

The runtime:

- `TypeCorrect` and `StatusRefines`.  The inductive invariant is `IInv`: the type invariant is
  not enough, since a save is validated against the status in a *copy*.  `Coherent` says that a
  copy with the stored version has the stored status, for the copy of the task and of every
  request; with it, a save that passes the version check was validated against the stored
  status, and every step of the runtime is a step of `RunStatusMachine` or leaves status and
  version alone.  `HandlerGoal` carries the target an exception handler has validated over its
  await; `PauseResolves` says that a pause names an existing approval (needed for the type of
  the decided record).  The proof has one lemma per action or family of actions.
- `TerminalIsFinal` follows from the refinement: no action of `RunStatusMachine` leaves a
  terminal status.
- `TerminalEventAgrees`, with `EndInv` over `LifeInv`.  The event is published in a step after the
  save that ends the run, and the task, requests and recovery all try.  `EndInv` is a token
  argument: whoever saved the terminal status is the one actor that is about to publish, what it is
  about to publish is the stored status, and nothing was published before.  `LifeInv` is needed for
  recovery, which publishes while no request and no task exists.
- `TerminalStopsWork`, with `WorkInv`.  Between the checkpoint that announces work and the work
  itself the run may be ended by a request.  `WorkInv` says that then the task was cancelled: a
  request that read the version the task works on cancels it before it saves, and a resume reads
  paused runs only.
- `CompletedCallsRecorded`, with `RecordedInv`: no copy anywhere lists a call whose ledger row can
  still change, so it does not matter which copy is saved last, nor when the process dies.
- `ModelCallsLimited`, with `CallsInv`: a step is counted in the row before its first provider
  call, a copy with the stored version has the stored count, and within a step the attempts and the
  candidates tried in the present one count the calls.  A crash loses attempts of a step, never the
  step.
- `DecisionGateHolds`, with `GrantInv`: for every copy of the run (stored, of the task, of each
  request), what it calls approved or modified was decided so (`Sound`), and only a paused or ended
  run names a pending approval.  `Later` says that decisions are never taken back, which makes what is
  true of an old copy stay true.  No decision is excluded: `pending` leaves the row open for another
  decision, so uniqueness (`TakenOnce`) is claimed for documented decisions only.
- `EffectsBounded`.  `SideEffectBounded` is strengthened to `EffectsInv`: the ledger record of
  a call with side effects never becomes `failed`, a call without a record was never invoked,
  and while the task is inside the attempts the attempt index counts the invocations.  Hence
  a call is reserved at most once and invoked within one reservation.

The queue and the conversations:

- `LeasesFence` and `AttemptsLimited`.  `IInv` of `WorkQueue` says that an execution that owns its item's lease is
  the latest claim of it, for every worker, and that no result is kept before completion.
  `RowStep` proves it for a step that writes one row; each action is an instance.
- `OneResponse` and `EditsStay`, with `IInv` of `ConversationProofs`.  `LockInv`: one submit at
  a time is between lock and release, and no response runs meanwhile, so the task it creates is
  the only one.  `CopiesInv`: a copy with the stored version is the stored record, so a save
  that passes the version check changes only the field it means to; `TitlingInv`: the automatic
  title is only for a copy with the default title, which a record a user titled is not.
  `FrameKeeps` covers every step that writes no record and brings no task to life.

- `RecoveryFailsEverything` and `EndStatusStays`, with `TurnInv` and `RecoveryInv`.  A message is
  changed by its submit, its task or recovery: while the process serves, only by those of its own
  process, and while it starts, only if it is on the list that recovery read.  That this list is
  complete is where the limit is needed.

The services:

- `RowIsConsistent` and `CompletedNodesStay`.  `GraphInv` states consistency for the copy of every
  driver as well as for the row, with what each of its node tasks implies (`TaskAgrees`), since a
  save writes the copy whole.  `FenceInv` says that a copy a save would accept knows every completed
  node, unless it is ahead, which the property excepts.
- `WaitersServed`, with `OwnerInv`: a flight and the caller that works on its key determine each
  other, whoever fails or is cancelled; so a waiter's flight has a worker.
- `RowsInScope`, with `ScopeInv`: entries and answers come from a caller with the same key, and the
  key contains query, scope and authorization.
- `InvalidationsComplete`, with `IndexInv`: the index lists every entry under each of its tags, and
  an invalidation between its read and its deletion holds the entry's key, except for entries stored
  in the middle of one (`raced`).
- `BurstsBounded`, with `RouterInv`.  The bound is inductive per state of a circuit (`CircuitInv`):
  while one is open, the failures so far and the calls that were routed before it opened add up to
  the bound, so a failure moves a candidate from one to the other.  What is counted are pairs of a
  client and a profile of the provider (`Slots`); a call has no candidate twice (`CallInv`), so each
  fails there once.
- `SkipsAreExcused`, with `StreamInv`.  `OrderInv` is about events on their way: before an event of
  the backlog or of the queue comes every smaller one the client has not seen, unless it is excused,
  and every newer one is in one of the two, excused, about to be fanned out, or of another process
  and still to be polled.  `EmitterInv` says that the log has no gap and that what a local event about
  to be fanned out overtakes has raced.

The applications:

- `SqlNeedsReadyIntent`, with `CliInv`: questions and answers alternate, and an assessment that is
  ready after normalisation names documented tables only.
- `OnlyGovernedSql` and `RankingsLimited`, with `SqlInv`: a statement that a task keeps was checked
  against the query *of the plan* and the paraphrase *the turn still has*, over repairs and replies in
  any order.  Of the tables it really reads the executor's search for names covers the documented
  ones; about others there is nothing to prove (see the notes on the code).
- `ClarificationsLimited`, with `BaseInv` and `ChainInv`.  The count is in the metadata of messages
  and survives failed turns only because the pending state is searched past them.  Along a chain of
  clarifications and failures the counts grow strictly and stay below the limit: they map the
  questions of a chain injectively into `0..MaxClarifications - 1`.
- `ConclusionsAreGated`, with `HiringInv`: what an evaluation holds when it stores an assessment are
  the reports its conclusion was computed from, and each of them passed its gate.

The data of the applications (`DataProofs`).  These properties are about folds over sequences of any
length.  The library's induction theorems cannot be instantiated by the provers, so the module
derives what it needs: `SetInduction` (a set of naturals closed under successor is everything) from
the pigeonhole principle for finite sets, `FoldExists` (the equation that a fold chooses a solution
of has one) from it, and, for each fold of the models, a lemma that gives its values after 0, 1, 2,
... elements (`KeepSteps`, `WhereSteps`, `FirstSteps`, `JoinSteps`).  What one step preserves is then
true of the result.

- `PoliciesGuardEveryCrossing`, with `Promises`: a decision that still allows a text carries it
  without anything that the policies asked so far remove or refuse, and each policy adds its own part
  to that promise without taking back an earlier one's (`AskPromises`), whatever the registration's
  length (`EngineKeepsPromises`).  With that the property is inductive: `PolicyInv` adds only that the
  agent is a registration with a selection.
- `ReviewersReadClean`, over `HiringInv`: every finding is high or critical, so a document that is not
  quarantined has none.  Then no line of it is hidden and sanitising leaves nothing out
  (`KeepKeeps`), and redaction, which changes only lines whose kind it replaces, makes no new match on one line
  or over two (`RedactedLines`).  `UploadInv` carries this from the upload to every later state.
- `ParametersAreNumbered`, with `WhereEnforces`: after i predicates there are i clauses, the
  placeholders of each point at its values, and every parameter so far has one.  Appending a clause
  shifts no earlier placeholder (`AddClauseEnforces`).
- `DefaultsAreEnforced`.  `Governing` is what both compilers' lists of filters have in common: a
  default filter is in the list, it is the only one on its field, and the required dimensions have
  one.  For the production path that is `FirstHolds` (a filter stays if none on its dimension
  precedes it) and that defaults come first; it needs the catalog's checks, for aliases that stand
  for two dimensions would make a default the later duplicate of a user's filter.
- `OutwardJoinsReachEveryModel`, with `JoinInv`: what a path has reached is the base and the right
  ends of its joins, each reached once and from its left end.  So no join is entered from the right,
  and after as many joins as there are targets all are reached.

Every safety property that a run checks is stated by a theorem.  Only model-checked, because
fairness is out of the prover's reach: `TaskEndsAfterDeadline`, `ShutdownCompletes`, `ItemsSettle`,
`ServiceStops`, `CancelEndsResponse`, `EventsReachSubscribers` and `TurnsEnd`.  The five violations
are TLC's, too.

## Not modelled, and the plan

`PROJECT.json` lists every component with its status.  Not modelled:

- wire formats of providers and vector stores, retrieval, telemetry, configuration, plugins,
  framework adapters, presentation: I/O, parsing and formatting without state that others race for;
- methods, model services, evaluation and the analytical handlers: sequential lookups and numeric
  computations, whose outcomes are inputs of the models;
- the token budget of context building, ranking of names in the semantic planner, statistics of the
  analytical tools: arithmetic on texts and samples;
- the Redis run store: a second backend of the contract `AgentRun` models.

What is left of the plan:

1. Properties for the hazards without one: a crash between a stored decision and the end of its
   pause, a terminal checkpoint whose event is never published, a memory appended twice, an answer
   whose announcement is interrupted.
