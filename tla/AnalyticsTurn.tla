---------------------------- MODULE AnalyticsTurn ----------------------------
(***************************************************************************)
(* The talk-to-data conversation: TalkToDataConversationHandler.handle and *)
(* the bounded pipeline AnalyticsWorkflow.run_turn it drives, from the     *)
(* router's intent through plan, generated SQL, governed execution and     *)
(* analysis to the verified answer.  The agents are external: a reply is   *)
(* any member of the small sets the constants give.  Calls the pipeline    *)
(* gathers run side by side, and one that fails ends the turn while the    *)
(* others still run.                                                       *)
(***************************************************************************)
EXTENDS SemanticLayer, SqlGuard

CONSTANTS
    Questions,         \* what users ask
    Requests,          \* [ranking, requested]: the router's paraphrase of a question, and
                       \* the row count it names
    Selections,        \* [metrics, dimensions]: what intents and tasks select
    Plans,             \* the planner's replies; a query task is a selection with its purpose
    Statements,        \* the SQL agents' replies
    MaxClarifications, MaxIntentRepairs, MaxPlanRepairs, MaxQueryRepairs,
    MaxTurns,          \* bound: user messages in the conversation
    HasExecutor,       \* whether a query DSN is configured
    CertifiedTables,   \* tables of verified or certified models
    Nothing            \* no intent, plan, statement or pending state

\* Replies parse: a statement has a limit, if only NoLimit, and a plan at most three queries.
ASSUME TurnAssumption ==
    /\ MaxClarifications \in Nat
    /\ \A sql \in Statements : "limit" \in DOMAIN sql
    /\ \A p \in Plans : DOMAIN p.queries \subseteq 1..3
    /\ \A q \in Questions, c \in 0..MaxClarifications : Nothing # [question |-> q, clarifications |-> c]

VARIABLES
    history,   \* the assistant messages: [kind, status, clarifications, question]
    turn,      \* the turn the handler is working on
    tasks,     \* by query task: [pc, repairs, sql]
    executed   \* the statements the turn sent to the database, each with its task

vars == <<history, turn, tasks, executed>>

TaskIds == 1..3

NoTask == [pc |-> "none", repairs |-> 0, sql |-> Nothing]

Idle == [pc |-> "idle", question |-> Nothing, clarifications |-> 0, intent |-> Nothing,
         repairs |-> 0, plan |-> Nothing]

Init ==
    /\ history = <<>>
    /\ turn = Idle
    /\ tasks = [i \in TaskIds |-> NoTask]
    /\ executed = {}

-----------------------------------------------------------------------------
(* The handler. *)

\* Mutant: the walk over the history stops at any message that is not a clarification.
PendingStateMutant ==
    IF history # <<>> /\ history[Len(history)].kind = "clarification"
    THEN [question |-> history[Len(history)].question, clarifications |-> 0]
    ELSE Nothing

\* _pending_state: the latest clarification that no completed answer followed; a
\* failed turn does not end it.
PendingState ==
    LET open == {i \in DOMAIN history :
                    /\ history[i].kind = "clarification"
                    /\ \A j \in (i + 1)..Len(history) : history[j].status # "completed"}
    IN  IF open = {} THEN Nothing
        ELSE LET i == CHOOSE j \in open : \A k \in open : k <= j
             IN  [question |-> history[i].question, clarifications |-> history[i].clarifications]

\* The turn ends with an assistant message; a clarification keeps the state it
\* needs to go on.  Calls and statements it gathered may
\* still run; what they return is dropped.
Ends(kind, status) ==
    /\ history' = Append(history,
          IF kind = "clarification"
          THEN [kind |-> kind, status |-> status, question |-> turn.question,
                clarifications |-> turn.clarifications]
          ELSE [kind |-> kind, status |-> status, question |-> Nothing, clarifications |-> 0])
    /\ turn' = Idle
    /\ tasks' = [i \in TaskIds |-> NoTask]
    /\ executed' = {}

\* A user message: an answer to the pending clarification, or a new question.
Ask(q) ==
    /\ turn.pc = "idle"
    /\ Len(history) < MaxTurns
    /\ turn' = IF PendingState = Nothing
               THEN [Idle EXCEPT !.pc = "router", !.question = q]
               ELSE [Idle EXCEPT !.pc = "router", !.question = PendingState.question,
                                 !.clarifications = PendingState.clarifications + 1]
    /\ UNCHANGED <<history, tasks, executed>>

\* _call: the agent's run failed or its output does not parse; WorkflowError fails
\* the turn, whose message is a notice.
CallFails ==
    /\ \/ turn.pc \in {"router", "repair_intent", "planner", "insight", "verifier"}
       \/ turn.pc = "queries" /\ \E i \in TaskIds : tasks[i].pc = "generating"
    /\ Ends("error", "failed")

-----------------------------------------------------------------------------
(* Intent and plan. *)

ClarificationAllowed == turn.clarifications < MaxClarifications

\* _intent_validation_error: a valid intent is planned; an invalid one is repaired
\* while repairs are left.
IntentTaken(s, r, repairs) ==
    LET taken == [turn EXCEPT !.intent = r]
    IN  IF ValidSelection(s)
        THEN turn' = [taken EXCEPT !.pc = "planner", !.repairs = 0]
             /\ UNCHANGED <<history, tasks, executed>>
        ELSE IF repairs < MaxIntentRepairs
        THEN turn' = [taken EXCEPT !.pc = "repair_intent", !.repairs = repairs]
             /\ UNCHANGED <<history, tasks, executed>>
        ELSE Ends("error", "failed")

\* The router's reply, a paraphrase r with a selection s: a clarification is asked, up to
\* the limit; an unsupported request is blocked.
RouterReplies(status, s, r) ==
    /\ turn.pc = "router"
    /\ CASE status = "needs_clarification" ->
              Ends(IF ClarificationAllowed THEN "clarification" ELSE "blocked", "completed")
         [] status = "unsupported" -> Ends("blocked", "completed")
         [] OTHER -> IntentTaken(s, r, 0)

\* Mutant: the repairs are counted from zero each time.
RouterRepairsMutant(s, r) ==
    /\ turn.pc = "repair_intent"
    /\ IntentTaken(s, r, 0)

\* The repair call: its intent is validated like the first, its status is not looked at.
RouterRepairs(s, r) ==
    /\ turn.pc = "repair_intent"
    /\ IntentTaken(s, r, turn.repairs + 1)

\* The sole result the analytical tool consumes; every result without the parameter.
InputTasks(p) ==
    IF p.input = Nothing THEN DOMAIN p.queries
    ELSE {i \in DOMAIN p.queries : p.input = i}

\* _plan_validation_error: a known tool, governed selections, the required grain,
\* valid parameters and columns, and one input among several results; the static
\* scenario has a single query.  An empty input_task_id (0) passes with one query.
PlanValid(p) ==
    p.executable =>
        /\ p.tool \in {"none", "screen", "static", "gate"}
        /\ p.tool = "static" => Len(p.queries) = 1
        /\ \A i \in DOMAIN p.queries : ValidSelection(p.queries[i])
        /\ p.grain
        /\ p.parameters
        /\ Len(p.queries) > 1 => p.input \notin {Nothing, 0}
        /\ p.input \notin {Nothing, 0} => p.input \in DOMAIN p.queries

\* The planner's reply, first or repaired: the SQL agents start together.
PlannerReplies(p) ==
    /\ turn.pc = "planner"
    /\ IF PlanValid(p)
       THEN IF p.executable
            THEN /\ turn' = [turn EXCEPT !.plan = p, !.pc = "queries"]
                 /\ tasks' = [i \in TaskIds |->
                                 IF i \in DOMAIN p.queries
                                 THEN [NoTask EXCEPT !.pc = "generating"] ELSE NoTask]
                 /\ UNCHANGED <<history, executed>>
            ELSE Ends("blocked", "completed")
       ELSE IF turn.repairs < MaxPlanRepairs
            THEN /\ turn' = [turn EXCEPT !.repairs = @ + 1]
                 /\ UNCHANGED <<history, tasks, executed>>
            ELSE Ends("error", "failed")

-----------------------------------------------------------------------------
(* Queries: generated, guarded, executed side by side. *)

\* The checks of _generate_query on the statement with its ranking limit.
Accepted(i, sql) ==
    LET task == turn.plan.queries[i]
        bounded == Normalized(sql, turn.intent, task)
    IN  /\ ReadOnly(sql)
        /\ ValidParameters(bounded)
        /\ ValidGeneratedSql(task, bounded)
        /\ bounded.aliases
        /\ ValidRanking(bounded, turn.intent, task)

\* The SQL agent of a task replies; an unacceptable statement is repaired, and after
\* the last repair it fails the turn while its siblings go on.
SqlReplies(i, sql) ==
    /\ turn.pc = "queries"
    /\ tasks[i].pc = "generating"
    /\ IF Accepted(i, sql)
       THEN /\ tasks' = [tasks EXCEPT ![i].pc = "generated",
                                      ![i].sql = Normalized(sql, turn.intent, turn.plan.queries[i])]
            /\ UNCHANGED <<history, turn, executed>>
       ELSE IF tasks[i].repairs < MaxQueryRepairs
            THEN /\ tasks' = [tasks EXCEPT ![i].repairs = @ + 1]
                 /\ UNCHANGED <<history, turn, executed>>
            ELSE Ends("error", "failed")

\* Mutant: governance looks at the first table only.
GovernanceAllowsMutant(sql) == sql.tables \cap CertifiedTables # {}

\* QueryGovernanceEngine.evaluate for what the executor asks of it: every documented
\* table whose name the text of the statement holds is certified.
GovernanceAllows(sql) == (sql.tables \cup sql.ctes \cup sql.reads) \cap AllowedTables \subseteq CertifiedTables

\* ReadOnlyPostgresExecutor.execute guards the statement again and asks governance.
MayRun(i) == ReadOnly(tasks[i].sql) /\ GovernanceAllows(tasks[i].sql)

\* gather has every statement: all are started, also when one of them is refused.
\* Without an executor the turn ends with the SQL.
ExecuteAll ==
    /\ turn.pc = "queries"
    /\ \A i \in DOMAIN turn.plan.queries : tasks[i].pc = "generated"
    /\ IF HasExecutor
       THEN /\ turn' = [turn EXCEPT !.pc = "executing"]
            /\ tasks' = [i \in TaskIds |-> IF tasks[i].pc = "generated"
                                           THEN [tasks[i] EXCEPT !.pc = "submitted"] ELSE tasks[i]]
            /\ executed' = executed \cup
                  {[sql |-> tasks[i].sql, request |-> turn.intent, task |-> turn.plan.queries[i]] :
                      i \in {j \in DOMAIN turn.plan.queries : MayRun(j)}}
            /\ UNCHANGED history
       ELSE Ends("answer", "completed")

\* A read-only transaction returns at most the row limit and says whether there was
\* more; an empty result has no columns.  A refused or failing statement raises.
QueryReturns(i, result) ==
    /\ turn.pc = "executing"
    /\ tasks[i].pc = "submitted"
    /\ IF MayRun(i) /\ result # "error"
       THEN /\ tasks' = [tasks EXCEPT ![i].pc = result]
            /\ UNCHANGED <<history, turn, executed>>
       ELSE Ends("error", "failed")

\* _validate_result_columns: an empty result has no columns, a truncated one is partial.
Usable(i) == tasks[i].pc \in {"rows", "unusable"}

\* _analysis_rows and the tool: the static scenario and the screens need numeric
\* values, the causal gate asks for a model, the summary accepts anything.
AnalysisStatus(p) ==
    LET numeric == \E i \in InputTasks(p) : tasks[i].pc = "rows"
    IN  CASE p.tool = "none" -> "completed"
          [] p.tool = "gate" -> "requires_model"
          [] OTHER -> IF numeric THEN "completed" ELSE "insufficient_data"

\* Every query returned: the input is validated and analysed by the method registry, which
\* refuses or raises; only a completed analysis that is no static scenario is narrated.
Analyse ==
    /\ turn.pc = "executing"
    /\ \A i \in DOMAIN turn.plan.queries : tasks[i].pc \in {"rows", "unusable", "empty", "truncated"}
    /\ LET status == AnalysisStatus(turn.plan)
       IN  \/ Ends("error", "failed")
           \/ /\ \A i \in InputTasks(turn.plan) : Usable(i)
              /\ IF status # "completed" \/ turn.plan.tool = "static"
                 THEN Ends("answer", "completed")
                 ELSE /\ turn' = [turn EXCEPT !.pc = "insight"]
                      /\ UNCHANGED <<history, tasks, executed>>

InsightReplies ==
    /\ turn.pc = "insight"
    /\ turn' = [turn EXCEPT !.pc = "verifier"]
    /\ UNCHANGED <<history, tasks, executed>>

\* The verifier's verdict decides whether the report's findings are shown.
VerifierReplies(approved) ==
    /\ turn.pc = "verifier"
    /\ Ends(IF approved THEN "findings" ELSE "answer", "completed")

-----------------------------------------------------------------------------
(* The specification. *)

Replies ==
    \/ \E s \in Selections, r \in Requests :
          \/ \E status \in {"ready", "needs_clarification", "unsupported"} : RouterReplies(status, s, r)
          \/ RouterRepairs(s, r)
    \/ \E p \in Plans : PlannerReplies(p)
    \/ \E i \in TaskIds : \/ \E sql \in Statements : SqlReplies(i, sql)
                          \/ \E r \in {"rows", "unusable", "empty", "truncated", "error"} :
                                QueryReturns(i, r)
    \/ ExecuteAll \/ Analyse \/ InsightReplies
    \/ \E approved \in BOOLEAN : VerifierReplies(approved)

Next == (\E q \in Questions : Ask(q)) \/ CallFails \/ Replies

\* Agent runs and statements end: the runtime and the statement timeout bound them.
Spec == Init /\ [][Next]_vars /\ WF_vars(Replies)

-----------------------------------------------------------------------------
(* Properties. *)

\* Nothing reaches the database that the guard, the semantic layer and governance
\* did not accept: of every statement executed, first try or repaired, the tables that
\* the guard's pattern finds are documented, every documented table it reads is
\* certified, it has the default filters of the models its task selects, as the gate
\* reads them, and the task selects governed metrics only.  A statement may read an
\* undocumented table further on in a FROM list, which the pattern does not find.
OnlyGovernedSqlRuns ==
    \A e \in executed :
        /\ e.sql.shape = "select"
        /\ Referenced(e.sql) \subseteq AllowedTables
        /\ e.sql.reads \cap AllowedTables \subseteq CertifiedTables
        /\ \A m \in SelectedModels(e.task) :
              /\ ModelOf(m).certification >= MinimumCertification
              /\ \A f \in ModelOf(m).defaults : <<f.field, f.values>> \in e.sql.equalities

\* A statement executed for a ranking, by the router's paraphrase or the purpose of its
\* task, has an ORDER BY, and its last LIMIT is the count that the paraphrase names and
\* never above the display bound, whatever limit the agent wrote.
RankingsAreBounded ==
    \A e \in executed : Ranks(e.request, e.task) =>
        /\ e.sql.ordered
        /\ e.sql.limit \in 1..MaxRankingRows
        /\ e.request.requested # NoLimit => e.sql.limit = e.request.requested

\* The user is asked at most MaxClarifications times before an answer, also when
\* turns fail in between and the persisted state is picked up again.
ClarificationsBounded ==
    \A i, j \in DOMAIN history :
        (\A k \in i..j : history[k].kind = "clarification" \/ history[k].status = "failed") =>
            Cardinality({k \in i..j : history[k].kind = "clarification"}) <= MaxClarifications

\* Every turn ends with a message, however many calls are repaired or fail.
TurnsEnd == turn.pc # "idle" ~> turn.pc = "idle"

=============================================================================
