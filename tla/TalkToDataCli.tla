---------------------------- MODULE TalkToDataCli ----------------------------
(***************************************************************************)
(* TalkToDataWorkflow: two agents and a bounded clarification loop.  The   *)
(* loop (run) asks the user itself; the turns (run_turn) return the        *)
(* question, and the caller comes back with one more clarification.  The   *)
(* agents and the user are external: a reply is a member of small sets.    *)
(***************************************************************************)
EXTENDS SqlGuard

CONSTANTS
    Assessments,         \* the intent agent: [status, tables, evidence, citations]
    Generations,         \* the SQL agent: [sql, evidence, citations]
    CliClarifications,   \* max_clarifications
    NoAssessment         \* the intent agent has not replied yet

ASSUME CliAssumption == CliClarifications \in 0..5

\* A reply of the intent agent parses: it has the fields of IntentAssessment.
ASSUME AssessmentAssumption == \A a \in Assessments : {"status", "tables"} \subseteq DOMAIN a

VARIABLE request   \* [pc, mode, raw, clarifications, questions, intent]

\* `raw`: whether the catalog documents the fallback table pnr_flight.
CliInit ==
    request \in [pc: {"intent"}, mode: {"loop", "turns"}, raw: BOOLEAN, clarifications: {0},
                 questions: {0}, intent: {NoAssessment}]

At(pc) == [request EXCEPT !.pc = pc]

\* _validate_sources: nothing is checked when the run retrieved nothing.
ValidSources(reply) == reply.citations # {} => reply.evidence \subseteq reply.citations

Documented(a) == a.tables \subseteq AllowedTables

\* An undocumented table is an error unless it can be asked about.
Assessable(a) ==
    /\ Documented(a) \/ a.status = "needs_clarification" \/ request.raw
    /\ ValidSources(a)

\* _assess_intent: undocumented tables are dropped from a question; a request that is
\* ready or unsupported because of them becomes a question about the raw table.
Assessed(a) ==
    IF Documented(a) THEN a
    ELSE IF a.status = "needs_clarification" THEN [a EXCEPT !.tables = @ \cap AllowedTables]
    ELSE [a EXCEPT !.status = "needs_clarification", !.tables = {"pnr_flight"}]

\* Mutant: the limit is compared one question late.
LimitReachedMutant == request.clarifications > CliClarifications

\* attempt in run, len(clarifications) in run_turn
LimitReached == request.clarifications >= CliClarifications

\* The intent agent replied: go on to SQL, give up, or ask.
AssessIntent(reply) ==
    LET a == Assessed(reply)
    IN  /\ request.pc = "intent"
        /\ request' =
              CASE ~Assessable(reply) -> At("failed")
                [] a.status = "ready" -> [At("sql") EXCEPT !.intent = a]
                [] a.status = "unsupported" ->
                      At(IF request.mode = "loop" THEN "failed" ELSE "unsupported")
                [] OTHER -> IF LimitReached THEN At("failed")
                            ELSE [At("asking") EXCEPT !.questions = @ + 1, !.intent = a]

\* The user answers; the loop refuses an empty answer, a turn takes what it is given.
Clarify(empty) ==
    /\ request.pc = "asking"
    /\ request' = IF empty /\ request.mode = "loop" THEN At("failed")
                  ELSE [At("intent") EXCEPT !.clarifications = @ + 1]

\* The SQL agent replied: the statement is guarded, never repaired.
GenerateSql(reply) ==
    /\ request.pc = "sql"
    /\ request' = At(IF ValidSources(reply) /\ ReadOnly(reply.sql) /\ ValidParameters(reply.sql)
                     THEN "completed" ELSE "failed")

\* _validated_output: a run that failed, or whose output is not of the schema.
OutputInvalid == request.pc \in {"intent", "sql"} /\ request' = At("failed")

CliNext ==
    \/ \E a \in Assessments : AssessIntent(a)
    \/ \E empty \in BOOLEAN : Clarify(empty)
    \/ \E g \in Generations : GenerateSql(g)
    \/ OutputInvalid

-----------------------------------------------------------------------------
(* Properties. *)

\* However the intent agent and the user reply, at most max_clarifications questions
\* are asked, and SQL is generated only from an intent that is ready and names
\* documented tables alone, also after it named others.
SqlFollowsReadyIntent ==
    /\ request.questions <= CliClarifications
    /\ request.pc \in {"sql", "completed"} =>
          request.intent.status = "ready" /\ Documented(request.intent)

=============================================================================
