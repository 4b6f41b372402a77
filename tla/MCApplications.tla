---------------------------- MODULE MCApplications -------------------------
(* Instances for TLC: an airline-like catalog with a certified sales model   *)
(* (a governed default filter, a required dimension), a verified region      *)
(* model joined to it and a draft model.                                     *)
EXTENDS AnalyticsTurn, SemanticCompiler, HiringPipeline, TalkToDataCli, PolicyBoundaries

MCModels == {
    [name |-> "sales", table |-> "t_sales", certification |-> 2, sensitivity |-> 1, tags |-> {},
     defaults |-> {[field |-> "is_current", operator |-> "eq", values |-> <<"true">>]},
     required |-> {"date"}, freshness |-> {"loaded"}, validity |-> {}],
    [name |-> "region", table |-> "t_region", certification |-> 1, sensitivity |-> 1, tags |-> {},
     defaults |-> {}, required |-> {}, freshness |-> {}, validity |-> {"from", "to"}],
    [name |-> "lab", table |-> "t_lab", certification |-> 0, sensitivity |-> 1, tags |-> {},
     defaults |-> {}, required |-> {}, freshness |-> {}, validity |-> {}]}

Metric(name, model, certification, allowed, plain, semi) ==
    [name |-> name, aliases |-> {name}, model |-> model, allowed |-> allowed,
     certification |-> certification, sensitivity |-> 1, tags |-> {}, plain |-> plain,
     semi_additive |-> semi]

MCMetrics == {
    Metric("revenue", "sales", 2, {"date", "area"}, TRUE, {}),
    Metric("seats", "sales", 1, {}, FALSE, {"date"}),
    Metric("trial", "lab", 1, {}, TRUE, {})}

Dimension(name, model, sensitivity) ==
    [name |-> name, aliases |-> {name}, model |-> model, sensitivity |-> sensitivity, tags |-> {}]

MCDimensions == {
    Dimension("date", "sales", 1), Dimension("loaded", "sales", 1), Dimension("is_current", "sales", 1),
    Dimension("area", "region", 1), Dimension("from", "region", 1), Dimension("to", "region", 1),
    Dimension("person", "sales", 3)}

Join(name, left, right, relationship) ==
    [name |-> name, left |-> left, right |-> right, relationship |-> relationship,
     fanout_safe |-> FALSE, tags |-> {}]

MCJoins == <<Join("sales_region", "sales", "region", "many_to_one"),
             Join("sales_lab", "sales", "lab", "one_to_many")>>

\* What the proof that every model is joined asks of a catalog.
ASSUME OutwardJoinsAssumption == OutwardJoins

MCSelections == {
    [metrics |-> {Reference("revenue")}, dimensions |-> {Reference("date")}],
    [metrics |-> {Reference("trial")}, dimensions |-> {}]}

MCFilters == {
    <<>>,
    <<[field |-> "date", operator |-> "gte", values |-> <<"d1">>]>>,
    <<[field |-> "date", operator |-> "in", values |-> <<"d1", "d2">>],
      [field |-> "area", operator |-> "is_null", values |-> <<>>]>>,
    <<[field |-> "date", operator |-> "gte", values |-> <<"d1">>],
      [field |-> "loaded", operator |-> "lt", values |-> <<"d2">>]>>,
    <<[field |-> "date", operator |-> "gte", values |-> <<"d1">>],
      [field |-> "is_current", operator |-> "eq", values |-> <<"false">>]>>}

MCQueries ==
    [metrics: {{Reference("revenue")}, {Reference("seats")}, {Reference("trial")},
               {[model |-> "sales", name |-> "revenue"], Reference("seats")}},
     dimensions: {{}, {Reference("date")}, {Reference("date"), Reference("area")},
                  {Reference("person")}},
     filters: MCFilters, order: {{}, {"revenue"}},
     time_range: {FALSE}, needs_graph: BOOLEAN, grain: {FALSE}, period: {{}, {"date"}},
     snapshot: {"none", "latest", "as_of", "same_dtd"}, snapshot_on: {"date"}]

\* No ranking, one without a count, with a count and with one above the bound.
MCRequests == {[ranking |-> FALSE, requested |-> NoLimit], [ranking |-> TRUE, requested |-> NoLimit],
               [ranking |-> TRUE, requested |-> 3], [ranking |-> TRUE, requested |-> 500]}

Plan(executable, tool, queries, input) ==
    [executable |-> executable, tool |-> tool, queries |-> queries, input |-> input,
     grain |-> TRUE, parameters |-> TRUE]

\* One task, two tasks with the input named, an empty input name, no task to run,
\* and plans the validation refuses.
MCPlans ==
    LET governed == [metrics |-> {Reference("revenue")}, dimensions |-> {Reference("date")},
                     purpose |-> FALSE]
        ranking == [governed EXCEPT !.purpose = TRUE]
        draft == [metrics |-> {Reference("trial")}, dimensions |-> {}, purpose |-> FALSE]
    IN  {Plan(TRUE, "none", <<governed>>, Nothing),
         Plan(TRUE, "none", <<ranking>>, 0),
         Plan(TRUE, "static", <<governed>>, Nothing),
         Plan(TRUE, "screen", <<governed, ranking>>, 2),
         Plan(TRUE, "gate", <<governed>>, Nothing),
         Plan(TRUE, "none", <<governed, governed>>, Nothing),
         Plan(TRUE, "none", <<draft>>, Nothing),
         Plan(FALSE, "none", <<>>, Nothing)}

Sql(tables, ctes, equalities, ordered, limit) ==
    [shape |-> "select", tables |-> tables, ctes |-> ctes, reads |-> tables \ ctes, placeholders |-> {1}, positions |-> {1},
     predicates |-> {"date"}, equalities |-> equalities, aliases |-> TRUE,
     ordered |-> ordered, limit |-> limit]

\* One that reads a defined name, one without the default filter, a table that is not
\* certified, an undocumented one, wrong parameters, and further items of a FROM list: a
\* certified table, one that is not, an undocumented one.
MCStatements ==
    LET kept == {<<"is_current", <<"true">>>>}
    IN  {Sql({"t_sales", "x"}, {"x"}, kept, TRUE, 5),
         Sql({"t_sales"}, {}, {}, TRUE, NoLimit),
         Sql({"t_sales", "t_lab"}, {}, kept, FALSE, NoLimit),
         Sql({"t_sales", "x"}, {}, kept, TRUE, 5),
         [Sql({"t_sales"}, {}, kept, TRUE, 5) EXCEPT !.positions = {1, 2}]}
        \cup {[Sql({"t_sales"}, {}, kept, TRUE, 500) EXCEPT !.reads = {"t_sales", t}] :
                 t \in {"t_region", "t_lab", "undocumented"}}

-----------------------------------------------------------------------------
(* Uploads: clean ones, one per way to hide text at its threshold, matches of *)
(* the patterns on one line and over two, images, and refused ones.          *)

Line(kind, injection) ==
    [kind |-> kind, injection |-> injection, size |-> 2, tone |-> 244, alpha |-> 1, inside |-> TRUE]

Upload(format, spans, images) ==
    [format |-> format, within_limits |-> TRUE, spans |-> spans, images |-> images]

MCUploads ==
    LET skill == Line("skill", {})
        private == <<Line("header", {}), Line("contact", {}), skill, Line("name", {}),
                     Line("address", {}), Line("demographic", {})>>
        override == Line("skill", {"instruction_override"})
        header == <<skill, Line("role", {}), Line("colon", {})>>
        broken == <<Line("first_name", {}), Line("last_name", {}), Line("spaced_name", {})>>
        empty == Line("empty", {})
    IN  {Upload("text", private, FALSE), Upload("pdf", private, TRUE),
         Upload("text", <<skill, override>>, FALSE), Upload("pdf", <<override, skill>>, FALSE),
         Upload("text", header, FALSE), Upload("pdf", header, FALSE),
         Upload("text", <<Line("role", {}), empty, Line("colon", {})>>, FALSE),
         Upload("text", <<empty>> \o private, FALSE), Upload("pdf", broken, FALSE),
         Upload("pdf", <<>>, TRUE),
         Upload("pdf", <<skill, [skill EXCEPT !.size = 1]>>, FALSE),
         Upload("pdf", <<skill, [skill EXCEPT !.tone = 245]>>, FALSE),
         Upload("pdf", <<skill, [skill EXCEPT !.alpha = 12]>>, FALSE),
         Upload("pdf", <<[skill EXCEPT !.inside = FALSE], skill>>, FALSE),
         [Upload("pdf", <<skill>>, FALSE) EXCEPT !.within_limits = FALSE],
         Upload("word", <<skill>>, FALSE)}

MCPrincipals == {[tenant |-> "acme", user |-> "ann"], [tenant |-> "other", user |-> "bob"]}

-----------------------------------------------------------------------------
(* The command-line workflow, and the policies of a run.                     *)

Assessment(status, tables) ==
    [status |-> status, tables |-> tables, evidence |-> {"s1"}, citations |-> {"s1", "s2"}]

MCAssessments ==
    {Assessment(status, tables) : status \in {"ready", "needs_clarification", "unsupported"},
                                  tables \in {{"t_sales"}, {"t_sales", "undocumented"}}}
    \cup {[Assessment("ready", {"t_sales"}) EXCEPT !.citations = {"s2"}],
          [Assessment("ready", {"t_sales"}) EXCEPT !.citations = {}]}

MCGenerations ==
    {[sql |-> sql, evidence |-> {"s1"}, citations |-> citations] :
        sql \in MCStatements, citations \in {{}, {"s1"}, {"s2"}}}

\* The order of the engine's own policies, and a plugin in front of their reverse.
MCRegistrations ==
    LET builtin == <<"secrets", "pii", "prompt_injection", "output_validation", "authorization",
                     "side_effects">>
    IN  {builtin, Reverse(builtin \o <<"plugin">>)}

MCAgentSelections == {
    {"secrets", "pii", "prompt_injection", "output_validation", "authorization"},
    {"pii", "plugin"}}

MCToolKinds == {[permitted |-> TRUE, side_effect |-> TRUE], [permitted |-> FALSE, side_effect |-> FALSE]}

MCTexts == {{}, {"secret", "pii"}, {"override", "marker"}, {"topic"}}

-----------------------------------------------------------------------------
(* The components do not interact: a behaviour exercises one of Subjects.    *)

CONSTANT Subjects

VARIABLE subject

allVars == <<vars, compilerVars, hiringVars, request, policyVars, subject>>

MCInit ==
    /\ subject \in Subjects
    /\ Init /\ CompilerInit /\ HiringInit
    /\ CliInit /\ (subject # "cli" => request.raw /\ request.mode = "loop")
    /\ PolicyInit
    /\ subject # "policies" =>
          agent = CHOOSE a \in [registration: Registrations, selection: AgentSelections] : TRUE

MCNext ==
    /\ UNCHANGED subject
    /\ \/ subject = "conversation" /\ Next /\ UNCHANGED <<compilerVars, hiringVars, request, policyVars>>
       \/ subject = "compiler" /\ CompilerNext /\ UNCHANGED <<vars, hiringVars, request, policyVars>>
       \/ subject = "hiring" /\ HiringNext /\ UNCHANGED <<vars, compilerVars, request, policyVars>>
       \/ subject = "cli" /\ CliNext /\ UNCHANGED <<vars, compilerVars, hiringVars, policyVars>>
       \/ subject = "policies" /\ PolicyNext /\ UNCHANGED <<vars, compilerVars, hiringVars, request>>

\* Agent runs and statements end: the runtime's deadlines and the statement timeout
\* bound them.
MCFairness ==
    WF_allVars(/\ subject = "conversation" /\ Replies
               /\ UNCHANGED <<compilerVars, hiringVars, request, policyVars, subject>>)

MCSpec == MCInit /\ [][MCNext]_allVars /\ MCFairness

=============================================================================
