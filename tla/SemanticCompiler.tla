-------------------------- MODULE SemanticCompiler --------------------------
(***************************************************************************)
(* SemanticQueryCompiler and ProductionSemanticQueryCompiler: a metric     *)
(* query becomes the tables it reads, the predicates it enforces and the   *)
(* positional parameters they refer to, or it is refused.  SQL text,       *)
(* aggregation functions and lineage are left out.                         *)
(***************************************************************************)
EXTENDS SemanticLayer, SequenceFilters

CONSTANTS
    Queries,   \* the metric queries callers compile
    NoQuery    \* before the first one

\* FilterOperator
FilterOperators ==
    {"eq", "ne", "gt", "gte", "lt", "lte", "in", "not_in", "is_null", "is_not_null"}

\* A filter has an operator of its own and a sequence of values, a query a sequence of
\* filters.
ASSUME QueryAssumption ==
    /\ \A m \in Models : \A f \in m.defaults : f.operator \in FilterOperators /\ IsSequence(f.values)
    /\ \A q \in Queries :
          /\ IsSequence(q.filters)
          /\ \A i \in DOMAIN q.filters : IsSequence(q.filters[i].values)
          /\ IsFiniteSet(q.period)

VARIABLES
    query,     \* the query compiled last
    compiled   \* what the production compiler made of it

compilerVars == <<query, compiled>>

Refused == [ok |-> FALSE]

\* A predicate the statement enforces: what it is on, its operator and its values.
Predicate(on, operator, values) == [on |-> on, operator |-> operator, values |-> values]

\* The where clause so far: the parameters and, by clause, their placeholders.
NoClauses == [parameters |-> <<>>, clauses |-> <<>>]

\* Mutant: the placeholder is numbered before its value is appended.
AddClauseMutant(w, p) ==
    [parameters |-> w.parameters \o p.values,
     clauses |-> Append(w.clauses, [on |-> p.on, operator |-> p.operator, values |-> p.values,
                    at |-> [i \in DOMAIN p.values |-> Len(w.parameters) + i - 1]])]

\* _filter: every value becomes the parameter its placeholder numbers; the null
\* operators have none.
AddClause(w, p) ==
    [parameters |-> w.parameters \o p.values,
     clauses |-> Append(w.clauses, [on |-> p.on, operator |-> p.operator, values |-> p.values,
                    at |-> [i \in DOMAIN p.values |-> Len(w.parameters) + i]])]

\* The where clause, in the order the compiler adds to it.
Where(predicates) == FoldLeft(AddClause, NoClauses, predicates)

DimensionOf(f) == CHOOSE d \in Filtered(f) : TRUE

FilterPredicates(filters) ==
    [i \in DOMAIN filters |->
        Predicate(DimensionOf(filters[i]).name, filters[i].operator, filters[i].values)]

\* A predicate with one parameter on each of the fields: a relative period, or that the
\* rows of a model are fresh.
OnEach(fields, operator, value) ==
    LET names == SetToSeq(fields) IN [i \in DOMAIN names |-> Predicate(names[i], operator, <<value>>)]

\* Mutant: a model with a required dimension counts as bounded in time by the caller.
FreshnessMutant(m) ==
    IF ModelOf(m).required # {} THEN <<>> ELSE OnEach(ModelOf(m).freshness, "fresh", "age")

\* The age is the policy's, with the model's allowance for late rows added.
Freshness(m) == OnEach(ModelOf(m).freshness, "fresh", "age")

\* order_by may only name what is selected.
OrderSelected(q) ==
    q.order \subseteq {d.name : d \in SelectedDimensions(q)} \cup {x.name : x \in SelectedMetrics(q)}

-----------------------------------------------------------------------------
(* SemanticQueryCompiler: one model. *)

\* A filter of the query is on the model and does not override a governed default.
MayFilter(m, f) ==
    /\ DimensionOf(f).model = m.name
    /\ \A g \in m.defaults : g.field = DimensionOf(f).name => g.operator = f.operator /\ g.values = f.values

\* _effective_filters: the defaults, then the query's filters on other fields.
EffectiveFilters(m, filters) ==
    SetToSeq(m.defaults)
    \o Keep(filters, {f \in ToSet(filters) :
                        DimensionOf(f).name \notin {g.field : g \in m.defaults}})

CompileOneModel(q) ==
    LET name == CHOOSE n \in SelectedModels(q) : TRUE
        model == ModelOf(name)
        where == Where(FilterPredicates(EffectiveFilters(model, q.filters)) \o Freshness(name))
    IN  IF /\ ValidQuery(q)
           /\ Cardinality(SelectedModels(q)) = 1
           /\ ~q.time_range
           /\ \A i \in DOMAIN q.filters : MayFilter(model, q.filters[i])
           /\ OrderSelected(q)
        THEN [ok |-> TRUE, tables |-> <<name>>, clauses |-> where.clauses,
              parameters |-> where.parameters]
        ELSE Refused

-----------------------------------------------------------------------------
(* ProductionSemanticQueryCompiler: joins, time, snapshots and validity. *)

\* _validate_compilation_shape
Compilable(q) == ~q.time_range /\ ~q.needs_graph

\* A semi-additive metric is taken at its dimensions or at a snapshot.
SnapshotTaken(q) ==
    \A x \in SelectedMetrics(q) :
        x.semi_additive \subseteq {d.name : d \in SelectedDimensions(q)} \/ q.snapshot # "none"

\* _advanced, and the metrics (ratios, null handling) and models (validity, late
\* rows) the one-model compiler does not know.
NeedsProductionPath(q) ==
    \/ q.snapshot # "none" \/ q.period # {} \/ q.grain
    \/ \E x \in SelectedMetrics(q) : ~x.plain
    \/ \E m \in SelectedModels(q) : ModelOf(m).validity # {}

\* The first join of the layer that leads from a reached model to a remaining one.
NextJoin(reached, remaining) ==
    {i \in DOMAIN Joins :
        /\ \/ Joins[i].left \in reached /\ Joins[i].right \in remaining
           \/ Joins[i].right \in reached /\ Joins[i].left \in remaining
        /\ \A j \in 1..(i - 1) :
              ~ \/ Joins[j].left \in reached /\ Joins[j].right \in remaining
                \/ Joins[j].right \in reached /\ Joins[j].left \in remaining}

\* One turn of _join_path: it ends with every target reached, and fails without a join
\* or without the tags the join asks for.
AddJoin(targets, p) ==
    LET next == NextJoin(p.reached, targets \ p.reached)
        i == CHOOSE j \in next : TRUE
    IN  IF ~p.ok \/ targets \subseteq p.reached THEN p
        ELSE IF next = {} THEN [p EXCEPT !.ok = FALSE]
        ELSE [ok |-> Joins[i].tags \subseteq AuthorizationTags,
              reached |-> p.reached \cup {Joins[i].left, Joins[i].right},
              path |-> Append(p.path, Joins[i])]

FromBase(base) == [ok |-> TRUE, reached |-> {base}, path |-> <<>>]

\* _join_path: every turn reaches a target, so there is one turn per target.
JoinPath(base, targets) ==
    FoldLeft(LAMBDA p, k : AddJoin(targets, p), FromBase(base), [k \in 1..Cardinality(targets) |-> k])

\* A join from one row to many would repeat the fact's rows.
FansOut(j) == j.relationship = "one_to_many" /\ ~j.fanout_safe

\* What every selected model adds, model by model.
ForModels(added) ==
    LET names == SetToSeq(DOMAIN added) IN FlattenSeq([i \in DOMAIN names |-> added[names[i]]])

DefaultFilters(q) == ForModels([m \in SelectedModels(q) |-> SetToSeq(ModelOf(m).defaults)])

\* Mutant: the query's filters come first, and the defaults are the later duplicates.
GovernedFiltersMutant(q) == q.filters \o DefaultFilters(q)

\* The defaults of every selected model, then the filters of the query.
GovernedFilters(q) == DefaultFilters(q) \o q.filters

\* seen_filters: of several filters on one dimension only the first is kept.
KeepFirst(kept, f) ==
    IF \E i \in DOMAIN kept : DimensionOf(kept[i]) = DimensionOf(f) THEN kept ELSE Append(kept, f)

FirstPerDimension(filters) == FoldLeft(KeepFirst, <<>>, filters)

\* A snapshot is the latest one, which needs no parameter, or the one at a time.
Snapshot(q) ==
    CASE q.snapshot = "as_of" -> <<Predicate(q.snapshot_on, "as_of", <<"as_of">>)>>
      [] q.snapshot = "latest" -> <<Predicate(q.snapshot_on, "latest", <<>>)>>
      [] OTHER -> <<>>

\* A model with both validity dimensions is read at the snapshot, or now.
Validity(q, m) ==
    IF Cardinality(ModelOf(m).validity) < 2 THEN <<>>
    ELSE <<Predicate("validity", "valid", IF q.snapshot = "as_of" THEN <<"as_of">> ELSE <<>>)>>

ProductionPredicates(q) ==
    FilterPredicates(FirstPerDimension(GovernedFilters(q)))
    \o OnEach(q.period, "period", "count")
    \o ForModels([m \in SelectedModels(q) |-> Freshness(m)])
    \o Snapshot(q)
    \o ForModels([m \in SelectedModels(q) |-> Validity(q, m)])

\* The fields of the query are dimensions of models that have an alias in it.
FieldsSelected(q) ==
    \A field \in {q.filters[i].field : i \in DOMAIN q.filters} \cup q.period
                    \cup (IF q.snapshot = "none" THEN {} ELSE {q.snapshot_on}) :
        \E d \in Dimensions : field \in d.aliases /\ d.model \in SelectedModels(q)

\* Mutant: the wrong end of the join is joined.
JoinedTablesMutant(base, path) == <<base>> \o [i \in DOMAIN path |-> path[i].left]

\* The tables of the statement: the fact, and the right model of every join.
JoinedTables(base, path) == <<base>> \o [i \in DOMAIN path |-> path[i].right]

CompileProduction(q) ==
    LET facts == {x.model : x \in SelectedMetrics(q)}
        base == CHOOSE m \in facts : TRUE
        joins == JoinPath(base, SelectedModels(q) \ {base})
        where == Where(ProductionPredicates(q))
    IN  IF /\ Cardinality(facts) = 1
           /\ joins.ok
           /\ \A i \in DOMAIN joins.path : ~FansOut(joins.path[i])
           /\ FieldsSelected(q)
           /\ q.snapshot # "same_dtd"
           /\ OrderSelected(q)
        THEN [ok |-> TRUE, tables |-> JoinedTables(base, joins.path),
              clauses |-> where.clauses, parameters |-> where.parameters]
        ELSE Refused

Compile(q) ==
    IF ~Compilable(q) \/ ~ValidQuery(q) \/ ~SnapshotTaken(q) THEN Refused
    ELSE IF Cardinality(SelectedModels(q)) = 1 /\ ~NeedsProductionPath(q)
         THEN CompileOneModel(q)
         ELSE CompileProduction(q)

-----------------------------------------------------------------------------
(* The compiler at work. *)

CompilerInit == query = NoQuery /\ compiled = Refused

\* The compiler keeps nothing from one query to the next: one is enough.
CompileQuery(q) == query = NoQuery /\ query' = q /\ compiled' = Compile(q)

CompilerNext == \E q \in Queries : CompileQuery(q)

ClauseOn(field) == {i \in DOMAIN compiled.clauses : compiled.clauses[i].on = field}

\* The operators of predicates that only narrow what a default filter leaves: a period,
\* a snapshot, what is fresh or valid.
Narrowing == {"period", "fresh", "as_of", "latest", "valid"}

\* Whatever the query filters by and whichever path compiles it, the statement
\* enforces the governed default filters of every model it draws from, nothing in
\* it filters a governed field by another value and the required dimensions are
\* constrained.  A freshness policy is enforced by the predicate on the age of the rows
\* itself: a filter of the caller on the same field does not stand for it.
GovernedFiltersHold ==
    compiled.ok => \A m \in SelectedModels(query) :
        /\ \A f \in ModelOf(m).defaults :
              /\ \E i \in ClauseOn(f.field) :
                    compiled.clauses[i].operator = f.operator /\ compiled.clauses[i].values = f.values
              /\ \A i \in ClauseOn(f.field) :
                    \/ compiled.clauses[i].operator \in Narrowing
                    \/ compiled.clauses[i].operator = f.operator /\ compiled.clauses[i].values = f.values
        /\ \A field \in ModelOf(m).required : ClauseOn(field) # {}
        /\ \A field \in ModelOf(m).freshness : \E i \in ClauseOn(field) :
              compiled.clauses[i].operator = "fresh" /\ compiled.clauses[i].values = <<"age">>

\* The placeholders of a compiled statement number its parameters: each clause
\* refers to its own values, and no parameter is left without a placeholder.
ParametersMatch ==
    compiled.ok =>
        /\ \A i \in DOMAIN compiled.clauses : \A k \in DOMAIN compiled.clauses[i].values :
              LET c == compiled.clauses[i]
              IN  c.at[k] \in DOMAIN compiled.parameters /\ compiled.parameters[c.at[k]] = c.values[k]
        /\ DOMAIN compiled.parameters =
              UNION {{compiled.clauses[i].at[k] : k \in DOMAIN compiled.clauses[i].at} :
                        i \in DOMAIN compiled.clauses}

\* A statement over several models reads every one of them, once, in a catalog whose
\* joins lead outward: no selected column is taken from a table that is not joined.
EveryModelJoined ==
    compiled.ok => /\ ToSet(compiled.tables) = SelectedModels(query)
                   /\ Len(compiled.tables) = Cardinality(SelectedModels(query))

\* The joins lead outward, as those of a star or a snowflake do: no model is the right end of
\* two joins, and the model of a metric that may be queried is the right end of none.
OutwardJoins ==
    /\ \A i, j \in DOMAIN Joins : Joins[i].right = Joins[j].right => i = j
    /\ \A x \in Metrics : Governed(x) /\ Governed(ModelOf(x.model)) =>
          \A i \in DOMAIN Joins : Joins[i].right # x.model

=============================================================================
