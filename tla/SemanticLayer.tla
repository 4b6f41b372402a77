---------------------------- MODULE SemanticLayer ----------------------------
(***************************************************************************)
(* The governed metric catalog: how a planner's reference is resolved and  *)
(* which selections, queries and generated statements the layer accepts.   *)
(* A reference is a name or a synonym, plain or qualified by a model; the  *)
(* spelling of names is abstracted to the alias they normalise to.         *)
(***************************************************************************)
EXTENDS Integers, Sequences, FiniteSets

CONSTANTS
    Models,                \* SemanticModelDefinition records
    Metrics,               \* MetricDefinition records, each with its model
    Dimensions,            \* DimensionDefinition records, each with its model
    Joins,                 \* the sequence of JoinDefinition records
    MinimumCertification,  \* 0 draft, 1 verified, 2 certified
    MaximumSensitivity,    \* 0 public, 1 internal, 2 confidential, 3 restricted
    AuthorizationTags,     \* the caller's tags
    Unqualified            \* the model of a reference that names none

Reference(name) == [model |-> Unqualified, name |-> name]

\* _index: an alias that stands for two definitions is refused when the layer loads.
Unambiguous(index) ==
    \A d, e \in index : d.aliases \cap e.aliases # {} => d = e

ModelOf(name) == CHOOSE m \in Models : m.name = name

\* The names of a model's dimensions.
DimensionsOf(m) == {d.name : d \in {e \in Dimensions : e.model = m.name}}

\* SemanticModelDefinition.validate_names and SemanticLayerDefinition.validate_graph.
ValidLayer ==
    /\ Unambiguous(Metrics) /\ Unambiguous(Dimensions)
    /\ \A m, n \in Models : m.name = n.name => m = n
    /\ \A m \in Models :
          /\ {f.field : f \in m.defaults} \cup m.required \cup m.freshness \cup m.validity
                \subseteq DimensionsOf(m)
          /\ \A f, g \in m.defaults : f.field = g.field => f = g
    /\ \A x \in Metrics : x.allowed \subseteq {d.name : d \in Dimensions}
    /\ \A i, j \in DOMAIN Joins : Joins[i].name = Joins[j].name => i = j
    /\ \A i \in DOMAIN Joins : {Joins[i].left, Joins[i].right} \subseteq {m.name : m \in Models}

\* What the layer promises once it has loaded.
ASSUME LayerAssumption == ValidLayer

\* The catalog is finite, every definition belongs to a model, and a dimension can be
\* referred to by its own name.
ASSUME CatalogAssumption ==
    /\ IsFiniteSet(Metrics) /\ IsFiniteSet(Dimensions)
    /\ \A m \in Models : IsFiniteSet(m.defaults) /\ IsFiniteSet(m.freshness)
    /\ \A x \in Metrics : x.model \in {m.name : m \in Models}
    /\ \A d \in Dimensions : d.model \in {m.name : m \in Models} /\ d.name \in d.aliases

\* metric, dimension and _qualified_reference: the definition an alias stands for;
\* a qualified reference must also name the definition's own model.
Resolved(index, ref) ==
    {d \in index : ref.name \in d.aliases /\ ref.model \in {Unqualified, d.model}}

Resolvable(index, refs) == \A r \in refs : Resolved(index, r) # {}

ResolvedAll(index, refs) == UNION {Resolved(index, r) : r \in refs}

SelectedMetrics(s) == ResolvedAll(Metrics, s.metrics)
SelectedDimensions(s) == ResolvedAll(Dimensions, s.dimensions)

\* The names of the models a selection draws from.
SelectedModels(s) ==
    {x.model : x \in SelectedMetrics(s)} \cup {d.model : d \in SelectedDimensions(s)}

\* _validate_access
Accessible(x) == x.sensitivity <= MaximumSensitivity /\ x.tags \subseteq AuthorizationTags

\* _validate_governance
Governed(x) == x.certification >= MinimumCertification /\ Accessible(x)

\* validate_selection, with validate_references: every reference is defined, the
\* metrics may be grouped by the dimensions, and all of it is governed.
ValidSelection(s) ==
    /\ Resolvable(Metrics, s.metrics)
    /\ Resolvable(Dimensions, s.dimensions)
    /\ \A x \in SelectedMetrics(s) :
          /\ x.allowed # {} => {d.name : d \in SelectedDimensions(s)} \subseteq x.allowed
          /\ Governed(x)
    /\ \A d \in SelectedDimensions(s) : Accessible(d)
    /\ \A m \in SelectedModels(s) : Governed(ModelOf(m))

\* The dimension a filter constrains.
Filtered(f) == Resolved(Dimensions, Reference(f.field))

\* validate_query: the filters are defined and cover what the models require.
ValidQuery(q) ==
    /\ ValidSelection(q)
    /\ \A i \in DOMAIN q.filters : Filtered(q.filters[i]) # {}
    /\ \A m \in SelectedModels(q) :
          ModelOf(m).required
             \subseteq {d.name : d \in UNION {Filtered(q.filters[i]) : i \in DOMAIN q.filters}}

\* validate_generated_sql: the statement reads the table of every selected model,
\* has a predicate on its required dimensions and enforces its default filters,
\* which have to be Boolean equalities.
ValidGeneratedSql(s, sql) ==
    \A m \in SelectedModels(s) :
        LET model == ModelOf(m)
        IN  /\ model.table \in sql.tables
            /\ model.required \subseteq sql.predicates
            /\ \A f \in model.defaults :
                  /\ f.operator = "eq" /\ f.values \in {<<"true">>, <<"false">>}
                  /\ <<f.field, f.values>> \in sql.equalities

=============================================================================
