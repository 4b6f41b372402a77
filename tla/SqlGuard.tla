------------------------------ MODULE SqlGuard ------------------------------
(***************************************************************************)
(* The deterministic guard over SQL an agent wrote: one read-only          *)
(* statement over documented tables, numbered parameters that match, and a *)
(* bounded row limit on ranking questions.  A statement is the record of   *)
(* what the guard's patterns find in it and, in `reads`, of the tables it  *)
(* really reads.                                                           *)
(***************************************************************************)
EXTENDS Integers

CONSTANTS
    AllowedTables,        \* the tables of the schema catalog
    MaxRankingRows,       \* _MAX_RANKING_ROWS
    DefaultRankingRows,   \* _DEFAULT_RANKING_ROWS
    NoLimit               \* a statement or a request without a row count

ASSUME RankingAssumption ==
    /\ MaxRankingRows \in Nat
    /\ DefaultRankingRows \in 1..MaxRankingRows
    /\ NoLimit \notin Int

\* The pattern finds the one name after each FROM or JOIN, not the further items of a FROM
\* list, drops its schema, and takes every name that WITH defines for its own.
Referenced(sql) == sql.tables \ sql.ctes

\* validate_read_only_sql: `shape` is "select" for a single SELECT or WITH statement
\* free of comments, forbidden keywords and functions.
ReadOnly(sql) ==
    /\ sql.shape = "select"
    /\ Referenced(sql) # {}
    /\ Referenced(sql) \subseteq AllowedTables

\* validate_parameters: the placeholders are 1..n and every one has one parameter.
ValidParameters(sql) ==
    /\ \A p \in sql.placeholders : 1..p \subseteq sql.placeholders
    /\ sql.positions = sql.placeholders

\* Ranking terms in the router's interpreted request r or in the purpose of the task.
Ranks(r, task) == r.ranking \/ task.purpose

\* Mutant: a limit the agent wrote is kept although the request names another.
NormalizedMutant(sql, r, task) ==
    IF Ranks(r, task) /\ sql.ordered /\ sql.limit = NoLimit
    THEN [sql EXCEPT !.limit = IF r.requested = NoLimit THEN DefaultRankingRows ELSE r.requested]
    ELSE sql

\* _normalize_ranking_limit: with an ORDER BY the count of the interpreted request wins;
\* without one a last LIMIT within bounds stays and any other becomes the default.
Normalized(sql, r, task) ==
    IF ~Ranks(r, task) \/ ~sql.ordered THEN sql
    ELSE IF r.requested # NoLimit THEN [sql EXCEPT !.limit = r.requested]
    ELSE IF sql.limit # NoLimit /\ sql.limit \in 1..MaxRankingRows THEN sql
    ELSE [sql EXCEPT !.limit = DefaultRankingRows]

\* _validate_ranking_sql
ValidRanking(sql, r, task) ==
    Ranks(r, task) => sql.ordered /\ sql.limit # NoLimit /\ sql.limit \in 1..MaxRankingRows

=============================================================================
