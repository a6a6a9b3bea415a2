-------------------------- MODULE MCParameterBinding --------------------------
(* Small instances of ParameterBinding for TLC. *)
EXTENDS ParameterBinding

Clause(n) == BoundedSeq(Kind, n)

\* Selects over one or two tables, with at most one comparison in each of
\* JOIN, WHERE and HAVING and at most one query added by unions().
OneUnion ==
    [columns : {0}, join : Clause(1), where : Clause(1), having : Clause(1),
     unions : {<<>>} \cup {<<u>> : u \in Clause(1)}]

\* Inserts (no filter) and updates of up to two columns, with up to two
\* comparisons in the WHERE clause, and deletes and counts (no column).
Changes ==
    [columns : 0 .. 2, join : {<<>>}, where : Clause(2), having : {<<>>}, unions : {<<>>}]

SupportedQueries == OneUnion \cup Changes

\* Selects that unions() was applied to twice.
TwoUnions ==
    [columns : {0}, join : {<<>>}, where : Clause(1), having : {<<>>},
     unions : {<<u, v>> : u \in Clause(1), v \in Clause(1)}]
=============================================================================
