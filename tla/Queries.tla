------------------------------- MODULE Queries -------------------------------
(***************************************************************************)
(* Building a sql::SelectQuery from a TypedTable or Join, compiling it and *)
(* binding its parameters.                                                 *)
(*                                                                         *)
(* Rows tells which rows SQLite returns for the text of the query with the *)
(* values in its parameters, Answer which rows the query means with the    *)
(* values that the program has bound: AnswersAsMeant compares the two.     *)
(* Where SQL leaves open the order of rows, or which row of a group gives  *)
(* a value, both take the order of the tables and the first row.  Failing  *)
(* binds and clearBindings are in ParameterBinding.                        *)
(*                                                                         *)
(* A definition Name_Fault is Name with one fault put in; no action uses   *)
(* it.  It shows that a property depends on Name.                          *)
(***************************************************************************)
EXTENDS Expressions

CONSTANTS Name,       \* per Table object, the names of its columns
          Contents,   \* the contents of the tables that are looked at
          Fixed,      \* cells of the values that are copied into expressions
          Dynamic,    \* cells that expressions point to
          Value,      \* the values in them
          JoinTypes, Filters, Selections, Groups, Havings, Orders, Limits, \* arguments of
          Unions,     \* the builder; pairs of an operator and a query
          MaxTables,  \* bound on the tables of a query
          MaxClauses  \* bound on its clauses, joins and unions

ASSUME NameAssumption == \A t \in Table : Name[t] \in Seq(STRING)

\* A copied value is not a variable of the program.
ASSUME CellAssumption == Cell = Fixed \cup Dynamic /\ Fixed \cap Dynamic = {}

ASSUME BoundsAssumption == MaxTables \in Nat \ {0} /\ MaxClauses \in Nat

VARIABLES
    data,      \* rows of each table
    memory,    \* content of each cell
    query,     \* the Join or SelectQuery that the program has built
    stage,     \* "join", "select" or "compiled"
    stmt,      \* text and filters of the compiled statement
    slots,     \* its parameters
    bound      \* history: per cell, the value that bind() has bound last

vars == <<data, memory, query, stage, stmt, slots, bound>>

-----------------------------------------------------------------------------
(* Queries.  One is the sequence of its SELECTs in the order of the text:  *)
(* its own, at depth 0, then the ones of the queries in its unions, each   *)
(* one deeper than the query it is united with and with the operator       *)
(* before it.                                                              *)

NoFilter == [kind |-> "none"]
Condition == Expr \cup {NoFilter}

Natural == {"NATURAL LEFT", "NATURAL RIGHT", "NATURAL FULL", "NATURAL INNER"}
JoinType == {"CROSS", "LEFT", "RIGHT", "FULL", "INNER"} \cup Natural
UnionOperator == {"UNION", "UNION ALL", "INTERSECT", "EXCEPT"}

JoinPart == [type : JoinType, table : Table, on : Condition, usings : Seq(Column)]

SelectPart ==
    [op : UnionOperator \cup {""}, depth : Nat, first : Table, joins : Seq(JoinPart),
     columns : Seq(Column), where : Condition, group : Seq(Column), having : Condition]

Query == [selects : Seq(SelectPart), order : Seq(OrderTerm),
          limit : Seq([limit : Nat, offset : Nat])]

SelectOf(t) == [op |-> "", depth |-> 0, first |-> t, joins |-> <<>>, columns |-> <<>>,
                where |-> NoFilter, group |-> <<>>, having |-> NoFilter]
Table1(t) == [selects |-> <<SelectOf(t)>>, order |-> <<>>, limit |-> <<>>]

Init ==
    /\ data \in Contents
    /\ memory \in [Fixed \cup Dynamic -> Value]
    /\ \E t \in Table : query = Table1(t)
    /\ stage = "join" /\ stmt = NoFilter /\ slots = <<>>
    /\ bound = [c \in Fixed \cup Dynamic |-> Null]

\* The filters of a SELECT: ON of its joins, WHERE and HAVING.
Conditions(s) ==
    [c \in 1 .. Len(s.joins) + 2 |->
        IF c <= Len(s.joins) THEN s.joins[c].on
        ELSE IF c = Len(s.joins) + 1 THEN s.where ELSE s.having]

\* The Table objects of a SELECT, and their types.
TablesOf(s) == {s.first} \cup {s.joins[k].table : k \in DOMAIN s.joins}
TypesIn(s)  == {TypeOf[t] : t \in TablesOf(s)}

\* The tables that the text of a filter names, and that of a SELECT.
NamedIn(e) == IF e = NoFilter THEN {} ELSE {c.table : c \in ColumnsOf(e)}

NamedBy(s) ==
    (UNION {NamedIn(Conditions(s)[c]) : c \in DOMAIN Conditions(s)})
    \cup {c.table : c \in ToSet(s.columns) \cup ToSet(s.group)}

-----------------------------------------------------------------------------
(* The builder.  A call that is refused changes nothing and has no action. *)

\* The SELECT that is being built.
Main == query.selects[1]

\* is_valid_filter_expression at compile time, containsTables at run time.
ValidFilter(e) == TypesOf(e) \subseteq TypesIn(Main) /\ containsTables(e, TablesOf(Main))

\* The same for columns, each by itself.
ValidColumns(cs) == \A k \in DOMAIN cs : cs[k].table \in TablesOf(Main)

Clauses(q) ==
    LET s        == q.selects[1]
        Count(t) == IF t = <<>> THEN 0 ELSE 1
        Given(e) == IF e = NoFilter THEN 0 ELSE 1
    IN  Given(s.where) + Count(s.group) + Given(s.having) + Count(q.order) + Count(q.limit)
        + Cardinality({k \in DOMAIN q.selects : q.selects[k].depth = 1}) + Len(s.joins)
        + Cardinality({k \in DOMAIN s.joins : s.joins[k].on # NoFilter \/ s.joins[k].usings # <<>>})

Builds(q) ==
    /\ Clauses(q) <= MaxClauses
    /\ query' = q
    /\ UNCHANGED <<data, memory, stmt, slots, bound>>

BuildsSelect(s) == Builds([query EXCEPT !.selects[1] = s])

JoinTable(type, t) ==
    /\ stage = "join" /\ Len(Main.joins) + 1 < MaxTables
    /\ LET j == [type |-> type, table |-> t, on |-> NoFilter, usings |-> <<>>]
       IN  BuildsSelect([Main EXCEPT !.joins = Append(@, j)])
    /\ UNCHANGED stage

\* The last join, which has no condition yet.
OpenJoin == /\ stage = "join" /\ Main.joins # <<>>
            /\ LET j == Main.joins[Len(Main.joins)]
               IN  j.type \notin Natural /\ j.on = NoFilter /\ j.usings = <<>>

On(e) ==
    /\ OpenJoin /\ ValidFilter(e)
    /\ BuildsSelect([Main EXCEPT !.joins[Len(Main.joins)].on = e])
    /\ UNCHANGED stage

\* Different columns, all of the type of the right table or all of the type of
\* the one just left of it.
Usings(cs) ==
    /\ OpenJoin /\ ValidColumns(cs)
    /\ IsInjective([k \in DOMAIN cs |-> <<TypeOf[cs[k].table], cs[k].index>>])
    /\ LET n == Len(Main.joins)
           left == IF n = 1 THEN Main.first ELSE Main.joins[n - 1].table
       IN  \E t \in {left, Main.joins[n].table} :
               \A k \in DOMAIN cs : TypeOf[cs[k].table] = TypeOf[t] /\ cs[k].func = "none"
    /\ BuildsSelect([Main EXCEPT !.joins[Len(Main.joins)].usings = cs])
    /\ UNCHANGED stage

\* select() and selectAs() of TypedTable and Join.
Select(cs) ==
    /\ stage = "join" /\ ValidColumns(cs)
    /\ BuildsSelect([Main EXCEPT !.columns = cs])
    /\ stage' = "select"

Where(e) ==
    /\ stage = "select" /\ Main.where = NoFilter /\ ValidFilter(e)
    /\ BuildsSelect([Main EXCEPT !.where = e])
    /\ UNCHANGED stage

GroupBy(cs) ==
    /\ stage = "select" /\ Main.group = <<>> /\ ValidColumns(cs)
    /\ BuildsSelect([Main EXCEPT !.group = cs])
    /\ UNCHANGED stage

Having(e) ==
    /\ stage = "select" /\ Main.group # <<>> /\ Main.having = NoFilter
    /\ ValidFilter(e)
    /\ BuildsSelect([Main EXCEPT !.having = e])
    /\ UNCHANGED stage

OrderBy(o) ==
    /\ stage = "select" /\ query.order = <<>>
    /\ OrderContainsTables(o, TablesOf(Main))
    /\ \A k \in DOMAIN o : TypeOf[o[k].col.table] \in TypesIn(Main)
    /\ Builds([query EXCEPT !.order = o])
    /\ UNCHANGED stage

LimitOffset(l) ==
    /\ stage = "select" /\ query.limit = <<>>
    /\ Builds([query EXCEPT !.limit = l])
    /\ UNCHANGED stage

\* The SELECTs of query q with operator op before it.
United(op, q) ==
    [k \in DOMAIN q.selects |->
        [q.selects[k] EXCEPT !.depth = @ + 1, !.op = IF k = 1 THEN op ELSE @]]

\* The other query has the same return type, no order and no limit.
Unite(u) ==
    /\ stage = "select"
    /\ Len(u.query.selects[1].columns) = Len(Main.columns)
    /\ u.query.order = <<>> /\ u.query.limit = <<>>
    /\ Builds([query EXCEPT !.selects = @ \o United(u.op, u.query)])
    /\ UNCHANGED stage

-----------------------------------------------------------------------------
(* Indices, filters and text.                                              *)

ParametersIn(e) == IF e = NoFilter THEN 0 ELSE Parameters(e)
Indexed(e, idx) == IF e = NoFilter THEN e ELSE generateIndices(e, idx)

\* The parameters of a SELECT, and those of its first n conditions.
ParametersBefore(s, n) == SumTo([c \in DOMAIN Conditions(s) |-> ParametersIn(Conditions(s)[c])], n)
SelectParameters(s)    == ParametersBefore(s, Len(s.joins) + 2)

\* The same for a query and its first n SELECTs.
ParametersUntil(q, n) == SumTo([k \in DOMAIN q.selects |-> SelectParameters(q.selects[k])], n)
QueryParameters(q)    == ParametersUntil(q, Len(q.selects))

\* SelectQuery::generateIndices: joins, where, having, unions.
NumberedSelect(s, idx) ==
    LET numbered(c) == Indexed(Conditions(s)[c], idx + ParametersBefore(s, c - 1))
        n           == Len(s.joins)
    IN  [s EXCEPT !.joins  = [c \in 1 .. n |-> [s.joins[c] EXCEPT !.on = numbered(c)]],
                  !.where  = numbered(n + 1),
                  !.having = numbered(n + 2)]

Numbered(q) ==
    [q EXCEPT !.selects = [k \in DOMAIN q.selects |->
                              NumberedSelect(q.selects[k], ParametersUntil(q, k - 1))]]

\* SelectQuery::getFilters, each with the place of its SELECT and its place there.
\* Those of the unions are folded with the comma operator, which yields the
\* ones of the last: a SELECT counts if all after it are deeper.
getFilters(q) ==
    LET path  == {k \in DOMAIN q.selects :
                     \A i \in DOMAIN q.selects : k < i => q.selects[k].depth < q.selects[i].depth}
        of(k) == {c \in DOMAIN Conditions(q.selects[k]) : Conditions(q.selects[k])[c] # NoFilter}
    IN  [p \in UNION {{k} \X of(k) : k \in path} |-> Conditions(q.selects[p[1]])[p[2]]]

ConditionText(e) == IF e = NoFilter THEN <<>> ELSE toString(e)

\* The text of a query is a chain of SELECTs with the operators before them:
\* a query of a union is written with its own unions and without parentheses.
SelectText(s) ==
    [op |-> s.op, first |-> s.first, columns |-> s.columns, group |-> s.group,
     joins  |-> [k \in DOMAIN s.joins |-> [s.joins[k] EXCEPT !.on = ConditionText(@)]],
     where  |-> ConditionText(s.where), having |-> ConditionText(s.having),
     tables |-> NamedBy(s), onTables |-> [k \in DOMAIN s.joins |-> NamedIn(s.joins[k].on)]]

Text(q) == [selects |-> [k \in DOMAIN q.selects |-> SelectText(q.selects[k])],
            order |-> q.order, limit |-> q.limit]

\* The arguments of the builder are about columns that there are, and operands
\* in their cells.
InCells(e) == \A x \in ComparisonsIn(e) : HasParameter(x) =>
                 x.cell \in IF x.param = "fixed" THEN Fixed ELSE Dynamic

ASSUME ArgumentsAssumption ==
    LET is(c) == c.index \in DOMAIN Name[c.table]
        conditions(q) == (UNION {ToSet(Conditions(s)) : s \in ToSet(q.selects)}) \ {NoFilter}
    IN  /\ JoinTypes \subseteq JoinType
        /\ \A e \in Filters \cup Havings : e \in Expr /\ InCells(e) /\ \A c \in ColumnsOf(e) : is(c)
        /\ \A s \in Selections \cup Groups : s \in Seq(Column) /\ \A c \in ToSet(s) : is(c)
        /\ \A s \in Orders : s \in Seq(OrderTerm) /\ \A o \in ToSet(s) : is(o.col)
        /\ \A s \in Limits : s \in Seq([limit : Nat, offset : Nat])
        /\ \A u \in Unions : /\ u.op \in UnionOperator
                             /\ u.query \in Query /\ u.query.selects # <<>>
                             /\ \A e \in conditions(u.query) : InCells(e)

-----------------------------------------------------------------------------
(* The rows of a SELECT.  True(condition, group) and LeftOf(q, k, name),   *)
(* the table that join k takes the column of that name from, are what the  *)
(* two readings disagree on if they do.                                    *)

NullRow(t)       == [i \in DOMAIN Name[t] |-> Null]
With(l, t, r)    == [u \in DOMAIN l \cup {t} |-> IF u = t THEN r ELSE l[u]]
IndexOf(t, name) == PlaceOf(Name[t], name)
Before(q, k)     == <<q.first>> \o [i \in 1 .. k - 1 |-> q.joins[i].table]

\* Every row of L with every row of table t.
Pairs(L, t) == FlattenSeq([i \in DOMAIN L |-> [j \in DOMAIN data[t] |-> <<L[i], data[t][j]>>]])

\* Joins the rows L of the tables T with table t; fit are the pairs that fit.
JoinRows(L, T, type, t, fit) ==
    LET lonely  == Kept(L, {i \in DOMAIN L : \A k \in DOMAIN fit : fit[k][1] # L[i]})
        lonelyR == Kept(data[t],
                        {i \in DOMAIN data[t] : \A k \in DOMAIN fit : fit[k][2] # data[t][i]})
    IN  [k \in DOMAIN fit |-> With(fit[k][1], t, fit[k][2])]
        \o (IF type \notin {"LEFT", "FULL", "NATURAL LEFT", "NATURAL FULL"} THEN <<>>
            ELSE [k \in DOMAIN lonely |-> With(lonely[k], t, NullRow(t))])
        \o (IF type \notin {"RIGHT", "FULL", "NATURAL RIGHT", "NATURAL FULL"} THEN <<>>
            ELSE [k \in DOMAIN lonelyR |-> With([u \in T |-> NullRow(u)], t, lonelyR[k])])

\* The names whose columns a join compares.
JoinNames(q, k) ==
    LET j == q.joins[k]
    IN  IF j.type \in Natural
        THEN ToSet(Name[j.table]) \cap UNION {ToSet(Name[t]) : t \in ToSet(Before(q, k))}
        ELSE {Name[c.table][c.index] : c \in ToSet(j.usings)}

\* The first table before join k that has a column of that name.
Leftmost(q, k, name) ==
    LET left == Before(q, k) IN left[SelectInSeq(left, LAMBDA t : name \in ToSet(Name[t]))]

\* Join k lets in that row.
Fits(q, k, row, True(_, _), LeftOf(_, _, _)) ==
    /\ True(q.joins[k].on, <<row>>)
    /\ \A n \in JoinNames(q, k) :
         LET l == LeftOf(q, k, n)
             r == q.joins[k].table
         IN  Compare(row[l][IndexOf(l, n)], "=", row[r][IndexOf(r, n)]) = 2

From(q, True(_, _), LeftOf(_, _, _)) ==
    LET joined[k \in 0 .. Len(q.joins)] ==
            IF k = 0 THEN [i \in DOMAIN data[q.first] |-> [t \in {q.first} |-> data[q.first][i]]]
            ELSE LET right == q.joins[k].table
                     pairs == Pairs(joined[k - 1], right)
                     fit   == {i \in DOMAIN pairs :
                                  Fits(q, k, With(pairs[i][1], right, pairs[i][2]), True, LeftOf)}
                 IN  JoinRows(joined[k - 1], ToSet(Before(q, k)), q.joins[k].type, right,
                              Kept(pairs, fit))
    IN  joined[Len(q.joins)]

\* The rows with the same values in group, all rows for an aggregate, or every
\* row by itself.
GroupsOf(rows, group, columns) ==
    LET key  == [i \in DOMAIN rows |-> [k \in DOMAIN group |-> ValueOf(group[k], <<rows[i]>>)]]
        keys == SetToSeq(ToSet(key))
    IN  IF group # <<>>
        THEN [k \in DOMAIN keys |-> Kept(rows, {i \in DOMAIN rows : key[i] = keys[k]})]
        ELSE IF \E c \in ToSet(columns) : c.func # "none" THEN <<rows>>
        ELSE [k \in DOMAIN rows |-> <<rows[k]>>]

SelectRows(q, True(_, _), LeftOf(_, _, _)) ==
    LET from   == From(q, True, LeftOf)
        rows   == Kept(from, {i \in DOMAIN from : True(q.where, <<from[i]>>)})
        groups == GroupsOf(rows, q.group, q.columns)
        kept   == Kept(groups, {k \in DOMAIN groups : True(q.having, groups[k])})
    IN  [k \in DOMAIN kept |-> [i \in DOMAIN q.columns |-> ValueOf(q.columns[i], kept[k])]]

Distinct(s) == FoldLeft(LAMBDA a, x : IF x \in ToSet(a) THEN a ELSE Append(a, x), <<>>, s)

\* The operators of a compound SELECT.
Combine(a, op, b) ==
    CASE op = "UNION ALL" -> a \o b
      [] op = "UNION"     -> Distinct(a \o b)
      [] op = "INTERSECT" -> Distinct(SelectSeq(a, LAMBDA x : x \in ToSet(b)))
      [] op = "EXCEPT"    -> Distinct(SelectSeq(a, LAMBDA x : x \notin ToSet(b)))

\* The answers of several SELECTs, combined from left to right.
Compound(answers, ops) ==
    LET so_far[k \in DOMAIN answers] ==
          IF k = 1 THEN answers[1] ELSE Combine(so_far[k - 1], ops[k], answers[k])
    IN  so_far[Len(answers)]

Sorted(rows, columns, order) ==
    SortedBy(rows, [i \in DOMAIN rows |-> [k \in DOMAIN order |->
                       rows[i][PlaceOf(columns, order[k].col)]]], order)

\* The rows of all SELECTs, ordered and limited.  A query without unions can
\* order by columns that it does not select.
Result(selects, order, limit, True(_, _), LeftOf(_, _, _)) ==
    LET shown   == Len(selects[1].columns)
        full    == IF Len(selects) > 1 THEN selects
                   ELSE <<[selects[1] EXCEPT
                              !.columns = @ \o [k \in DOMAIN order |-> order[k].col]]>>
        answers == [k \in DOMAIN full |-> SelectRows(full[k], True, LeftOf)]
        all     == Compound(answers, [k \in DOMAIN full |-> full[k].op])
        rows    == Limited(Sorted(all, full[1].columns, order), limit)
    IN  [i \in DOMAIN rows |-> SubSeq(rows[i], 1, shown)]

\* What SQLite answers: a name in USING or NATURAL is that of the first table
\* that has it, and a chain of SELECTs is read from left to right.
Rows(text) ==
    LET true(items, g) == items = <<>> \/ Sql(items, g, slots) = 2
    IN  Result(text.selects, text.order, text.limit, true, Leftmost)

\* What a query means whose unions have none of their own: usings() compares
\* with the table just left of the join.
Answer(q) ==
    LET true(e, g) == e = NoFilter \/ Holds(e, g, bound) = 2
        left(s, k, name) == IF s.joins[k].type \in Natural THEN Leftmost(s, k, name)
                            ELSE Last(Before(s, k))
    IN  Result(q.selects, q.order, q.limit, true, left)

-----------------------------------------------------------------------------
(* The compiled statement.                                                 *)

\* sqlite3_prepare_v2 refuses columns that are of no table of their SELECT or
\* of two, ON conditions about tables that are joined later, joins on columns
\* that are not there, and unions ordered by columns that they do not select.
\* (It takes such an ON of an INNER JOIN into WHERE; that is left out.)
Prepares(text) ==
    /\ Len(text.selects) > 1 =>
          {o.col : o \in ToSet(text.order)} \subseteq ToSet(text.selects[1].columns)
    /\ {o.col.table : o \in ToSet(text.order)} \subseteq TablesOf(text.selects[1])
    /\ \A s \in ToSet(text.selects) :
         LET tables == Before(s, Len(s.joins) + 1)
         IN  /\ IsInjective(tables)
             /\ s.tables \subseteq ToSet(tables)
             /\ \A k \in DOMAIN s.joins : s.onTables[k] \subseteq ToSet(Before(s, k + 1))
             /\ \A k \in DOMAIN s.joins : \A n \in JoinNames(s, k) :
                   /\ n \in ToSet(Name[s.joins[k].table])
                   /\ \E t \in ToSet(Before(s, k)) : n \in ToSet(Name[t])

\* compile(); compileOne() wraps its result.
Compile ==
    /\ stage = "select"
    /\ LET q == Numbered(query) IN
         /\ Prepares(Text(q))
         /\ stmt' = [text |-> Text(q), filters |-> getFilters(q)]
         /\ slots' = [n \in 1 .. QueryParameters(q) |-> Null]
    /\ stage' = "compiled"
    /\ UNCHANGED <<data, memory, query, bound>>

\* The program assigns to the variable behind a pointer.
Assign(c, v) ==
    /\ stage = "compiled"
    /\ memory' = [memory EXCEPT ![c] = v]
    /\ UNCHANGED <<data, query, stage, stmt, slots, bound>>

\* The filters with a comparison that b selects and whose parameter is n.
Binding(filters, b, n) ==
    {p \in DOMAIN filters : \E x \in ComparisonsIn(filters[p]) :
        HasParameter(x) /\ x.param \in BindParameters[b] /\ x.index + 1 = n}

\* FilterExpression::bind goes from filter to filter; the last one that binds a
\* parameter has its way.
BindAll(filters, b) ==
    [n \in DOMAIN slots |->
        LET by   == Binding(filters, b, n)
            last == CHOOSE p \in by : \A r \in by : r[1] < p[1] \/ (r[1] = p[1] /\ r[2] <= p[2])
        IN  IF by = {} THEN slots[n] ELSE bind(filters[last], b, slots, memory)[n]]

\* SelectStatement::bind.
Bind(b) ==
    /\ stage = "compiled"
    /\ slots' = BindAll(stmt.filters, b)
    /\ bound' = [c \in DOMAIN bound |->
                   IF (c \in Fixed /\ "fixed" \in BindParameters[b])
                      \/ (c \in Dynamic /\ "dynamic" \in BindParameters[b])
                   THEN memory[c] ELSE bound[c]]
    /\ UNCHANGED <<data, memory, query, stage, stmt>>

Next ==
    \/ /\ stage = "join"
       /\ \/ \E type \in JoinTypes, t \in Table : JoinTable(type, t)
          \/ \E e \in Filters : On(e)
          \/ \E cs \in Groups : Usings(cs)
          \/ \E cs \in Selections : Select(cs)
    \/ /\ stage = "select"
       /\ \/ \E e \in Filters : Where(e)
          \/ \E cs \in Groups : GroupBy(cs)
          \/ \E e \in Havings : Having(e)
          \/ \E o \in Orders : OrderBy(o)
          \/ \E l \in Limits : LimitOffset(l)
          \/ \E u \in Unions : Unite(u)
          \/ Compile
    \/ /\ stage = "compiled"
       /\ \/ \E c \in Dynamic, v \in Value : Assign(c, v)
          \/ \E b \in DOMAIN BindParameters : Bind(b)

Spec == Init /\ [][Next]_vars

-----------------------------------------------------------------------------
(* Properties.                                                             *)

\* Among them: every parameter holds NULL or the value of a cell.
TypeOK ==
    /\ data \in Contents
    /\ memory \in [Fixed \cup Dynamic -> Value]
    /\ query \in Query /\ query.selects # <<>> /\ Len(Main.joins) < MaxTables
    /\ stage \in {"join", "select", "compiled"}
    /\ slots \in Seq(Value \cup {Null})
    /\ bound \in [Fixed \cup Dynamic -> Value \cup {Null}]

\* The text and the filters say the same as the query: only the last query
\* in its unions has parameters, none has unions of its own, and usings()
\* names no column that a table further left has too.
Faithful(q) ==
    /\ \A k \in DOMAIN q.selects :
          /\ q.selects[k].depth <= 1
          /\ k \in 2 .. Len(q.selects) - 1 => SelectParameters(q.selects[k]) = 0
    /\ \A s \in ToSet(q.selects) : \A k \in DOMAIN s.joins : s.joins[k].usings # <<>> =>
          \A n \in JoinNames(s, k), t \in ToSet(Front(Before(s, k))) : n \notin ToSet(Name[t])

\* SQLite returns the rows that the query means, in its order: every parameter
\* is in its place and holds what was bound for it, connectives associate as
\* in the C++ expression, and each condition is in the clause and the join it
\* was given for.
AnswersAsMeant ==
    stage = "compiled" /\ Faithful(query) => Rows(stmt.text) = Answer(query)

ComparesColumns(e) == \E x \in ComparisonsIn(e) : x.kind = "columns"

\* A query mentions tables that it does not select from only in a comparison of
\* two columns or in one of several ORDER BY terms, where containsTables is
\* content with one: everything else is refused when it is built.
OnlyItsTables ==
    /\ \A e \in ToSet(Conditions(Main)) : e = NoFilter \/ ~ComparesColumns(e)
    /\ Len(query.order) < 2
    => NamedBy(Main) \cup {o.col.table : o \in ToSet(query.order)} \subseteq TablesOf(Main)
=============================================================================
