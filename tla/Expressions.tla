----------------------------- MODULE Expressions -----------------------------
(***************************************************************************)
(* Columns, aggregates and filter expressions: what can be built, which    *)
(* tables an expression mentions, the parameter that generateIndices gives *)
(* to each comparison, the SQL that toString writes and the value that     *)
(* bind puts into a parameter.  Then the two readings of a filter: Sql is  *)
(* how SQLite evaluates the text with its parameters, Holds what the       *)
(* program said with the C++ expression.  Last, ORDER BY and LIMIT.        *)
(*                                                                         *)
(* Truth values are 0 (false), 1 (unknown) and 2 (true).  A condition is   *)
(* evaluated on a group of rows; outside of HAVING the group is one row.   *)
(* SQL text is the sequence of its terms, connectives and parenthesised    *)
(* groups; names and spelling are left out.                                *)
(***************************************************************************)
EXTENDS SqlNull, Sequences, FiniteSets, SequencesExt

CONSTANTS TypeOf,    \* per Table object, the TypedTable type it is used with
          Cell,      \* where operands of filters have their values
          Matches,   \* pairs of a text and a LIKE pattern that it matches
          MaxDepth   \* bound on the nesting of && and ||

ASSUME DepthAssumption == MaxDepth \in Nat

Table == DOMAIN TypeOf

-----------------------------------------------------------------------------
(* Result expressions.                                                     *)

\* TypedTable::col<i>().
Col(t, i) == [table |-> t, index |-> i, func |-> "none", distinct |-> FALSE]

Aggregate(func, c, distinct) == [c EXCEPT !.func = func, !.distinct = distinct]
avg(c, distinct)   == Aggregate("AVG", c, distinct)
count(c, distinct) == Aggregate("COUNT", c, distinct)
max(c, distinct)   == Aggregate("MAX", c, distinct)
min(c, distinct)   == Aggregate("MIN", c, distinct)
sum(c, distinct)   == Aggregate("SUM", c, distinct)
total(c, distinct) == Aggregate("TOTAL", c, distinct)

Column == [table : Table, index : Nat, distinct : BOOLEAN,
           func : {"none", "AVG", "COUNT", "MAX", "MIN", "SUM", "TOTAL"}]

-----------------------------------------------------------------------------
(* Filter expressions.                                                     *)

\* An operand is a copied value ("fixed"), a pointer ("dynamic") or nullptr;
\* cell is where the value is.
Comparison(c, op, lhs, v) ==
    [kind |-> "value", col |-> c, op |-> op, lhs |-> lhs, param |-> v.param, cell |-> v.cell,
     index |-> -1]

NullPtr == [param |-> "nullptr", cell |-> Null]

\* operator== and operator!= of a result expression, on either side, with a
\* value, a pointer or nullptr.
EqualityComparisons(C, V) ==
    {Comparison(c, op, lhs, v) : c \in C, op \in {"=", "!="}, lhs \in BOOLEAN,
                                 v \in V \cup {NullPtr}}

\* operator< and operator>.
LessComparisons(C, V) ==
    {Comparison(c, op, lhs, v) : c \in C, op \in {"<", ">"}, lhs \in BOOLEAN, v \in V}

\* operator<= and operator>=.
LessOrEqualComparisons(C, V) ==
    {Comparison(c, op, lhs, v) : c \in C, op \in {"<=", ">="}, lhs \in BOOLEAN, v \in V}

\* The operators between two result expressions throw for a column and itself.
ColumnComparisons(L, R) ==
    {[kind |-> "columns", left |-> l, right |-> r, op |-> op] :
        l \in L, r \in R, op \in {"=", "!=", "<", ">", "<=", ">="}}
    \ {[kind |-> "columns", left |-> c, right |-> c, op |-> op] :
        c \in L \cap R, op \in {"=", "!=", "<", ">", "<=", ">="}}

\* like().
Likes(C, V) == {[Comparison(c, "LIKE", TRUE, v) EXCEPT !.kind = "like"] : c \in C, v \in V}

\* && and ||.
Logical(l, op, r) == [kind |-> "logical", left |-> l, right |-> r, op |-> op]

Operator == {"=", "!=", "<", ">", "<=", ">="}

\* The filters without && and ||, with any index; then all.
Simple ==
    [kind : {"value", "like"}, col : Column, op : Operator \cup {"LIKE"}, lhs : BOOLEAN,
     param : {"fixed", "dynamic"}, cell : Cell, index : Int]
    \cup [kind : {"value"}, col : Column, op : {"=", "!="}, lhs : BOOLEAN,
          param : {"nullptr"}, cell : {Null}, index : {-1}]
    \cup [kind : {"columns"}, left : Column, right : Column, op : Operator]

Nested[n \in Nat] ==
    IF n = 0 THEN Simple
    ELSE Nested[n - 1] \cup [kind : {"logical"}, left : Nested[n - 1], op : {"AND", "OR"},
                             right : Nested[n - 1]]

Expr == Nested[MaxDepth]

\* The comparisons that a filter connects.
ComparisonsIn(e) ==
    LET C[x \in Expr] == IF x.kind = "logical" THEN C[x.left] \cup C[x.right] ELSE {x} IN C[e]

ColumnsIn(x) == IF x.kind = "columns" THEN {x.left, x.right} ELSE {x.col}

\* Every column that a filter mentions.
ColumnsOf(e) == UNION {ColumnsIn(x) : x \in ComparisonsIn(e)}

\* The table types that is_valid_filter_expression looks at.
TypesOf(e) == {TypeOf[c.table] : c \in ColumnsOf(e)}

\* One side of a logical expression is enough.
containsTables_Either(e, T) ==
    \E x \in ComparisonsIn(e) : \E c \in ColumnsIn(x) : c.table \in T

\* Both sides of a logical expression, one column of a comparison.
containsTables(e, T) == \A x \in ComparisonsIn(e) : \E c \in ColumnsIn(x) : c.table \in T

-----------------------------------------------------------------------------
(* Parameters.                                                             *)

\* Only operands that are a value or a pointer have one.
HasParameter(x) == x.kind # "columns" /\ x.param # "nullptr"

Parameters(e) ==
    LET N[x \in Expr] == IF x.kind = "logical" THEN N[x.left] + N[x.right]
                         ELSE IF HasParameter(x) THEN 1 ELSE 0
    IN  N[e]

\* Both sides start with the same index.
generateIndices_Restarts(e, idx) ==
    LET G[x \in Expr] == IF x.kind = "logical"
                         THEN Logical(G[x.left], x.op, G[x.right])
                         ELSE IF HasParameter(x) THEN [x EXCEPT !.index = idx] ELSE x
    IN  G[e]

\* The expression with the indices of its parameters, which start with idx.
generateIndices(e, idx) ==
    LET G[x \in Expr] ==
          [n \in Nat |->
             IF x.kind = "logical"
             THEN Logical(G[x.left][n], x.op, G[x.right][n + Parameters(x.left)])
             ELSE IF HasParameter(x) THEN [x EXCEPT !.index = n] ELSE x]
    IN  G[e][idx]

\* BindParameters: the kinds that each value selects.
BindParameters ==
    [None |-> {}, Fixed |-> {"fixed"}, Dynamic |-> {"dynamic"}, All |-> {"fixed", "dynamic"}]

\* The address of the value instead of the value.
bind_Address(e, b, slots, memory) ==
    IF e.kind # "logical" /\ HasParameter(e) THEN [slots EXCEPT ![e.index + 1] = e.cell] ELSE slots

\* The values that the comparisons of e give to parameters, the right ones after
\* the left ones.
Bindings(e, b, memory) ==
    LET B[x \in Expr] ==
          IF x.kind = "logical"
          THEN [k \in DOMAIN B[x.left] \cup DOMAIN B[x.right] |->
                   IF k \in DOMAIN B[x.right] THEN B[x.right][k] ELSE B[x.left][k]]
          ELSE [k \in IF HasParameter(x) /\ x.param \in BindParameters[b] THEN {x.index + 1} ELSE {} |->
                   memory[x.cell]]
    IN  B[e]

\* slots after the comparisons of e that b selects were bound; parameter ?n is
\* slots[n], and a null pointer is a cell with Null in it.
bind(e, b, slots, memory) ==
    LET values == Bindings(e, b, memory)
    IN  [n \in DOMAIN slots |-> IF n \in DOMAIN values THEN values[n] ELSE slots[n]]

-----------------------------------------------------------------------------
(* Text.                                                                   *)

Slot(n) == [func |-> "?", index |-> n]
Term(l, op, r) == <<[op |-> op, left |-> l, right |-> r]>>
Connective(op) == <<[op |-> op]>>

ComparisonText(e) ==
    IF e.param = "nullptr"
    THEN Term(e.col, IF e.op = "=" THEN "IS NULL" ELSE "IS NOT NULL", e.col)
    ELSE IF e.lhs THEN Term(e.col, e.op, Slot(e.index + 1))
                  ELSE Term(Slot(e.index + 1), e.op, e.col)

\* Without the parentheses.
Parenthesised_Not(items) == items

Parenthesised(items) == <<[op |-> "()", items |-> items]>>

\* The text of a comparison, and of a filter.
SimpleText(x) == IF x.kind = "columns" THEN Term(x.left, x.op, x.right) ELSE ComparisonText(x)

toString(e) ==
    LET S[x \in Expr] ==
          IF x.kind = "logical" THEN Parenthesised(S[x.left] \o Connective(x.op) \o S[x.right])
          ELSE SimpleText(x)
    IN  S[e]

\* The texts that there are.
Item ==
    LET Operand == Column \cup [func : {"?"}, index : Int]
    IN  [op : Operator \cup {"LIKE", "IS NULL", "IS NOT NULL"}, left : Operand, right : Operand]
        \cup [op : {"AND", "OR"}]

NestedText[n \in Nat] ==
    Seq(IF n = 0 THEN Item ELSE Item \cup [op : {"()"}, items : NestedText[n - 1]])

SqlText == NestedText[MaxDepth]

-----------------------------------------------------------------------------
(* Values and truth.                                                       *)

Truth(b) == IF b THEN 2 ELSE 0
Smaller(x, y) == IF x < y THEN x ELSE y
Larger(x, y) == IF x < y THEN y ELSE x

Related(a, op, b) ==
    CASE op = "="    -> a = b
      [] op = "!="   -> a # b
      [] op = "<"    -> a < b
      [] op = ">"    -> a > b
      [] op = "<="   -> a <= b
      [] op = ">="   -> a >= b
      [] op = "LIKE" -> <<a, b>> \in Matches

Compare(a, op, b) ==
    IF op = "IS NULL" THEN Truth(a = Null)
    ELSE IF op = "IS NOT NULL" THEN Truth(a # Null)
    ELSE IF Null \in {a, b} THEN 1
    ELSE Truth(Related(a, op, b))

NotNull(s) == SelectSeq(s, LAMBDA v : v # Null)

\* An average is left as its sum and count.
AggregateOf(func, s) ==
    LET Sum == FoldSeq(LAMBDA x, y : x + y, 0, s)
    IN  IF func = "COUNT" THEN Len(s)
        ELSE IF func = "TOTAL" THEN Sum
        ELSE IF s = <<>> THEN Null
        ELSE CASE func = "SUM" -> Sum
               [] func = "AVG" -> <<Sum, Len(s)>>
               [] func = "MIN" -> CHOOSE x \in ToSet(s) : \A y \in ToSet(s) : x <= y
               [] func = "MAX" -> CHOOSE x \in ToSet(s) : \A y \in ToSet(s) : x >= y

\* A result expression on a group: a sequence of rows, each with a tuple of
\* values for every table.
ValueOf(r, group) ==
    LET all == [k \in DOMAIN group |-> group[k][r.table][r.index]]
    IN  IF r.func = "none" THEN IF group = <<>> THEN Null ELSE all[1]
        ELSE AggregateOf(r.func, IF r.distinct THEN SetToSeq(ToSet(NotNull(all))) ELSE NotNull(all))

\* SQLite's reading: OR binds weaker than AND, both weaker than a comparison.
Sql(items, group, slots) ==
    LET operand(o) == IF o.func = "?" THEN slots[o.index] ELSE ValueOf(o, group)
        V[t \in SqlText] ==
          LET operands == {k \in DOMAIN t : t[k].op \notin {"AND", "OR"}}
              truth(k) == IF t[k].op = "()" THEN V[t[k].items]
                          ELSE Compare(operand(t[k].left), t[k].op, operand(t[k].right))
              anded(k) == {j \in operands : \A i \in DOMAIN t : t[i].op = "OR" => (i < j <=> i < k)}
          IN  Max({Min({truth(j) : j \in anded(k)}) : k \in operands})
    IN  V[items]

\* The program's reading of a comparison, and of a filter; value gives what is
\* in the cells of the operands.
Agrees(x, group, value) ==
    IF x.kind = "columns" THEN Compare(ValueOf(x.left, group), x.op, ValueOf(x.right, group))
    ELSE IF x.param = "nullptr" THEN Truth((x.op = "=") <=> (ValueOf(x.col, group) = Null))
    ELSE IF x.lhs THEN Compare(ValueOf(x.col, group), x.op, value[x.cell])
    ELSE Compare(value[x.cell], x.op, ValueOf(x.col, group))

Holds(e, group, value) ==
    LET H[x \in Expr] ==
          IF x.kind = "logical"
          THEN IF x.op = "AND" THEN Smaller(H[x.left], H[x.right])
               ELSE Larger(H[x.left], H[x.right])
          ELSE Agrees(x, group, value)
    IN  H[e]

-----------------------------------------------------------------------------
(* ORDER BY and LIMIT.                                                     *)

\* nulls is "", "FIRST" or "LAST".
ascending(c, nulls)  == <<[col |-> c, order |-> "ASC", nulls |-> nulls]>>
descending(c, nulls) == <<[col |-> c, order |-> "DESC", nulls |-> nulls]>>

OrderTerm == [col : Column, order : {"ASC", "DESC"}, nulls : {"", "FIRST", "LAST"}]

\* operator+: the terms of l, then those of r.
Then(l, r) == l \o r

\* One of several terms is enough.
OrderContainsTables(o, T) == \E k \in DOMAIN o : o[k].col.table \in T

\* NULL comes before every value, or where NULLS FIRST and NULLS LAST say.
Precedes(x, y, o) ==
    IF x = Null THEN y # Null /\ (o.nulls = "FIRST" \/ (o.nulls = "" /\ o.order = "ASC"))
    ELSE IF y = Null THEN o.nulls = "LAST" \/ (o.nulls = "" /\ o.order = "DESC")
    ELSE IF o.order = "ASC" THEN x < y ELSE x > y

\* Item i comes before item j; key[i] is what the terms of order compare.
ComesBefore(i, j, key, order) ==
    \/ key[i] = key[j] /\ i < j
    \/ \E n \in DOMAIN order :
          /\ \A k \in 1 .. n - 1 : key[i][k] = key[j][k]
          /\ key[i][n] # key[j][n] /\ Precedes(key[i][n], key[j][n], order[n])

\* How many of the items S come before item j.
Rank(S, j, key, order) == Cardinality({i \in S : ComesBefore(i, j, key, order)})

SortedBy(items, key, order) ==
    [n \in DOMAIN items |->
        items[CHOOSE j \in DOMAIN items : Rank(DOMAIN items, j, key, order) = n - 1]]

\* A negative limit is none.
Limited(rows, limit) ==
    IF limit = <<>> THEN rows
    ELSE LET to == limit[1].offset + limit[1].limit
         IN  SubSeq(rows, limit[1].offset + 1,
                    IF limit[1].limit < 0 \/ to > Len(rows) THEN Len(rows) ELSE to)

\* The items S that LIMIT leaves.
Taken(S, key, order, limit) ==
    {j \in S : \A l \in ToSet(limit) :
        LET n == Rank(S, j, key, order)
        IN  n >= l.offset /\ (l.limit < 0 \/ n < l.offset + l.limit)}

-----------------------------------------------------------------------------
(* Sequences.                                                              *)

\* The sum of the first n numbers of s.
SumTo(s, n) == LET T[i \in Nat] == IF i = 0 THEN 0 ELSE T[i - 1] + s[i] IN T[n]

\* The first place of x in s, 0 if there is none.
PlaceOf(s, x) == SelectInSeq(s, LAMBDA y : y = x)

\* What s has at the places S.
Kept(s, S) ==
    LET K[n \in Nat] == IF n = 0 THEN <<>>
                        ELSE IF n \in S THEN Append(K[n - 1], s[n]) ELSE K[n - 1]
    IN  K[Len(s)]
=============================================================================
