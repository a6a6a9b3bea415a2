------------------------------ MODULE MCQueries ------------------------------
(* A small instance of Queries for TLC: two tables of one type and a third. *)
EXTENDS Queries

CONSTANTS a, b, c,    \* Table objects
          f, d,       \* a copied value and a variable that is pointed to
          none        \* SQL NULL

Types == [t \in {a, b, c} |-> IF t = a THEN "A" ELSE "B"]
Names == [t \in {a, b, c} |-> IF t = a THEN <<"x", "y">> ELSE <<"x", "z">>]

\* LIKE patterns: a text matches itself, and the pattern 2 matches all.
Like == {0, 1, 2} \X {2} \cup {<<v, v>> : v \in {0, 1}}

Data == {[t \in {a, b, c} |-> IF t = a THEN <<<<0, 1>>, <<1, none>>, <<1, 1>>>>
                              ELSE IF t = b THEN <<<<1, 0>>, <<2, 1>>>> ELSE <<<<none, 1>>, <<1, 0>>>>]}

MCFixed == {f}
MCDynamic == {d}
MCCell == {f, d}
fixed   == [param |-> "fixed", cell |-> f]
dynamic == [param |-> "dynamic", cell |-> d]
ax == Col(a, 1)   ay == Col(a, 2)
bx == Col(b, 1)   bz == Col(b, 2)   cz == Col(c, 2)

\* One comparison of each kind, and combinations of them.
E == Comparison(ax, "=", TRUE, fixed)
G == Comparison(ay, "<", FALSE, dynamic)
N == Comparison(ay, "!=", TRUE, NullPtr)
Z == Comparison(bz, "=", TRUE, dynamic)

OneFilters ==
    EqualityComparisons({ay}, {fixed}) \cup LessComparisons({ay}, {dynamic})
    \cup LessOrEqualComparisons({ay}, {fixed}) \cup Likes({ax}, {dynamic})
    \cup ColumnComparisons({ax}, {ax, bx}) \cup ColumnComparisons({bz}, {cz})

MCFilters ==
    {E, G, N, Z, Logical(Logical(E, "OR", G), "AND", N), Logical(E, "OR", Logical(G, "AND", N)),
     Logical(G, "AND", Logical(Z, "OR", E)), Logical(Z, "OR", Comparison(cz, "=", FALSE, fixed))}
    \cup {e \in OneFilters : e.op = "=" \/ e.kind = "like"}

MCHavings == {Comparison(count(ay, FALSE), ">", TRUE, fixed),
              Comparison(max(ay, TRUE), "<=", FALSE, dynamic)}

MCSelections == {<<ax, ay>>, <<bx, bz>>, <<ax, count(ay, TRUE)>>}
MCGroups == {<<ax>>, <<bx>>}

MCOrders == {Then(descending(ay, "FIRST"), ascending(ax, "")), ascending(cz, "")}
MCLimits == {<<[limit |-> 1, offset |-> 1]>>}

SelectFrom(t, e) == [SelectOf(t) EXCEPT !.columns = <<Col(t, 1), Col(t, 2)>>, !.where = e]
From1(s) == [selects |-> <<s>>, order |-> <<>>, limit |-> <<>>]
WithUnion(q, op, other) == [q EXCEPT !.selects = @ \o United(op, other)]
MCUnions ==
    {[op |-> "EXCEPT", query |-> From1(SelectFrom(b, NoFilter))],
     [op |-> "UNION", query |-> From1(SelectFrom(b, Z))],
     [op |-> "UNION ALL", query |-> WithUnion(From1(SelectFrom(c, NoFilter)), "INTERSECT",
                                              From1(SelectFrom(a, N)))]}
=============================================================================
