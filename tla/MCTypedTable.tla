---------------------------- MODULE MCTypedTable ----------------------------
(* A small instance of TypedTable for TLC: a table of an unsigned and of a  *)
(* signed column, and another table of the same type.                      *)
EXTENDS TypedTable

CONSTANTS a, b, f, d, none, s1, s2, unmade

Statements == {s1, s2}

MCTypeOf == [t \in {a, b} |-> "A"]
MCTypes  == <<"uint32", "int8">>
MCChoice == <<{1, 7}, {-2, 1}>>
MCCell   == {f, d}
MCCells  == [fixed |-> {f}, dynamic |-> {d}]
MCCellType == (f :> "uint32") @@ (d :> "int8")
MCCellChoice == (f :> {1, 7}) @@ (d :> {-2, 1})

fixed   == [param |-> "fixed", cell |-> f]
dynamic == [param |-> "dynamic", cell |-> d]
E == Comparison(Col(a, 1), "=", TRUE, fixed)
G == Comparison(Col(a, 2), "<", FALSE, dynamic)
N == Comparison(Col(a, 2), "=", TRUE, NullPtr)
F == Comparison(Col(b, 1), "=", TRUE, fixed)
C == [kind |-> "columns", left |-> Col(a, 1), right |-> Col(b, 1), op |-> "="]

Q(kind, columns, where, order, limit) ==
    [table |-> a, kind |-> kind, columns |-> columns, where |-> where, order |-> order,
     limit |-> limit]

Desc == descending(Col(a, 2), "")
One  == <<[limit |-> 1, offset |-> 0]>>

MCQueries ==
    (s1 :> {Q("insert", <<2, 1>>, <<>>, <<>>, <<>>), Q("insert", <<1>>, <<>>, <<>>, <<>>)})
    @@ (s2 :> {Q("update", <<2>>, <<E>>, Desc, One),
               Q("update", <<1>>, <<Logical(G, "OR", N)>>, <<>>, <<>>),
               Q("delete", <<>>, <<Logical(G, "AND", E)>>, <<>>, <<>>),
               Q("delete", <<>>, <<>>, Desc, One),
               Q("count", <<>>, <<G>>, <<>>, <<>>), Q("count", <<>>, <<F>>, <<>>, <<>>),
               Q("count", <<>>, <<C>>, <<>>, <<>>)})

ASSUME Comparable
=============================================================================
