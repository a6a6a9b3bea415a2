--------------------------- MODULE ParameterBinding ---------------------------
(***************************************************************************)
(* The parameters of a compiled query: the index that generateIndices      *)
(* gives to every comparison of its clauses, the filters that the compiled *)
(* statement keeps, and what bind(), a call with column values and         *)
(* clearBindings() write to the slots of the sqlite3_stmt.                 *)
(*                                                                         *)
(* Every filter expression is flattened to its comparisons: a logical      *)
(* expression numbers and binds its left side before its right side.  A    *)
(* comparison with nullptr or with another column is an "other": it has no *)
(* parameter.  Queries in a union have no union of their own here.         *)
(*                                                                         *)
(* A definition Name_Fault is Name with one fault put in; no action uses   *)
(* it.  It shows that a property depends on Name.                          *)
(***************************************************************************)
EXTENDS Naturals, Sequences, FiniteSets, SequencesExt

CONSTANTS Value,     \* what the program binds
          Null,      \* SQL NULL: an empty slot, or a null pointer bound
          Queries    \* the queries that are looked at

ASSUME NullAssumption == Null \notin Value

Kind == {"fixed", "dynamic", "other"}
Expr == Seq(Kind)

\* columns: number of column values of an insert or update, else 0;
\* unions: the filters of each query that unions() added, in order.
ASSUME QueriesAssumption ==
    \A q \in Queries :
        /\ q.columns \in Nat
        /\ {q.join, q.where, q.having} \subseteq Expr
        /\ q.unions \in Seq(Expr)

Content == Value \cup {Null}

\* BindParameters: the kinds of parameters that each of its values selects.
BindParameters ==
    [None |-> {}, Fixed |-> {"fixed"}, Dynamic |-> {"dynamic"}, All |-> {"fixed", "dynamic"}]

VARIABLES
    query,     \* the query that was compiled
    memory,    \* what the value or pointer of each comparison refers to
    slots,     \* parameters of the sqlite3_stmt, from the first bind index on
    \* History, read by the properties only.
    meant,     \* per comparison, the value the program knows to be bound
    given      \* per column value, the value the program knows to be bound

vars == <<query, memory, slots, meant, given>>

\* The program was told that binding failed: any value may be in the slot.
Unknown == [unknown |-> TRUE]

-----------------------------------------------------------------------------
(* Indices and filters.                                                    *)

OwnFilters(q) == q.join \o q.where \o q.having
Comparisons(q) == OwnFilters(q) \o FlattenSeq(q.unions)

HasParameter(kind) == kind # "other"

ParametersBefore(q, k) ==
    {j \in DOMAIN Comparisons(q) : j < k /\ HasParameter(Comparisons(q)[j])}

\* generateIndices starts after the column values and counts on in the order
\* of the clauses.
Index(q, k) == q.columns + Cardinality(ParametersBefore(q, k))

SlotCount(q) == Index(q, Len(Comparisons(q)) + 1)
Slots(q)     == 0 .. SlotCount(q) - 1

\* Union::getFilters folds the filters of its queries with the comma
\* operator, which yields those of the last one.
UnionFilters(q) ==
    IF q.unions = <<>>
    THEN {}
    ELSE (Len(Comparisons(q)) - Len(Last(q.unions)) + 1) .. Len(Comparisons(q))

\* Leaves the HAVING clause out.
Filters_NoHaving(q) == DOMAIN (q.join \o q.where) \cup UnionFilters(q)

\* SelectQuery::getFilters: the comparisons that the statement can bind.
Filters(q) == DOMAIN OwnFilters(q) \cup UnionFilters(q)

-----------------------------------------------------------------------------
Init ==
    /\ query \in Queries
    /\ memory \in {m \in [DOMAIN Comparisons(query) -> Content] :
                     \A k \in DOMAIN m : ~HasParameter(Comparisons(query)[k]) => m[k] = Null}
    /\ slots = [s \in Slots(query) |-> Null]
    /\ meant = [k \in DOMAIN Comparisons(query) |-> Null]
    /\ given = [s \in 0 .. query.columns - 1 |-> Null]

\* The program assigns to the variable behind a dynamic parameter.
Assign(k, v) ==
    /\ Comparisons(query)[k] = "dynamic"
    /\ memory' = [memory EXCEPT ![k] = v]
    /\ UNCHANGED <<query, slots, meant, given>>

\* The comparisons of the filter expression that bind something.
Selected(b) ==
    {k \in Filters(query) : Comparisons(query)[k] \in BindParameters[b]}

\* The bind index is one too low.
BoundBy_OneLow(K, s) ==
    LET writers == {k \in K : Index(query, k) = s + 1}
    IN  IF writers = {} THEN slots[s] ELSE memory[Max(writers)]

\* What is in slot s after the comparisons K have bound their values in order.
BoundBy(K, s) ==
    LET writers == {k \in K : Index(query, k) = s}
    IN  IF writers = {} THEN slots[s] ELSE memory[Max(writers)]

\* bind() on a SelectStatement, UpdateStatement, DeleteStatement or
\* CountStatement.
Bind(b) ==
    /\ slots' = [s \in Slots(query) |-> BoundBy(Selected(b), s)]
    /\ meant' = [k \in DOMAIN meant |->
                    IF Comparisons(query)[k] \in BindParameters[b] THEN memory[k] ELSE meant[k]]
    /\ UNCHANGED <<query, memory, given>>

\* Comparison k cannot be bound (SQLITE_TOOBIG, SQLITE_NOMEM) and bind()
\* throws: the comparisons before it are bound, its own slot may be emptied.
BindFails(b, k) ==
    /\ k \in Selected(b)
    /\ \E rest \in {slots[Index(query, k)], Null} :
        slots' = [s \in Slots(query) |->
                    IF s = Index(query, k) THEN rest
                    ELSE BoundBy({j \in Selected(b) : j < k}, s)]
    /\ meant' = [j \in DOMAIN meant |->
                    IF Comparisons(query)[j] \in BindParameters[b] THEN Unknown ELSE meant[j]]
    /\ UNCHANGED <<query, memory, given>>

\* A call of an InsertStatement or UpdateStatement with column values: the
\* variadic Statement::bind goes on after a value that cannot be bound, and
\* the call throws before it steps if there was one.
CallWith(values, failed) ==
    /\ query.columns > 0
    /\ \E rest \in {Null} \cup {slots[s] : s \in failed} :
        slots' = [s \in Slots(query) |-> IF s \in failed THEN rest
                                         ELSE IF s < query.columns THEN values[s]
                                         ELSE slots[s]]
    /\ given' = IF failed = {} THEN values ELSE [s \in DOMAIN given |-> Unknown]
    /\ UNCHANGED <<query, memory, meant>>

\* Clears the column values only.
ClearBindings_Columns ==
    /\ slots' = [s \in DOMAIN given |-> Null]
    /\ meant' = [k \in DOMAIN meant |-> Null]
    /\ given' = [s \in DOMAIN given |-> Null]
    /\ UNCHANGED <<query, memory>>

ClearBindings ==
    /\ slots' = [s \in Slots(query) |-> Null]
    /\ meant' = [k \in DOMAIN meant |-> Null]
    /\ given' = [s \in DOMAIN given |-> Null]
    /\ UNCHANGED <<query, memory>>

Next ==
    \/ \E k \in DOMAIN memory, v \in Content : Assign(k, v)
    \/ \E b \in DOMAIN BindParameters : Bind(b) \/ \E k \in DOMAIN memory : BindFails(b, k)
    \/ \E values \in [0 .. query.columns - 1 -> Content],
          failed \in SUBSET (0 .. query.columns - 1) : CallWith(values, failed)
    \/ ClearBindings

Spec == Init /\ [][Next]_vars

-----------------------------------------------------------------------------
(* Properties.                                                             *)

TypeOK ==
    /\ query \in Queries
    /\ memory \in [DOMAIN Comparisons(query) -> Content]
    /\ slots \in [Slots(query) -> Content]
    /\ meant \in [DOMAIN Comparisons(query) -> Content \cup {Unknown}]
    /\ given \in [0 .. query.columns - 1 -> Content \cup {Unknown}]

\* Every parameter in the text of the statement (?n, with n the index of its
\* comparison plus one) holds what the program bound to it last: BindParameters
\* selects exactly the kinds it names, and no other bind, column value or
\* failed bind gets into the slot of a comparison.
ParametersAsBound ==
    \A k \in DOMAIN meant :
        HasParameter(Comparisons(query)[k]) =>
            meant[k] \in {Unknown, slots[Index(query, k)]}

\* The column values of the last call that went through stay in their slots:
\* binding a filter never changes a value that an update wrote.
ColumnsAsGiven ==
    \A s \in DOMAIN given : given[s] \in {Unknown, slots[s]}
=============================================================================
