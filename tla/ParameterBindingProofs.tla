------------------------ MODULE ParameterBindingProofs ------------------------
(***************************************************************************)
(* Every parameter holds what the program bound to it, for every query     *)
(* with at most one query in its union: every number of comparisons in     *)
(* every clause, every number of columns and every value.  With more       *)
(* queries in the union the statement does not keep the filters of all of  *)
(* them (the run on TwoUnions), and the theorems do not hold.              *)
(***************************************************************************)
EXTENDS ParameterBinding, FiniteSetTheorems, TLAPS

OneUnionEach == \A q \in Queries : Len(q.unions) \in {0, 1}

-----------------------------------------------------------------------------
(* Comparisons and filters.                                                *)

LEMMA FlattenNone == FlattenSeq(<<>>) = <<>>
  BY DEF FlattenSeq

LEMMA FlattenOne ==
    ASSUME NEW s \in Seq(Expr), Len(s) = 1
    PROVE  FlattenSeq(s) = s[1]
<1> DEFINE Body(f) == [i \in 1 .. Len(s) |-> IF i = 1 THEN s[i] ELSE f[i - 1] \o s[i]]
           F == CHOOSE f : f = Body(f)
<1>1. FlattenSeq(s) = F[Len(s)]
  BY DEF FlattenSeq
<1>2. [i \in 1 .. Len(s) |-> s[i]] = Body([i \in 1 .. Len(s) |-> s[i]])
  OBVIOUS
<1>3. F = Body(F)
  BY <1>2
<1> QED
  BY <1>1, <1>3

\* What generateIndices counts is a finite sequence of comparisons, and the
\* statement keeps all of them.
LEMMA EveryComparisonKept ==
    ASSUME OneUnionEach, NEW q \in Queries
    PROVE  /\ Comparisons(q) \in Seq(Kind)
           /\ Filters(q) = DOMAIN Comparisons(q)
           /\ q.columns \in Nat
<1>1. /\ q.columns \in Nat /\ q.unions \in Seq(Expr) /\ OwnFilters(q) \in Seq(Kind)
      /\ Len(q.unions) \in {0, 1}
  <2>1. /\ q.columns \in Nat /\ q.unions \in Seq(Expr)
        /\ q.join \in Seq(Kind) /\ q.where \in Seq(Kind) /\ q.having \in Seq(Kind)
    BY QueriesAssumption DEF Expr
  <2>2. OwnFilters(q) \in Seq(Kind)
    BY <2>1 DEF OwnFilters
  <2>3. Len(q.unions) \in {0, 1}
    BY DEF OneUnionEach
  <2> QED
    BY <2>1, <2>2, <2>3
<1>2. CASE Len(q.unions) = 0
  <2>1. q.unions = <<>> /\ FlattenSeq(q.unions) = <<>>
    BY <1>1, <1>2, FlattenNone
  <2>2. Comparisons(q) = OwnFilters(q)
    BY <1>1, <2>1 DEF Comparisons
  <2>3. Filters(q) = DOMAIN OwnFilters(q)
    BY <2>1 DEF Filters, UnionFilters
  <2> QED
    BY <1>1, <2>2, <2>3
<1>3. CASE Len(q.unions) = 1
  <2> DEFINE u == q.unions[1]
  <2>1. u \in Seq(Kind) /\ q.unions # <<>> /\ Last(q.unions) = u
    <3>1. u \in Expr
      <4>1. 1 \in 1 .. Len(q.unions)
        BY <1>3
      <4> QED
        BY <1>1, <4>1
    <3>2. q.unions # <<>>
      <4>1. Len(<<>>) = 0 /\ 0 # 1
        OBVIOUS
      <4> QED
        BY <1>3, <4>1, Zenon
    <3>3. Last(q.unions) = u
      BY <1>3 DEF Last
    <3> QED
      BY <3>1, <3>2, <3>3 DEF Expr
  <2>2. Comparisons(q) = OwnFilters(q) \o u
    <3>1. FlattenSeq(q.unions) = u
      BY <1>1, <1>3, FlattenOne
    <3> QED
      BY <3>1 DEF Comparisons
  <2>3. /\ Comparisons(q) \in Seq(Kind)
        /\ Len(Comparisons(q)) = Len(OwnFilters(q)) + Len(u)
    BY <1>1, <2>1, <2>2
  <2>4. UnionFilters(q) = (Len(OwnFilters(q)) + 1) .. Len(Comparisons(q))
    BY <1>1, <2>1, <2>3 DEF UnionFilters
  <2>5. DOMAIN OwnFilters(q) = 1 .. Len(OwnFilters(q))
        /\ DOMAIN Comparisons(q) = 1 .. Len(Comparisons(q))
    BY <1>1, <2>3
  <2> QED
    BY <1>1, <2>1, <2>3, <2>4, <2>5 DEF Filters
<1> QED
  BY <1>1, <1>2, <1>3

-----------------------------------------------------------------------------
(* Indices.                                                                *)

LEMMA FiniteBefore ==
    ASSUME OneUnionEach, NEW q \in Queries, NEW k \in Nat
    PROVE  /\ IsFiniteSet(ParametersBefore(q, k))
           /\ Cardinality(ParametersBefore(q, k)) \in Nat
<1>1. Comparisons(q) \in Seq(Kind)
  BY EveryComparisonKept
<1>2. ParametersBefore(q, k) \in SUBSET (1 .. Len(Comparisons(q)))
  BY <1>1 DEF ParametersBefore
<1>3. IsFiniteSet(1 .. Len(Comparisons(q)))
  BY <1>1, FS_Interval
<1> QED
  BY <1>2, <1>3, FS_Subset, FS_CardinalityType

LEMMA IndexAfterColumns ==
    ASSUME OneUnionEach, NEW q \in Queries, NEW k \in Nat
    PROVE  Index(q, k) \in Nat /\ Index(q, k) >= q.columns
<1>1. q.columns \in Nat /\ Cardinality(ParametersBefore(q, k)) \in Nat
  BY EveryComparisonKept, FiniteBefore
<1>2. \A m, n \in Nat : m + n \in Nat /\ m + n >= m
  OBVIOUS
<1> QED
  BY <1>1, <1>2 DEF Index

\* Comparisons with a parameter get different indices, in their order, after
\* those of the column values.
LEMMA IndexGrows ==
    ASSUME OneUnionEach, NEW q \in Queries, NEW k \in Nat,
           NEW j \in DOMAIN Comparisons(q), HasParameter(Comparisons(q)[j]), j < k
    PROVE  Index(q, j) < Index(q, k)
<1> DEFINE before == ParametersBefore(q, j)
           after  == ParametersBefore(q, k)
<1>1. Comparisons(q) \in Seq(Kind) /\ q.columns \in Nat /\ j \in Nat
  BY EveryComparisonKept
<1>2. before \cup {j} \in SUBSET after /\ j \notin before
  BY <1>1 DEF ParametersBefore
<1>3. /\ IsFiniteSet(before) /\ Cardinality(before) \in Nat
      /\ IsFiniteSet(after) /\ Cardinality(after) \in Nat
  BY <1>1, FiniteBefore
<1>4. Cardinality(before \cup {j}) = Cardinality(before) + 1
  BY <1>2, <1>3, FS_AddElement
<1>5. Cardinality(before \cup {j}) <= Cardinality(after)
  BY <1>2, <1>3, FS_Subset
<1>6. Index(q, j) = q.columns + Cardinality(before)
      /\ Index(q, k) = q.columns + Cardinality(after)
  BY DEF Index
<1> HIDE DEF before, after
<1> QED
  BY <1>1, <1>3, <1>4, <1>5, <1>6

LEMMA IndexType ==
    ASSUME OneUnionEach, NEW q \in Queries
    PROVE  /\ SlotCount(q) \in Nat
           /\ q.columns <= SlotCount(q)
           /\ \A k \in DOMAIN Comparisons(q) :
                HasParameter(Comparisons(q)[k]) =>
                    Index(q, k) \in Slots(q) /\ Index(q, k) >= q.columns
<1>1. Comparisons(q) \in Seq(Kind) /\ q.columns \in Nat
      /\ Len(Comparisons(q)) + 1 \in Nat
  BY EveryComparisonKept
<1>2. \A k \in Nat : Index(q, k) \in Nat /\ Index(q, k) >= q.columns
  BY <1>1, IndexAfterColumns
<1>3. SlotCount(q) \in Nat /\ q.columns <= SlotCount(q)
  BY <1>1, <1>2 DEF SlotCount
<1>4. ASSUME NEW k \in DOMAIN Comparisons(q), HasParameter(Comparisons(q)[k])
      PROVE  Index(q, k) \in Slots(q) /\ Index(q, k) >= q.columns
  <2>1. k \in Nat /\ k < Len(Comparisons(q)) + 1
    BY <1>1
  <2>2. Index(q, k) < SlotCount(q)
    BY <1>1, <1>4, <2>1, IndexGrows DEF SlotCount
  <2> QED
    BY <1>2, <1>3, <2>1, <2>2 DEF Slots
<1> QED
  BY <1>3, <1>4

LEMMA IndexOwn ==
    ASSUME OneUnionEach, NEW q \in Queries,
           NEW j \in DOMAIN Comparisons(q), HasParameter(Comparisons(q)[j]),
           NEW k \in DOMAIN Comparisons(q), HasParameter(Comparisons(q)[k]),
           Index(q, j) = Index(q, k)
    PROVE  j = k
<1>1. Comparisons(q) \in Seq(Kind) /\ j \in Nat /\ k \in Nat
  BY EveryComparisonKept
<1>2. Index(q, j) \in Nat /\ Index(q, k) \in Nat
  BY <1>1, IndexAfterColumns
<1>3. ~(j < k) /\ ~(k < j)
  BY <1>1, <1>2, IndexGrows
<1> QED
  BY <1>1, <1>3

-----------------------------------------------------------------------------
(* Slots.                                                                  *)

Parameters == {k \in DOMAIN Comparisons(query) : HasParameter(Comparisons(query)[k])}

LEMMA MaxOfOne == \A n \in Nat : Max({n}) = n
<1> SUFFICES ASSUME NEW n \in Nat PROVE Max({n}) = n
  OBVIOUS
<1>1. \E x \in {n} : \A y \in {n} : x >= y
  OBVIOUS
<1> QED
  BY <1>1 DEF Max

\* A comparison that binds writes its own slot and no other.
LEMMA BoundByOwn ==
    ASSUME OneUnionEach, query \in Queries, NEW K \in SUBSET Parameters
    PROVE  /\ \A k \in K : BoundBy(K, Index(query, k)) = memory[k]
           /\ \A s : (\A k \in K : Index(query, k) # s) => BoundBy(K, s) = slots[s]
<1>1. ASSUME NEW k \in K
      PROVE  BoundBy(K, Index(query, k)) = memory[k]
  <2>1. {j \in K : Index(query, j) = Index(query, k)} = {k}
    BY IndexOwn DEF Parameters
  <2>2. k \in Nat
    BY EveryComparisonKept DEF Parameters
  <2> QED
    BY <2>1, <2>2, MaxOfOne DEF BoundBy
<1>2. ASSUME NEW s, \A k \in K : Index(query, k) # s
      PROVE  BoundBy(K, s) = slots[s]
  BY <1>2 DEF BoundBy
<1> QED
  BY <1>1, <1>2

LEMMA SelectedParameters ==
    ASSUME OneUnionEach, query \in Queries, NEW b \in DOMAIN BindParameters
    PROVE  Selected(b) = {k \in Parameters : Comparisons(query)[k] \in BindParameters[b]}
<1>1. \A kind \in BindParameters[b] : HasParameter(kind)
  BY DEF BindParameters, HasParameter
<1> QED
  BY <1>1, EveryComparisonKept DEF Selected, Parameters

-----------------------------------------------------------------------------
(* Types.                                                                  *)

LEMMA SlotsType ==
    ASSUME OneUnionEach, TypeOK, NEW K \in SUBSET Parameters
    PROVE  \A s \in Slots(query) : BoundBy(K, s) \in Content
<1> SUFFICES ASSUME NEW s \in Slots(query) PROVE BoundBy(K, s) \in Content
  OBVIOUS
<1>0. query \in Queries /\ K \subseteq DOMAIN memory
  BY DEF TypeOK, Parameters
<1>1. CASE \E k \in K : Index(query, k) = s
  BY <1>0, <1>1, BoundByOwn DEF TypeOK
<1>2. CASE \A k \in K : Index(query, k) # s
  BY <1>0, <1>2, BoundByOwn DEF TypeOK
<1> QED
  BY <1>1, <1>2

\* The slots of a query: those of the column values and those of its comparisons.
LEMMA SlotNumbers ==
    ASSUME OneUnionEach, NEW q \in Queries
    PROVE  /\ 0 .. q.columns - 1 \subseteq Slots(q)
           /\ \A s \in Slots(q) : s < q.columns => s \in 0 .. q.columns - 1
           /\ \A k \in DOMAIN Comparisons(q) :
                HasParameter(Comparisons(q)[k]) =>
                    Index(q, k) \in Slots(q) /\ Index(q, k) \notin 0 .. q.columns - 1
<1>1. q.columns \in Nat /\ SlotCount(q) \in Nat /\ q.columns <= SlotCount(q)
  BY IndexType, EveryComparisonKept
<1>2. 0 .. q.columns - 1 \subseteq Slots(q)
  BY <1>1 DEF Slots
<1>3. \A s \in Slots(q) : s < q.columns => s \in 0 .. q.columns - 1
  BY <1>1 DEF Slots
<1>4. ASSUME NEW k \in DOMAIN Comparisons(q), HasParameter(Comparisons(q)[k])
      PROVE  Index(q, k) \in Slots(q) /\ Index(q, k) \notin 0 .. q.columns - 1
  <2>1. Index(q, k) \in Slots(q) /\ Index(q, k) >= q.columns
    BY <1>4, IndexType
  <2>2. \A n \in Nat : n >= q.columns => n \notin 0 .. q.columns - 1
    BY <1>1
  <2>3. Index(q, k) \in Nat
    BY <1>1, <2>1 DEF Slots
  <2> QED
    BY <2>1, <2>2, <2>3
<1> QED
  BY <1>2, <1>3, <1>4

LEMMA TypeStep ==
    ASSUME OneUnionEach
    PROVE  TypeOK /\ [Next]_vars => TypeOK'
<1> SUFFICES ASSUME TypeOK, [Next]_vars PROVE TypeOK'
  OBVIOUS
<1>0. query \in Queries
  BY DEF TypeOK
<1>1. ASSUME NEW k \in DOMAIN memory, NEW v \in Content, Assign(k, v)
      PROVE  TypeOK'
  BY <1>1 DEF TypeOK, Assign
<1>2. ASSUME NEW b \in DOMAIN BindParameters, Bind(b)
      PROVE  TypeOK'
  <2>1. Selected(b) \in SUBSET Parameters
    BY <1>0, SelectedParameters
  <2>2. slots' \in [Slots(query) -> Content]
    BY <1>2, <2>1, SlotsType DEF Bind
  <2>3. meant' \in [DOMAIN Comparisons(query) -> Content \cup {Unknown}]
    BY <1>2 DEF Bind, TypeOK
  <2> QED
    BY <1>2, <2>2, <2>3 DEF Bind, TypeOK
<1>3. ASSUME NEW b \in DOMAIN BindParameters, NEW k \in DOMAIN memory, BindFails(b, k)
      PROVE  TypeOK'
  <2>1. {j \in Selected(b) : j < k} \in SUBSET Parameters /\ k \in Parameters
    BY <1>0, <1>3, SelectedParameters DEF BindFails
  <2>2. slots[Index(query, k)] \in Content
    BY <1>0, <2>1, SlotNumbers DEF TypeOK, Parameters
  <2>3. slots' \in [Slots(query) -> Content]
    BY <1>3, <2>1, <2>2, SlotsType DEF BindFails, Content
  <2>4. meant' \in [DOMAIN Comparisons(query) -> Content \cup {Unknown}]
    BY <1>3 DEF BindFails, TypeOK
  <2> QED
    BY <1>3, <2>3, <2>4 DEF BindFails, TypeOK
<1>4. ASSUME NEW values \in [0 .. query.columns - 1 -> Content],
             NEW failed \in SUBSET (0 .. query.columns - 1), CallWith(values, failed)
      PROVE  TypeOK'
  <2>1. \A s \in failed : slots[s] \in Content
    BY <1>0, SlotNumbers DEF TypeOK
  <2>2. \A s \in Slots(query) : s < query.columns => values[s] \in Content
    BY <1>0, SlotNumbers
  <2>3. slots' \in [Slots(query) -> Content]
    BY <1>4, <2>1, <2>2 DEF CallWith, TypeOK, Content
  <2>4. given' \in [0 .. query.columns - 1 -> Content \cup {Unknown}]
    BY <1>4 DEF CallWith, TypeOK
  <2> QED
    BY <1>4, <2>3, <2>4 DEF CallWith, TypeOK
<1>5. ASSUME ClearBindings
      PROVE  TypeOK'
  BY <1>5 DEF ClearBindings, TypeOK, Content
<1>6. CASE UNCHANGED vars
  BY <1>6 DEF vars, TypeOK
<1> QED
  BY <1>1, <1>2, <1>3, <1>4, <1>5, <1>6 DEF Next

\* The parameters of a statement are exactly those of its query.
THEOREM TypeCorrect ==
    ASSUME OneUnionEach
    PROVE  Spec => []TypeOK
<1>1. Init => TypeOK
  BY DEF Init, TypeOK, Content
<1> QED
  BY <1>1, TypeStep, PTL DEF Spec

-----------------------------------------------------------------------------
(* What was bound stays bound.                                             *)

LEMMA BoundStep ==
    ASSUME OneUnionEach
    PROVE  TypeOK /\ ParametersAsBound /\ [Next]_vars => ParametersAsBound'
<1> SUFFICES ASSUME TypeOK, ParametersAsBound, [Next]_vars,
                    NEW k \in DOMAIN meant', HasParameter(Comparisons(query')[k])
             PROVE  meant'[k] \in {Unknown, slots'[Index(query', k)]}
  BY DEF ParametersAsBound
<1> DEFINE s == Index(query, k)
<1>0. /\ query' = query /\ query \in Queries /\ DOMAIN meant' = DOMAIN Comparisons(query)
      /\ DOMAIN meant = DOMAIN Comparisons(query)
  BY DEF TypeOK, Next, vars, Assign, Bind, BindFails, CallWith, ClearBindings
<1>1. /\ k \in Parameters /\ s \in Slots(query) /\ s \notin 0 .. query.columns - 1
      /\ meant[k] \in {Unknown, slots[s]}
  BY <1>0, SlotNumbers DEF Parameters, ParametersAsBound
<1>2. \A j \in Parameters : Index(query, j) = s => j = k
  BY <1>0, <1>1, IndexOwn DEF Parameters
<1> HIDE DEF s
<1>3. ASSUME NEW b \in DOMAIN BindParameters, Bind(b)
      PROVE  meant'[k] \in {Unknown, slots'[s]}
  <2>1. slots'[s] = BoundBy(Selected(b), s) /\ Selected(b) \in SUBSET Parameters
    BY <1>0, <1>1, <1>3, SelectedParameters DEF Bind
  <2>2. CASE Comparisons(query)[k] \in BindParameters[b]
    <3>1. k \in Selected(b)
      BY <1>0, <1>1, <2>2, SelectedParameters
    <3>2. slots'[s] = memory[k]
      BY <1>0, <2>1, <3>1, BoundByOwn DEF s
    <3> QED
      BY <1>0, <1>3, <2>2, <3>2 DEF Bind
  <2>3. CASE Comparisons(query)[k] \notin BindParameters[b]
    <3>1. \A j \in Selected(b) : Index(query, j) # s
      BY <1>0, <1>2, <2>3, SelectedParameters
    <3>2. slots'[s] = slots[s]
      BY <1>0, <2>1, <3>1, BoundByOwn
    <3> QED
      BY <1>0, <1>1, <1>3, <2>3, <3>2 DEF Bind
  <2> QED
    BY <2>2, <2>3
<1>4. ASSUME NEW b \in DOMAIN BindParameters, NEW j \in DOMAIN memory, BindFails(b, j)
      PROVE  meant'[k] \in {Unknown, slots'[s]}
  <2>1. CASE Comparisons(query)[k] \in BindParameters[b]
    BY <1>0, <1>4, <2>1 DEF BindFails
  <2>2. CASE Comparisons(query)[k] \notin BindParameters[b]
    <3>1. \A m \in Selected(b) : Index(query, m) # s
      BY <1>0, <1>2, <2>2, SelectedParameters
    <3>2. s # Index(query, j) /\ {m \in Selected(b) : m < j} \in SUBSET Parameters
      BY <1>0, <1>4, <3>1, SelectedParameters DEF BindFails
    <3>3. slots'[s] = slots[s]
      BY <1>0, <1>1, <1>4, <3>1, <3>2, BoundByOwn DEF BindFails
    <3> QED
      BY <1>0, <1>1, <1>4, <2>2, <3>3 DEF BindFails
  <2> QED
    BY <2>1, <2>2
<1>5. ASSUME NEW values \in [0 .. query.columns - 1 -> Content],
             NEW failed \in SUBSET (0 .. query.columns - 1), CallWith(values, failed)
      PROVE  meant'[k] \in {Unknown, slots'[s]}
  <2>1. ~(s < query.columns)
    BY <1>0, <1>1, SlotNumbers
  <2>2. slots'[s] = slots[s] /\ meant' = meant
    BY <1>1, <1>5, <2>1 DEF CallWith
  <2> QED
    BY <1>1, <2>2
<1>6. ASSUME ClearBindings
      PROVE  meant'[k] \in {Unknown, slots'[s]}
  BY <1>0, <1>1, <1>6 DEF ClearBindings
<1>7. ASSUME UNCHANGED <<slots, meant>>
      PROVE  meant'[k] \in {Unknown, slots'[s]}
  BY <1>1, <1>7
<1> QED
  BY <1>0, <1>3, <1>4, <1>5, <1>6, <1>7 DEF Next, Assign, vars, s

\* Every parameter in the text of a statement holds the value that the program
\* bound to its comparison last, whatever else it binds, calls or clears.
THEOREM AsBound ==
    ASSUME OneUnionEach
    PROVE  Spec => []ParametersAsBound
<1>1. Init => ParametersAsBound
  <2> SUFFICES ASSUME Init, NEW k \in DOMAIN meant, HasParameter(Comparisons(query)[k])
               PROVE  meant[k] = slots[Index(query, k)]
    BY DEF ParametersAsBound
  <2>1. k \in DOMAIN Comparisons(query) /\ query \in Queries
    BY DEF Init
  <2> QED
    BY <2>1, SlotNumbers DEF Init
<1> QED
  BY <1>1, BoundStep, TypeCorrect, PTL DEF Spec

LEMMA GivenStep ==
    ASSUME OneUnionEach
    PROVE  TypeOK /\ ColumnsAsGiven /\ [Next]_vars => ColumnsAsGiven'
<1> SUFFICES ASSUME TypeOK, ColumnsAsGiven, [Next]_vars, NEW s \in DOMAIN given'
             PROVE  given'[s] \in {Unknown, slots'[s]}
  BY DEF ColumnsAsGiven
<1>0. /\ query' = query /\ query \in Queries /\ DOMAIN given' = 0 .. query.columns - 1
      /\ DOMAIN given = 0 .. query.columns - 1
  BY DEF TypeOK, Next, vars, Assign, Bind, BindFails, CallWith, ClearBindings
<1>1. s \in Slots(query) /\ given[s] \in {Unknown, slots[s]}
  BY <1>0, SlotNumbers DEF ColumnsAsGiven
<1>2. \A k \in Parameters : Index(query, k) # s
  BY <1>0, SlotNumbers DEF Parameters
<1>3. ASSUME NEW b \in DOMAIN BindParameters, Bind(b)
      PROVE  slots'[s] = slots[s] /\ given' = given
  <2>1. Selected(b) \in SUBSET Parameters
    BY <1>0, SelectedParameters
  <2> QED
    BY <1>0, <1>1, <1>2, <1>3, <2>1, BoundByOwn DEF Bind
<1>4. ASSUME NEW b \in DOMAIN BindParameters, NEW k \in DOMAIN memory, BindFails(b, k)
      PROVE  slots'[s] = slots[s] /\ given' = given
  <2>1. {j \in Selected(b) : j < k} \in SUBSET Parameters /\ k \in Parameters
    BY <1>0, <1>4, SelectedParameters DEF BindFails
  <2> QED
    BY <1>0, <1>1, <1>2, <1>4, <2>1, BoundByOwn DEF BindFails
<1>5. ASSUME NEW values \in [0 .. query.columns - 1 -> Content],
             NEW failed \in SUBSET (0 .. query.columns - 1), CallWith(values, failed)
      PROVE  given'[s] \in {Unknown, slots'[s]}
  <2>1. query.columns \in Nat /\ s < query.columns
    BY <1>0, EveryComparisonKept
  <2>2. CASE failed = {}
    BY <1>1, <1>5, <2>1, <2>2 DEF CallWith
  <2>3. CASE failed # {}
    BY <1>0, <1>5, <2>3 DEF CallWith
  <2> QED
    BY <2>2, <2>3
<1>6. ASSUME ClearBindings
      PROVE  given'[s] \in {Unknown, slots'[s]}
  BY <1>0, <1>1, <1>6 DEF ClearBindings
<1>7. ASSUME UNCHANGED <<slots, given>>
      PROVE  given'[s] \in {Unknown, slots'[s]}
  BY <1>1, <1>7
<1> QED
  BY <1>1, <1>3, <1>4, <1>5, <1>6, <1>7 DEF Next, Assign, vars

\* Binding the filters of an update never changes a column value of its last
\* call, and the other way round.
THEOREM AsGiven ==
    ASSUME OneUnionEach
    PROVE  Spec => []ColumnsAsGiven
<1>1. Init => ColumnsAsGiven
  <2> SUFFICES ASSUME Init, NEW s \in DOMAIN given
               PROVE  given[s] = slots[s]
    BY DEF ColumnsAsGiven
  <2>1. s \in 0 .. query.columns - 1 /\ query \in Queries
    BY DEF Init
  <2> QED
    BY <2>1, SlotNumbers DEF Init
<1> QED
  BY <1>1, GivenStep, TypeCorrect, PTL DEF Spec
=============================================================================
