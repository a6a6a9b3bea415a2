---------------------------- MODULE QueriesProofs ----------------------------
(***************************************************************************)
(* Queries of any shape: what the builder lets in, and that a compiled     *)
(* query whose parameters were bound any number of times answers what the  *)
(* query means.                                                            *)
(***************************************************************************)
EXTENDS Queries, ExpressionsProofs

-----------------------------------------------------------------------------
(* What the builder lets in.                                               *)

CondsOf(s) == {s.joins[k].on : k \in DOMAIN s.joins} \cup {s.where, s.having}

\* The query has a first SELECT at depth 0, and deeper ones after it.
Shape ==
    /\ query \in Query /\ query.selects # <<>> /\ Len(Main.joins) < MaxTables
    /\ Main.depth = 0
    /\ \A k \in 2 .. Len(query.selects) : query.selects[k].depth # 0

\* Operands are in their cells.
OperandsInCells ==
    \A k \in DOMAIN query.selects : \A e \in CondsOf(query.selects[k]) : e = NoFilter \/ InCells(e)

\* Each clause has passed its check.
Checked ==
    LET T == TablesOf(Main)
    IN  /\ \A e \in CondsOf(Main) : e = NoFilter \/ containsTables(e, T)
        /\ \A c \in ToSet(Main.columns) \cup ToSet(Main.group) : c.table \in T
        /\ query.order = <<>> \/ OrderContainsTables(query.order, T)

Memory ==
    /\ data \in Contents
    /\ memory \in [Fixed \cup Dynamic -> Value]
    /\ stage \in {"join", "select", "compiled"}

Built == Shape /\ OperandsInCells /\ Checked /\ Memory

LEMMA ConditionsAre ==
    ASSUME NEW s, Len(s.joins) \in Nat, DOMAIN s.joins = 1 .. Len(s.joins)
    PROVE  /\ DOMAIN Conditions(s) = 1 .. Len(s.joins) + 2
           /\ \A c \in DOMAIN Conditions(s) : Conditions(s)[c] \in CondsOf(s)
           /\ ToSet(Conditions(s)) = CondsOf(s)
<1> DEFINE n == Len(s.joins)
<1>1. DOMAIN Conditions(s) = 1 .. n + 2
  BY DEF Conditions
<1>2. \A c \in 1 .. n + 2 : Conditions(s)[c] = IF c <= n THEN s.joins[c].on
                                              ELSE IF c = n + 1 THEN s.where ELSE s.having
  BY DEF Conditions
<1> HIDE DEF n
<1>3. \A c \in 1 .. n : c \in 1 .. n + 2 /\ c <= n
  BY DEF n
<1>4. \A c \in 1 .. n : Conditions(s)[c] = s.joins[c].on
  BY <1>2, <1>3
<1>5. Conditions(s)[n + 1] = s.where /\ Conditions(s)[n + 2] = s.having
      /\ n + 1 \in 1 .. n + 2 /\ n + 2 \in 1 .. n + 2
  BY <1>2 DEF n
<1>6. \A c \in 1 .. n + 2 : c \in 1 .. n \/ c = n + 1 \/ c = n + 2
  BY DEF n
<1>7. \A c \in DOMAIN Conditions(s) : Conditions(s)[c] \in CondsOf(s)
  BY <1>1, <1>4, <1>5, <1>6 DEF CondsOf, n
<1>8. ToSet(Conditions(s)) = {Conditions(s)[c] : c \in DOMAIN Conditions(s)}
  BY DEF ToSet
<1>9. CondsOf(s) \subseteq {Conditions(s)[c] : c \in DOMAIN Conditions(s)}
  BY <1>1, <1>3, <1>4, <1>5 DEF CondsOf, n
<1> QED
  BY <1>1, <1>7, <1>8, <1>9 DEF n

LEMMA SelectPartShape ==
    ASSUME NEW s \in SelectPart
    PROVE  /\ Len(s.joins) \in Nat /\ DOMAIN s.joins = 1 .. Len(s.joins)
           /\ \A k \in DOMAIN s.joins : s.joins[k] \in JoinPart
           /\ CondsOf(s) \subseteq Condition
<1>1. s.joins \in Seq(JoinPart) /\ s.where \in Condition /\ s.having \in Condition
  BY DEF SelectPart
<1>2. Len(s.joins) \in Nat /\ DOMAIN s.joins = 1 .. Len(s.joins)
      /\ \A k \in DOMAIN s.joins : s.joins[k] \in JoinPart
  BY <1>1
<1>3. \A j \in JoinPart : j.on \in Condition
  BY DEF JoinPart
<1> QED
  BY <1>1, <1>2, <1>3 DEF CondsOf

LEMMA ContainsMore ==
    ASSUME NEW e, NEW T, NEW U, T \subseteq U, containsTables(e, T)
    PROVE  containsTables(e, U)
BY DEF containsTables

\* A query with other SELECTs.
LEMMA OtherSelects ==
    ASSUME NEW q \in Query, NEW t
    PROVE  [q EXCEPT !.selects = t] = [selects |-> t, order |-> q.order, limit |-> q.limit]
BY DEF Query

\* A call of the builder that changes the first SELECT.
LEMMA BuildsSelectKeeps ==
    ASSUME Built, NEW s \in SelectPart, BuildsSelect(s), stage' \in {"join", "select"},
           s.depth = 0, Len(s.joins) < MaxTables, TablesOf(Main) \subseteq TablesOf(s),
           \A e \in CondsOf(s) : \/ e \in CondsOf(Main) \/ e = NoFilter
                                 \/ containsTables(e, TablesOf(s)) /\ InCells(e),
           \A c \in ToSet(s.columns) \cup ToSet(s.group) : c.table \in TablesOf(s)
    PROVE  Built'
<1> DEFINE q == [query EXCEPT !.selects[1] = s]
<1>1. /\ query' = q /\ UNCHANGED <<data, memory, stmt, slots, bound>>
  BY DEF BuildsSelect, Builds
<1>2. /\ query.selects \in Seq(SelectPart) /\ Len(query.selects) \in Nat \ {0}
      /\ query.order \in Seq(OrderTerm) /\ query.limit \in Seq([limit : Nat, offset : Nat])
      /\ query = [selects |-> query.selects, order |-> query.order, limit |-> query.limit]
  BY DEF Built, Shape, Query
<1>3. q = [selects |-> [query.selects EXCEPT ![1] = s], order |-> query.order, limit |-> query.limit]
  <2> DEFINE t == [query.selects EXCEPT ![1] = s]
  <2>1. q = [query EXCEPT !.selects = t]
    OBVIOUS
  <2> HIDE DEF t, q
  <2> QED BY <2>1, OtherSelects DEF Built, Shape, t
<1>4. /\ q.selects = [query.selects EXCEPT ![1] = s] /\ q.order = query.order
      /\ q \in Query
  BY <1>2, <1>3 DEF Query
<1>5. /\ DOMAIN q.selects = DOMAIN query.selects /\ Len(q.selects) = Len(query.selects)
      /\ q.selects[1] = s /\ \A k \in DOMAIN query.selects : k # 1 => q.selects[k] = query.selects[k]
      /\ DOMAIN query.selects = 1 .. Len(query.selects)
  BY <1>2, <1>4
<1>6. query'.selects[1] = s /\ Main' = s
  BY <1>1, <1>5 DEF Main
<1> HIDE DEF q
<1>7. Shape'
  <2>1. Len(query.selects) = Len(q.selects) /\ q.selects # <<>>
    BY <1>2, <1>4, <1>5
  <2>2. ASSUME NEW k \in 2 .. Len(q.selects) PROVE q.selects[k].depth # 0
    <3>1. k \in 2 .. Len(query.selects) /\ k \in DOMAIN query.selects /\ k # 1
      BY <1>2, <1>5
    <3> QED BY <1>5, <3>1 DEF Built, Shape
  <2>3. query' = q /\ q \in Query /\ Len(s.joins) < MaxTables /\ s.depth = 0
    BY <1>1, <1>4
  <2> QED BY <1>6, <2>1, <2>2, <2>3 DEF Shape
<1>8. OperandsInCells'
  <2>1. ASSUME NEW k \in DOMAIN q.selects, NEW e \in CondsOf(q.selects[k])
        PROVE  e = NoFilter \/ InCells(e)
    BY <1>2, <1>5 DEF Built, OperandsInCells, Main
  <2> QED BY <1>1, <2>1 DEF OperandsInCells, CondsOf, InCells
<1>9. Checked'
  <2>1. \A e \in CondsOf(s) : e = NoFilter \/ containsTables(e, TablesOf(s))
    BY ContainsMore DEF Built, Checked
  <2>2. query.order = <<>> \/ OrderContainsTables(query.order, TablesOf(s))
    BY DEF Built, Checked, OrderContainsTables
  <2> QED BY <1>1, <1>4, <1>6, <2>1, <2>2 DEF Checked
<1>10. Memory'
  BY <1>1 DEF Built, Memory
<1> QED
  BY <1>7, <1>8, <1>9, <1>10 DEF Built

\* The arguments of the builder.
LEMMA Arguments ==
    /\ JoinTypes \subseteq JoinType
    /\ \A e \in Filters \cup Havings : e \in Expr /\ InCells(e)
    /\ \A cs \in Selections \cup Groups : cs \in Seq(Column)
    /\ \A o \in Orders : o \in Seq(OrderTerm)
    /\ \A l \in Limits : l \in Seq([limit : Nat, offset : Nat])
    /\ \A u \in Unions : u.op \in UnionOperator /\ u.query \in Query /\ u.query.selects # <<>>
BY ArgumentsAssumption

LEMMA MainShape ==
    ASSUME Built
    PROVE  /\ Main \in SelectPart /\ Main.depth = 0
           /\ Len(Main.joins) \in Nat /\ DOMAIN Main.joins = 1 .. Len(Main.joins)
           /\ \A k \in DOMAIN Main.joins : Main.joins[k] \in JoinPart
           /\ Main.joins \in Seq(JoinPart) /\ Main.where \in Condition /\ Main.having \in Condition
           /\ query.selects \in Seq(SelectPart) /\ Len(query.selects) \in Nat \ {0}
<1>1. query.selects \in Seq(SelectPart) /\ query.selects # <<>>
  BY DEF Built, Shape, Query
<1>2. Len(query.selects) \in Nat \ {0} /\ Main \in SelectPart
  BY <1>1 DEF Main
<1>3. Main.joins \in Seq(JoinPart) /\ Main.where \in Condition /\ Main.having \in Condition
  BY <1>2 DEF SelectPart
<1> QED
  BY <1>1, <1>2, <1>3, SelectPartShape DEF Built, Shape

\* A filter that has passed its check.
Passed(e, T) == e \in Expr /\ containsTables(e, T) /\ InCells(e)

\* A clause of the SELECT is given, or its columns.
LEMMA ClauseKeeps ==
    ASSUME Built, NEW s \in SelectPart, BuildsSelect(s), stage' \in {"join", "select"},
           s.depth = Main.depth, s.first = Main.first, s.joins = Main.joins,
           s.where = Main.where \/ Passed(s.where, TablesOf(Main)),
           s.having = Main.having \/ Passed(s.having, TablesOf(Main)),
           s.columns = Main.columns \/ ValidColumns(s.columns),
           s.group = Main.group \/ ValidColumns(s.group)
    PROVE  Built'
<1>1. TablesOf(s) = TablesOf(Main)
  BY DEF TablesOf
<1>2. \A e \in CondsOf(s) : \/ e \in CondsOf(Main) \/ e = NoFilter
                            \/ containsTables(e, TablesOf(s)) /\ InCells(e)
  BY <1>1 DEF CondsOf, Passed
<1>3. \A cs : ValidColumns(cs) => \A c \in ToSet(cs) : c.table \in TablesOf(Main)
  BY DEF ValidColumns, ToSet
<1>4. \A c \in ToSet(s.columns) \cup ToSet(s.group) : c.table \in TablesOf(s)
  BY <1>1, <1>3 DEF Built, Checked
<1>5. s.depth = 0 /\ Len(s.joins) < MaxTables
  BY DEF Built, Shape
<1> QED
  BY <1>1, <1>2, <1>4, <1>5, BuildsSelectKeeps

LEMMA SelectKeeps ==
    ASSUME Built, NEW cs \in Selections, Select(cs)
    PROVE  Built'
<1> DEFINE s == [Main EXCEPT !.columns = cs]
<1>1. cs \in Seq(Column) /\ ValidColumns(cs) /\ BuildsSelect(s) /\ stage' = "select"
  BY Arguments DEF Select
<1>2. /\ s \in SelectPart /\ s.depth = Main.depth /\ s.first = Main.first /\ s.joins = Main.joins
      /\ s.where = Main.where /\ s.having = Main.having /\ s.group = Main.group /\ s.columns = cs
  BY <1>1, MainShape DEF SelectPart
<1> HIDE DEF s
<1> QED
  BY <1>1, <1>2, ClauseKeeps

LEMMA WhereKeeps ==
    ASSUME Built, NEW e \in Filters, Where(e)
    PROVE  Built'
<1> DEFINE s == [Main EXCEPT !.where = e]
<1>1. Passed(e, TablesOf(Main)) /\ BuildsSelect(s) /\ stage' \in {"join", "select"}
  BY Arguments DEF Where, Passed, ValidFilter
<1>2. e \in Condition
  BY <1>1 DEF Passed, Condition
<1>3. /\ s \in SelectPart /\ s.depth = Main.depth /\ s.first = Main.first /\ s.joins = Main.joins
      /\ s.where = e /\ s.having = Main.having /\ s.group = Main.group
      /\ s.columns = Main.columns
  BY <1>2, MainShape DEF SelectPart
<1> HIDE DEF s
<1> QED
  BY <1>1, <1>3, ClauseKeeps

LEMMA HavingKeeps ==
    ASSUME Built, NEW e \in Havings, Having(e)
    PROVE  Built'
<1> DEFINE s == [Main EXCEPT !.having = e]
<1>1. Passed(e, TablesOf(Main)) /\ BuildsSelect(s) /\ stage' \in {"join", "select"}
  BY Arguments DEF Having, Passed, ValidFilter
<1>2. e \in Condition
  BY <1>1 DEF Passed, Condition
<1>3. /\ s \in SelectPart /\ s.depth = Main.depth /\ s.first = Main.first /\ s.joins = Main.joins
      /\ s.where = Main.where /\ s.having = e /\ s.group = Main.group
      /\ s.columns = Main.columns
  BY <1>2, MainShape DEF SelectPart
<1> HIDE DEF s
<1> QED
  BY <1>1, <1>3, ClauseKeeps

LEMMA GroupByKeeps ==
    ASSUME Built, NEW cs \in Groups, GroupBy(cs)
    PROVE  Built'
<1> DEFINE s == [Main EXCEPT !.group = cs]
<1>1. cs \in Seq(Column) /\ ValidColumns(cs) /\ BuildsSelect(s) /\ stage' \in {"join", "select"}
  BY Arguments DEF GroupBy
<1>2. /\ s \in SelectPart /\ s.depth = Main.depth /\ s.first = Main.first /\ s.joins = Main.joins
      /\ s.where = Main.where /\ s.having = Main.having /\ s.group = cs
      /\ s.columns = Main.columns
  BY <1>1, MainShape DEF SelectPart
<1> HIDE DEF s
<1> QED
  BY <1>1, <1>2, ClauseKeeps

\* The last join is given its condition or its columns.
LEMMA LastJoinKeeps ==
    ASSUME Built, OpenJoin, NEW j \in JoinPart, NEW s \in SelectPart, BuildsSelect(s),
           UNCHANGED stage, s = [Main EXCEPT !.joins = [@ EXCEPT ![Len(Main.joins)] = j]],
           j.table = Main.joins[Len(Main.joins)].table,
           j.on = Main.joins[Len(Main.joins)].on \/ Passed(j.on, TablesOf(Main))
    PROVE  Built'
<1> DEFINE n == Len(Main.joins)
           J == [Main.joins EXCEPT ![n] = j]
<1>1. n \in Nat \ {0} /\ n \in DOMAIN Main.joins /\ stage' \in {"join", "select"}
  BY MainShape DEF OpenJoin
<1>2. DOMAIN J = DOMAIN Main.joins /\ J[n] = j /\ Len(J) = n
      /\ \A k \in DOMAIN Main.joins : k # n => J[k] = Main.joins[k]
  BY <1>1, MainShape
<1>3. /\ s.joins = J /\ s.first = Main.first /\ s.depth = Main.depth /\ s.where = Main.where
      /\ s.having = Main.having /\ s.columns = Main.columns /\ s.group = Main.group
  BY MainShape DEF SelectPart
<1> HIDE DEF J, n
<1>4. \A k \in DOMAIN Main.joins : J[k].table = Main.joins[k].table
  BY <1>2 DEF n
<1>5. TablesOf(s) = TablesOf(Main)
  BY <1>2, <1>3, <1>4 DEF TablesOf
<1>6. ASSUME NEW e \in CondsOf(s)
      PROVE  e \in CondsOf(Main) \/ (containsTables(e, TablesOf(s)) /\ InCells(e))
  <2>1. CASE e \in {s.where, s.having}
    BY <1>3, <2>1 DEF CondsOf
  <2>2. CASE e \notin {s.where, s.having}
    <3>1. e \in {s.joins[k].on : k \in DOMAIN s.joins}
      BY <2>2 DEF CondsOf
    <3>2. PICK k \in DOMAIN Main.joins : e = J[k].on
      BY <1>2, <1>3, <3>1
    <3>3. e = Main.joins[k].on \/ Passed(e, TablesOf(Main))
      BY <1>2, <3>2 DEF n
    <3>4. Main.joins[k].on \in CondsOf(Main)
      BY DEF CondsOf
    <3> QED BY <1>5, <3>3, <3>4 DEF Passed
  <2> QED BY <2>1, <2>2
<1>7. s.depth = 0 /\ Len(s.joins) < MaxTables
  BY <1>2, <1>3 DEF Built, Shape, n
<1>8. \A c \in ToSet(s.columns) \cup ToSet(s.group) : c.table \in TablesOf(s)
  BY <1>3, <1>5 DEF Built, Checked
<1> QED
  BY <1>1, <1>5, <1>6, <1>7, <1>8, BuildsSelectKeeps

LEMMA OnKeeps ==
    ASSUME Built, NEW e \in Filters, On(e)
    PROVE  Built'
<1> DEFINE n == Len(Main.joins)
           j == [Main.joins[n] EXCEPT !.on = e]
           s == [Main EXCEPT !.joins = [@ EXCEPT ![n] = j]]
<1>1. Passed(e, TablesOf(Main)) /\ BuildsSelect(s) /\ UNCHANGED stage /\ OpenJoin
  BY Arguments DEF On, Passed, ValidFilter
<1>2. n \in DOMAIN Main.joins /\ Main.joins[n] \in JoinPart
  BY <1>1, MainShape DEF OpenJoin
<1>3. e \in Condition
  BY <1>1 DEF Passed, Condition
<1>4. j \in JoinPart /\ j.table = Main.joins[n].table /\ j.on = e
  BY <1>2, <1>3 DEF JoinPart
<1> HIDE DEF j
<1>5. [Main.joins EXCEPT ![n] = j] \in Seq(JoinPart)
  BY <1>2, <1>4, MainShape
<1>6. s \in SelectPart
  BY <1>5, MainShape DEF SelectPart
<1>7. s = [Main EXCEPT !.joins = [@ EXCEPT ![Len(Main.joins)] = j]]
  OBVIOUS
<1> HIDE DEF s
<1> QED
  BY <1>1, <1>4, <1>6, <1>7, LastJoinKeeps

LEMMA UsingsKeeps ==
    ASSUME Built, NEW cs \in Groups, Usings(cs)
    PROVE  Built'
<1> DEFINE n == Len(Main.joins)
           j == [Main.joins[n] EXCEPT !.usings = cs]
           s == [Main EXCEPT !.joins = [@ EXCEPT ![n] = j]]
<1>1. cs \in Seq(Column) /\ BuildsSelect(s) /\ UNCHANGED stage /\ OpenJoin
  BY Arguments DEF Usings
<1>2. n \in DOMAIN Main.joins /\ Main.joins[n] \in JoinPart
  BY <1>1, MainShape DEF OpenJoin
<1>3. j \in JoinPart /\ j.table = Main.joins[n].table /\ j.on = Main.joins[n].on
  BY <1>1, <1>2 DEF JoinPart
<1> HIDE DEF j
<1>4. [Main.joins EXCEPT ![n] = j] \in Seq(JoinPart)
  BY <1>2, <1>3, MainShape
<1>5. s \in SelectPart
  BY <1>4, MainShape DEF SelectPart
<1>6. s = [Main EXCEPT !.joins = [@ EXCEPT ![Len(Main.joins)] = j]]
  OBVIOUS
<1> HIDE DEF s
<1> QED
  BY <1>1, <1>3, <1>5, <1>6, LastJoinKeeps

LEMMA JoinTableKeeps ==
    ASSUME Built, NEW type \in JoinTypes, NEW t \in Table, JoinTable(type, t)
    PROVE  Built'
<1> DEFINE n == Len(Main.joins)
           j == [type |-> type, table |-> t, on |-> NoFilter, usings |-> <<>>]
           J == Append(Main.joins, j)
           s == [Main EXCEPT !.joins = J]
<1>1. BuildsSelect(s) /\ stage' \in {"join", "select"} /\ n + 1 < MaxTables
  BY DEF JoinTable
<1>2. j \in JoinPart /\ j.on = NoFilter
  BY Arguments DEF JoinPart, Condition
<1> HIDE DEF j
<1>3. J \in Seq(JoinPart) /\ Len(J) = n + 1 /\ DOMAIN J = 1 .. n + 1 /\ J[n + 1] = j
      /\ \A k \in 1 .. n : J[k] = Main.joins[k]
  BY <1>2, MainShape
<1> HIDE DEF J
<1>4. /\ s \in SelectPart /\ s.joins = J /\ s.first = Main.first /\ s.depth = Main.depth
      /\ s.where = Main.where /\ s.having = Main.having /\ s.columns = Main.columns
      /\ s.group = Main.group
  BY <1>3, MainShape DEF SelectPart
<1> HIDE DEF s
<1>5. \A k \in 1 .. n : k \in 1 .. n + 1 /\ k \in DOMAIN Main.joins
  BY MainShape
<1>6. TablesOf(Main) \subseteq TablesOf(s)
  BY <1>3, <1>4, <1>5, MainShape DEF TablesOf
<1>7. ASSUME NEW e \in CondsOf(s) PROVE e \in CondsOf(Main) \/ e = NoFilter
  <2>1. CASE e \in {s.where, s.having}
    BY <1>4, <2>1 DEF CondsOf
  <2>2. CASE e \notin {s.where, s.having}
    <3>1. e \in {s.joins[k].on : k \in DOMAIN s.joins}
      BY <2>2 DEF CondsOf
    <3>2. PICK k \in 1 .. n + 1 : e = J[k].on
      BY <1>3, <1>4, <3>1
    <3>3. CASE k = n + 1
      BY <1>2, <1>3, <3>2, <3>3
    <3>4. CASE k # n + 1
      <4>1. k \in 1 .. n
        BY <3>4, MainShape
      <4>2. e = Main.joins[k].on /\ k \in DOMAIN Main.joins
        BY <1>3, <1>5, <3>2, <4>1
      <4> QED BY <4>2 DEF CondsOf
    <3> QED BY <3>3, <3>4
  <2> QED BY <2>1, <2>2
<1>8. s.depth = 0 /\ Len(s.joins) < MaxTables
  BY <1>1, <1>3, <1>4 DEF Built, Shape
<1>9. \A c \in ToSet(s.columns) \cup ToSet(s.group) : c.table \in TablesOf(s)
  BY <1>4, <1>6 DEF Built, Checked
<1> QED
  BY <1>1, <1>4, <1>6, <1>7, <1>8, <1>9, BuildsSelectKeeps

LEMMA OrderByKeeps ==
    ASSUME Built, NEW o \in Orders, OrderBy(o)
    PROVE  Built'
<1>1. /\ query' = [query EXCEPT !.order = o] /\ UNCHANGED <<data, memory, stage>>
      /\ o \in Seq(OrderTerm) /\ OrderContainsTables(o, TablesOf(Main))
  BY Arguments DEF OrderBy, Builds
<1>2. query' \in Query /\ query'.selects = query.selects /\ query'.order = o
  BY <1>1 DEF Built, Shape, Query
<1>3. Main' = Main
  BY <1>2 DEF Main
<1>4. Shape'
  BY <1>2, <1>3 DEF Built, Shape
<1>5. OperandsInCells'
  BY <1>2 DEF Built, OperandsInCells
<1>6. Checked'
  BY <1>1, <1>2, <1>3 DEF Built, Checked
<1> QED
  BY <1>1, <1>4, <1>5, <1>6 DEF Built, Memory

LEMMA LimitOffsetKeeps ==
    ASSUME Built, NEW l \in Limits, LimitOffset(l)
    PROVE  Built'
<1>1. /\ query' = [query EXCEPT !.limit = l] /\ UNCHANGED <<data, memory, stage>>
      /\ l \in Seq([limit : Nat, offset : Nat])
  BY Arguments DEF LimitOffset, Builds
<1>2. query' \in Query /\ query'.selects = query.selects /\ query'.order = query.order
  BY <1>1 DEF Built, Shape, Query
<1>3. Main' = Main
  BY <1>2 DEF Main
<1>4. Shape'
  BY <1>2, <1>3 DEF Built, Shape
<1>5. OperandsInCells'
  BY <1>2 DEF Built, OperandsInCells
<1>6. Checked'
  BY <1>2, <1>3 DEF Built, Checked
<1> QED
  BY <1>1, <1>4, <1>5, <1>6 DEF Built, Memory

\* The SELECTs of a union keep their clauses and are deeper.
LEMMA UnitedShape ==
    ASSUME NEW u \in Unions
    PROVE  LET v == United(u.op, u.query)
               w == u.query.selects IN
           /\ v \in Seq(SelectPart) /\ Len(v) = Len(w) /\ Len(v) \in Nat /\ DOMAIN v = 1 .. Len(v)
           /\ \A k \in DOMAIN v : v[k].depth # 0 /\ CondsOf(v[k]) = CondsOf(w[k])
           /\ \A k \in DOMAIN v : \A e \in CondsOf(v[k]) : e = NoFilter \/ InCells(e)
<1> DEFINE v == United(u.op, u.query)
           w == u.query.selects
           opOf(k) == IF k = 1 THEN u.op ELSE w[k].op
<1>1. u.op \in UnionOperator /\ w \in Seq(SelectPart)
  BY Arguments DEF Query
<1>2. Len(w) \in Nat /\ DOMAIN w = 1 .. Len(w) /\ \A k \in DOMAIN w : w[k] \in SelectPart
  BY <1>1
<1>3. v = [k \in DOMAIN w |-> [w[k] EXCEPT !.depth = w[k].depth + 1, !.op = opOf(k)]]
  BY DEF United
<1>4. \A k \in DOMAIN w : opOf(k) \in UnionOperator \cup {""}
  BY <1>1, <1>2 DEF SelectPart
<1> HIDE DEF opOf, v, w
<1>5. ASSUME NEW k \in DOMAIN w
      PROVE  /\ v[k] \in SelectPart /\ v[k].depth # 0 /\ v[k].joins = w[k].joins
             /\ v[k].where = w[k].where /\ v[k].having = w[k].having
  <2>1. w[k] \in SelectPart /\ v[k] = [w[k] EXCEPT !.depth = w[k].depth + 1, !.op = opOf(k)]
    BY <1>2, <1>3
  <2>2. w[k].depth \in Nat /\ w[k].depth + 1 \in Nat /\ w[k].depth + 1 # 0
    <3>1. \A x \in SelectPart : x.depth \in Nat
      BY DEF SelectPart
    <3>2. \A d \in Nat : d + 1 \in Nat /\ d + 1 # 0
      OBVIOUS
    <3> QED BY <2>1, <3>1, <3>2, Zenon
  <2> QED BY <1>4, <2>1, <2>2 DEF SelectPart
<1>6. v \in Seq(SelectPart) /\ Len(v) = Len(w) /\ DOMAIN v = 1 .. Len(w)
  <2>1. v \in [1 .. Len(w) -> SelectPart]
    BY <1>2, <1>3, <1>5
  <2> QED BY <1>2, <2>1
<1>7. \A k \in DOMAIN w : CondsOf(v[k]) = CondsOf(w[k])
  BY <1>5 DEF CondsOf
<1>8. ASSUME NEW k \in DOMAIN w, NEW e \in CondsOf(w[k]) PROVE e = NoFilter \/ InCells(e)
  <2>1. w[k] \in SelectPart /\ w[k] \in ToSet(w)
    BY <1>2 DEF ToSet
  <2>2. e \in ToSet(Conditions(w[k]))
    <3>1. Len(w[k].joins) \in Nat /\ DOMAIN w[k].joins = 1 .. Len(w[k].joins)
      BY <2>1, SelectPartShape
    <3>2. ToSet(Conditions(w[k])) = CondsOf(w[k])
      BY <3>1, ConditionsAre
    <3> QED BY <1>8, <3>2
  <2> QED BY <2>1, <2>2, ArgumentsAssumption DEF w
<1> QED
  BY <1>2, <1>5, <1>6, <1>7, <1>8 DEF v, w

LEMMA UniteKeeps ==
    ASSUME Built, NEW u \in Unions, Unite(u)
    PROVE  Built'
<1> DEFINE v == United(u.op, u.query)
           n == Len(query.selects)
           S == query.selects \o v
<1>1. query' = [query EXCEPT !.selects = S] /\ UNCHANGED <<data, memory, stage>>
  BY DEF Unite, Builds
<1>2. /\ v \in Seq(SelectPart) /\ Len(v) \in Nat /\ DOMAIN v = 1 .. Len(v)
      /\ \A k \in DOMAIN v : v[k].depth # 0 /\ \A e \in CondsOf(v[k]) : e = NoFilter \/ InCells(e)
  BY UnitedShape
<1> HIDE DEF v
<1>3. /\ S \in Seq(SelectPart) /\ Len(S) = n + Len(v) /\ DOMAIN S = 1 .. n + Len(v)
      /\ n \in Nat \ {0}
      /\ \A k \in 1 .. n : S[k] = query.selects[k]
      /\ \A k \in DOMAIN S : k \in 1 .. n \/ (k - n \in DOMAIN v /\ S[k] = v[k - n])
      /\ DOMAIN query.selects = 1 .. n
  BY <1>2, MainShape
<1> HIDE DEF S
<1>4. query' \in Query /\ query'.selects = S /\ query'.order = query.order
  BY <1>1, <1>3 DEF Built, Shape, Query
<1>5. 1 \in 1 .. n /\ Main' = Main
  BY <1>3, <1>4 DEF Main
<1>6. Shape'
  <2>1. \A k \in 2 .. Len(S) : S[k].depth # 0
    <3> SUFFICES ASSUME NEW k \in 2 .. Len(S) PROVE S[k].depth # 0
      OBVIOUS
    <3>1. k \in DOMAIN S /\ (k \in 1 .. n => k \in 2 .. n)
      BY <1>2, <1>3
    <3>2. CASE k \in 1 .. n
      BY <1>3, <3>1, <3>2 DEF Built, Shape
    <3>3. CASE k \notin 1 .. n
      BY <1>2, <1>3, <3>1, <3>3
    <3> QED BY <3>2, <3>3
  <2>2. S # <<>>
    BY <1>2, <1>3
  <2> QED BY <1>4, <1>5, <2>1, <2>2 DEF Built, Shape
<1>7. OperandsInCells'
  <2>1. ASSUME NEW k \in DOMAIN S, NEW e \in CondsOf(S[k]) PROVE e = NoFilter \/ InCells(e)
    <3>1. CASE k \in 1 .. n
      BY <1>3, <3>1 DEF Built, OperandsInCells
    <3>2. CASE k \notin 1 .. n
      BY <1>2, <1>3, <3>2
    <3> QED BY <3>1, <3>2
  <2> QED BY <1>4, <2>1 DEF OperandsInCells
<1>8. Checked'
  BY <1>4, <1>5 DEF Built, Checked
<1> QED
  BY <1>1, <1>6, <1>7, <1>8 DEF Built, Memory

\* The query stays as it is.
LEMMA SameQueryKeeps ==
    ASSUME Built, UNCHANGED <<data, query>>, memory' \in [Fixed \cup Dynamic -> Value],
           stage' \in {"join", "select", "compiled"}
    PROVE  Built'
<1>1. Main' = Main
  BY DEF Main
<1> QED
  BY <1>1 DEF Built, Shape, OperandsInCells, Checked, Memory

LEMMA BuiltInitially == Init => Built
<1> SUFFICES ASSUME Init PROVE Built
  OBVIOUS
<1>1. PICK t \in Table : query = Table1(t)
  BY DEF Init
<1>2. SelectOf(t) \in SelectPart
  BY DEF SelectOf, SelectPart, Condition
<1>3. /\ query.selects = <<SelectOf(t)>> /\ query.order = <<>> /\ query.limit = <<>>
      /\ query \in Query
  BY <1>1, <1>2 DEF Table1, Query
<1>4. Main = SelectOf(t) /\ Len(query.selects) = 1 /\ query.selects # <<>>
  BY <1>3 DEF Main
<1>5. /\ Main.joins = <<>> /\ Main.depth = 0 /\ Main.where = NoFilter /\ Main.having = NoFilter
      /\ Main.columns = <<>> /\ Main.group = <<>>
  BY <1>4 DEF SelectOf
<1>6. CondsOf(Main) = {NoFilter}
  BY <1>5 DEF CondsOf
<1>7. Shape
  BY <1>3, <1>4, <1>5, BoundsAssumption DEF Shape
<1>8. OperandsInCells
  <2>1. \A k \in DOMAIN query.selects : k = 1
    BY <1>3
  <2> QED BY <1>6, <2>1 DEF OperandsInCells, Main
<1>9. Checked
  BY <1>3, <1>5, <1>6 DEF Checked, ToSet
<1> QED
  BY <1>7, <1>8, <1>9 DEF Built, Init, Memory

LEMMA BuiltKept == Built /\ [Next]_vars => Built'
<1> SUFFICES ASSUME Built, [Next]_vars PROVE Built'
  OBVIOUS
<1>1. ASSUME NEW type \in JoinTypes, NEW t \in Table, JoinTable(type, t) PROVE Built'
  BY <1>1, JoinTableKeeps
<1>2. ASSUME NEW e \in Filters, On(e) PROVE Built'
  BY <1>2, OnKeeps
<1>3. ASSUME NEW cs \in Groups, Usings(cs) PROVE Built'
  BY <1>3, UsingsKeeps
<1>4. ASSUME NEW cs \in Selections, Select(cs) PROVE Built'
  BY <1>4, SelectKeeps
<1>5. ASSUME NEW e \in Filters, Where(e) PROVE Built'
  BY <1>5, WhereKeeps
<1>6. ASSUME NEW cs \in Groups, GroupBy(cs) PROVE Built'
  BY <1>6, GroupByKeeps
<1>7. ASSUME NEW e \in Havings, Having(e) PROVE Built'
  BY <1>7, HavingKeeps
<1>8. ASSUME NEW o \in Orders, OrderBy(o) PROVE Built'
  BY <1>8, OrderByKeeps
<1>9. ASSUME NEW l \in Limits, LimitOffset(l) PROVE Built'
  BY <1>9, LimitOffsetKeeps
<1>10. ASSUME NEW u \in Unions, Unite(u) PROVE Built'
  BY <1>10, UniteKeeps
<1>11. CASE Compile
  BY <1>11, SameQueryKeeps DEF Compile, Built, Memory
<1>12. ASSUME NEW c \in Dynamic, NEW v \in Value, Assign(c, v) PROVE Built'
  BY <1>12, SameQueryKeeps DEF Assign, Built, Memory
<1>13. ASSUME NEW b \in DOMAIN BindParameters, Bind(b) PROVE Built'
  BY <1>13, SameQueryKeeps DEF Bind, Built, Memory
<1>14. CASE UNCHANGED vars
  BY <1>14, SameQueryKeeps DEF vars, Built, Memory
<1> QED
  BY <1>1, <1>2, <1>3, <1>4, <1>5, <1>6, <1>7, <1>8, <1>9, <1>10, <1>11, <1>12, <1>13, <1>14
  DEF Next

THEOREM BuiltAlways == Spec => []Built
BY BuiltInitially, BuiltKept, PTL DEF Spec

\* A query without comparisons of two columns and with at most one ORDER BY term
\* mentions only tables that it selects from: containsTables, asked clause by
\* clause while joins are added, is enough to refuse all others.
THEOREM TablesChecked == Spec => []OnlyItsTables
<1>1. Built => OnlyItsTables
  <2> DEFINE T == TablesOf(Main)
  <2> SUFFICES ASSUME Built,
                      \A e \in ToSet(Conditions(Main)) : e = NoFilter \/ ~ComparesColumns(e),
                      Len(query.order) < 2
               PROVE  NamedBy(Main) \cup {o.col.table : o \in ToSet(query.order)} \subseteq T
    BY DEF OnlyItsTables
  <2>1. /\ ToSet(Conditions(Main)) = CondsOf(Main) /\ CondsOf(Main) \subseteq Condition
        /\ \A c \in DOMAIN Conditions(Main) : Conditions(Main)[c] \in CondsOf(Main)
    BY MainShape, SelectPartShape, ConditionsAre
  <2>2. ASSUME NEW e \in CondsOf(Main) PROVE NamedIn(e) \subseteq T
    <3>1. CASE e = NoFilter
      BY <3>1 DEF NamedIn
    <3>2. CASE e # NoFilter
      <4>1. e \in Expr /\ containsTables(e, T) /\ \A x \in ComparisonsIn(e) : x.kind # "columns"
        BY <2>1, <2>2, <3>2 DEF Built, Checked, Condition, ComparesColumns
      <4>2. \A c \in ColumnsOf(e) : c.table \in T
        BY <4>1, OnlyTheTablesAskedFor
      <4> QED BY <3>2, <4>2 DEF NamedIn
    <3> QED BY <3>1, <3>2
  <2>3. \A c \in ToSet(Main.columns) \cup ToSet(Main.group) : c.table \in T
    BY DEF Built, Checked
  <2>4. NamedBy(Main) \subseteq T
    <3>1. \A c \in DOMAIN Conditions(Main) : NamedIn(Conditions(Main)[c]) \subseteq T
      BY <2>1, <2>2
    <3> HIDE DEF T
    <3> QED BY <2>3, <3>1 DEF NamedBy
  <2>5. ASSUME NEW o \in ToSet(query.order) PROVE o.col.table \in T
    <3>1. query.order \in Seq(OrderTerm)
      BY DEF Built, Shape, Query
    <3>2. PICK k \in DOMAIN query.order : o = query.order[k]
      BY DEF ToSet
    <3>3. query.order # <<>>
      BY <3>1, <3>2
    <3>4. PICK i \in DOMAIN query.order : query.order[i].col.table \in T
      BY <3>3 DEF Built, Checked, OrderContainsTables
    <3>5. i = k
      BY <3>1, <3>2, <3>4
    <3> QED BY <3>2, <3>4, <3>5
  <2> QED BY <2>4, <2>5
<1> QED
  BY <1>1, BuiltAlways, PTL

-----------------------------------------------------------------------------
(* The numbers of the parameters.                                          *)

LEMMA NoFilterIsNone == NoFilter \notin Expr
<1>1. NoFilter.kind = "none"
  BY DEF NoFilter
<1>2. \A x \in Simple : x.kind # "none"
  BY DEF Simple
<1> QED
  BY <1>1, <1>2, Sides

LEMMA ParametersInType ==
    ASSUME NEW e \in Condition
    PROVE  ParametersIn(e) \in Nat
BY ParametersType DEF Condition, ParametersIn

\* Numbers change the conditions of a SELECT, and nothing else.
LEMMA NumberedSelectShape ==
    ASSUME NEW s \in SelectPart, NEW idx
    PROVE  LET t == NumberedSelect(s, idx)
               C == Conditions(s) IN
           /\ t.op = s.op /\ t.depth = s.depth /\ t.first = s.first /\ t.columns = s.columns
           /\ t.group = s.group /\ Len(t.joins) = Len(s.joins) /\ DOMAIN t.joins = DOMAIN s.joins
           /\ \A k \in DOMAIN s.joins : /\ t.joins[k].type = s.joins[k].type
                                        /\ t.joins[k].table = s.joins[k].table
                                        /\ t.joins[k].usings = s.joins[k].usings
           /\ DOMAIN Conditions(t) = DOMAIN C
           /\ \A c \in DOMAIN C :
                 Conditions(t)[c] = Indexed(C[c], idx + ParametersBefore(s, c - 1))
<1> DEFINE n == Len(s.joins)
           N(c) == Indexed(Conditions(s)[c], idx + ParametersBefore(s, c - 1))
           J == [c \in 1 .. n |-> [s.joins[c] EXCEPT !.on = N(c)]]
           t == NumberedSelect(s, idx)
<1>1. n \in Nat /\ DOMAIN s.joins = 1 .. n /\ \A k \in DOMAIN s.joins : s.joins[k] \in JoinPart
  BY SelectPartShape
<1>2. t = [s EXCEPT !.joins = J, !.where = N(n + 1), !.having = N(n + 2)]
  BY DEF NumberedSelect
<1> HIDE DEF t, N
<1>3. /\ t.op = s.op /\ t.depth = s.depth /\ t.first = s.first /\ t.columns = s.columns
      /\ t.group = s.group /\ t.joins = J /\ t.where = N(n + 1) /\ t.having = N(n + 2)
  BY <1>2 DEF SelectPart
<1>4. DOMAIN J = 1 .. n /\ Len(J) = n
  BY <1>1
<1>5. ASSUME NEW k \in 1 .. n
      PROVE  /\ J[k].type = s.joins[k].type /\ J[k].table = s.joins[k].table
             /\ J[k].usings = s.joins[k].usings /\ J[k].on = N(k)
  <2>1. s.joins[k] \in JoinPart
    BY <1>1
  <2>2. J[k] = [s.joins[k] EXCEPT !.on = N(k)]
    OBVIOUS
  <2> HIDE DEF J
  <2> QED BY <2>1, <2>2 DEF JoinPart
<1> HIDE DEF J
<1>6. DOMAIN Conditions(s) = 1 .. n + 2 /\ DOMAIN Conditions(t) = 1 .. n + 2
  BY <1>3, <1>4 DEF Conditions
<1>7. ASSUME NEW c \in 1 .. n + 2 PROVE Conditions(t)[c] = N(c)
  <2>1. Conditions(t)[c] = IF c <= n THEN J[c].on ELSE IF c = n + 1 THEN N(n + 1) ELSE N(n + 2)
    BY <1>3, <1>4 DEF Conditions
  <2>2. c <= n => c \in 1 .. n
    BY <1>1
  <2>3. c <= n \/ c = n + 1 \/ c = n + 2
    BY <1>1
  <2>4. ~(n + 1 <= n) /\ ~(n + 2 <= n) /\ n + 2 # n + 1
    BY <1>1
  <2> QED BY <1>5, <2>1, <2>2, <2>3, <2>4
<1> QED
  BY <1>1, <1>3, <1>4, <1>5, <1>6, <1>7 DEF t, N

\* The parameters of the conditions of a SELECT follow each other.
LEMMA SelectSums ==
    ASSUME NEW s \in SelectPart
    PROVE  LET m == Len(s.joins) + 2 IN
           /\ \A c \in 0 .. m : ParametersBefore(s, c) \in Nat
           /\ \A c \in 0 .. m : \A d \in 0 .. c : ParametersBefore(s, d) <= ParametersBefore(s, c)
           /\ \A c \in 1 .. m : ParametersBefore(s, c) =
                                ParametersBefore(s, c - 1) + ParametersIn(Conditions(s)[c])
           /\ SelectParameters(s) = ParametersBefore(s, m) /\ SelectParameters(s) \in Nat
           /\ DOMAIN Conditions(s) = 1 .. m /\ m \in Nat /\ ParametersBefore(s, 0) = 0
           /\ \A c \in 1 .. m : Conditions(s)[c] \in Condition
<1> DEFINE m == Len(s.joins) + 2
           V == [c \in DOMAIN Conditions(s) |-> ParametersIn(Conditions(s)[c])]
<1>1. /\ m \in Nat /\ DOMAIN Conditions(s) = 1 .. m
      /\ \A c \in 1 .. m : Conditions(s)[c] \in Condition
  BY SelectPartShape, ConditionsAre
<1>2. \A c \in 1 .. m : V[c] = ParametersIn(Conditions(s)[c]) /\ V[c] \in Nat
  BY <1>1, ParametersInType
<1>3. \A c : ParametersBefore(s, c) = SumTo(V, c)
  BY DEF ParametersBefore
<1>4. SelectParameters(s) = ParametersBefore(s, m)
  BY DEF SelectParameters
<1> HIDE DEF V, m
<1>5. /\ \A c \in 0 .. m : SumTo(V, c) \in Nat
      /\ \A c \in 0 .. m : \A d \in 0 .. c : SumTo(V, d) <= SumTo(V, c)
  BY <1>1, <1>2, SumToGrows
<1>6. ASSUME NEW c \in 1 .. m PROVE SumTo(V, c) = SumTo(V, c - 1) + V[c]
  <2>1. c - 1 \in Nat /\ (c - 1) + 1 = c
    BY <1>1
  <2> QED BY <2>1, SumToEquation
<1>7. m \in 0 .. m
  BY <1>1
<1> QED
  BY <1>1, <1>2, <1>3, <1>4, <1>5, <1>6, <1>7, SumToEquation DEF m

\* The same for the SELECTs of a query.
LEMMA QuerySums ==
    ASSUME Built
    PROVE  LET m == Len(query.selects) IN
           /\ \A k \in 0 .. m : ParametersUntil(query, k) \in Nat
           /\ \A k \in 0 .. m : \A i \in 0 .. k :
                 ParametersUntil(query, i) <= ParametersUntil(query, k)
           /\ \A k \in 1 .. m : ParametersUntil(query, k) =
                 ParametersUntil(query, k - 1) + SelectParameters(query.selects[k])
           /\ QueryParameters(query) = ParametersUntil(query, m)
           /\ DOMAIN query.selects = 1 .. m /\ m \in Nat \ {0}
           /\ \A k \in 1 .. m : query.selects[k] \in SelectPart
<1> DEFINE m == Len(query.selects)
           V == [k \in DOMAIN query.selects |-> SelectParameters(query.selects[k])]
<1>1. /\ DOMAIN query.selects = 1 .. m /\ m \in Nat \ {0}
      /\ \A k \in 1 .. m : query.selects[k] \in SelectPart
  BY MainShape
<1>2. \A k \in 1 .. m : V[k] = SelectParameters(query.selects[k]) /\ V[k] \in Nat
  BY <1>1, SelectSums
<1>3. \A k : ParametersUntil(query, k) = SumTo(V, k)
  BY DEF ParametersUntil
<1>4. QueryParameters(query) = ParametersUntil(query, m)
  BY DEF QueryParameters
<1> HIDE DEF V, m
<1>5. /\ \A k \in 0 .. m : SumTo(V, k) \in Nat
      /\ \A k \in 0 .. m : \A i \in 0 .. k : SumTo(V, i) <= SumTo(V, k)
  BY <1>1, <1>2, SumToGrows
<1>6. ASSUME NEW k \in 1 .. m PROVE SumTo(V, k) = SumTo(V, k - 1) + V[k]
  <2>1. k - 1 \in Nat /\ (k - 1) + 1 = k
    BY <1>1
  <2> QED BY <2>1, SumToEquation
<1> QED
  BY <1>1, <1>2, <1>3, <1>4, <1>5, <1>6 DEF m

\* Condition c of SELECT k, and the number of its first parameter.
Cond(k, c)  == Conditions(query.selects[k])[c]
First(k, c) == ParametersUntil(query, k - 1) + ParametersBefore(query.selects[k], c - 1)
Places      == {p \in (1 .. Len(query.selects)) \X Nat :
                   p[2] \in DOMAIN Conditions(query.selects[p[1]])}

\* The numbers of a condition are numbers of the query, and no other condition
\* has one of them.
LEMMA NumbersApart ==
    ASSUME Built, NEW p \in Places
    PROVE  /\ First(p[1], p[2]) \in Nat /\ Cond(p[1], p[2]) \in Condition
           /\ First(p[1], p[2]) + ParametersIn(Cond(p[1], p[2])) <= QueryParameters(query)
           /\ \A r \in Places : p # r =>
                 \/ First(p[1], p[2]) + ParametersIn(Cond(p[1], p[2])) <= First(r[1], r[2])
                 \/ First(r[1], r[2]) + ParametersIn(Cond(r[1], r[2])) <= First(p[1], p[2])
<1> DEFINE m == Len(query.selects)
           U(k) == ParametersUntil(query, k)
           B(k, c) == ParametersBefore(query.selects[k], c)
           P(k, c) == ParametersIn(Cond(k, c))
<1>1. /\ \A k \in 0 .. m : U(k) \in Nat
      /\ \A k \in 0 .. m : \A i \in 0 .. k : U(i) <= U(k)
      /\ m \in Nat \ {0} /\ QueryParameters(query) = U(m)
  BY QuerySums
<1>2. ASSUME NEW r \in Places
      PROVE  /\ r[1] \in 1 .. m /\ r[2] \in Nat \ {0} /\ r = <<r[1], r[2]>>
             /\ U(r[1] - 1) \in Nat /\ B(r[1], r[2] - 1) \in Nat /\ P(r[1], r[2]) \in Nat
             /\ B(r[1], r[2] - 1) + P(r[1], r[2]) = B(r[1], r[2])
             /\ First(r[1], r[2]) = U(r[1] - 1) + B(r[1], r[2] - 1)
             /\ U(r[1] - 1) + B(r[1], r[2]) <= U(r[1]) /\ U(r[1]) \in Nat
             /\ Cond(r[1], r[2]) \in Condition
             /\ \A d \in Nat : r[2] < d /\ d \in DOMAIN Conditions(query.selects[r[1]]) =>
                    B(r[1], r[2]) <= B(r[1], d - 1) /\ B(r[1], d - 1) \in Nat
  <2> DEFINE k == r[1]
             c == r[2]
             s == query.selects[k]
             l == Len(s.joins) + 2
  <2>1. k \in 1 .. m /\ c \in DOMAIN Conditions(s) /\ r = <<k, c>> /\ s \in SelectPart
    BY QuerySums DEF Places
  <2>2. /\ \A i \in 0 .. l : ParametersBefore(s, i) \in Nat
        /\ \A i \in 0 .. l : \A d \in 0 .. i : ParametersBefore(s, d) <= ParametersBefore(s, i)
        /\ \A i \in 1 .. l : ParametersBefore(s, i) =
                             ParametersBefore(s, i - 1) + ParametersIn(Conditions(s)[i])
        /\ SelectParameters(s) = ParametersBefore(s, l)
        /\ DOMAIN Conditions(s) = 1 .. l /\ l \in Nat
        /\ \A i \in 1 .. l : Conditions(s)[i] \in Condition
    BY <2>1, SelectSums
  <2>3. c \in 1 .. l /\ c - 1 \in 0 .. l /\ c \in 0 .. l /\ l \in 0 .. l /\ c \in 0 .. l
    BY <2>1, <2>2
  <2>4. /\ B(k, c - 1) \in Nat /\ B(k, c) = B(k, c - 1) + P(k, c) /\ P(k, c) \in Nat
        /\ Cond(k, c) \in Condition /\ B(k, c) <= SelectParameters(s) /\ B(k, c) \in Nat
        /\ SelectParameters(s) \in Nat
    <3>1. B(k, c - 1) \in Nat /\ B(k, c) \in Nat /\ B(k, l) \in Nat
      BY <2>2, <2>3
    <3>2. B(k, c) = B(k, c - 1) + P(k, c)
      BY <2>2, <2>3 DEF Cond
    <3>3. B(k, c) <= B(k, l)
      BY <2>2, <2>3
    <3>4. Cond(k, c) \in Condition
      BY <2>2, <2>3 DEF Cond
    <3>5. P(k, c) \in Nat
      BY <3>4, ParametersInType
    <3> QED BY <2>2, <3>1, <3>2, <3>3, <3>4, <3>5
  <2>5. k - 1 \in 0 .. m /\ k \in 0 .. m
    BY <1>1, <2>1
  <2>6. U(k) = U(k - 1) + SelectParameters(s)
    BY <2>1, QuerySums
  <2>7. ASSUME NEW d \in Nat, c < d, d \in DOMAIN Conditions(s)
        PROVE  B(k, c) <= B(k, d - 1) /\ B(k, d - 1) \in Nat
    <3>1. d - 1 \in 0 .. l /\ c \in 0 .. d - 1
      BY <2>2, <2>3, <2>7
    <3> QED BY <2>2, <3>1
  <2>8. First(k, c) = U(k - 1) + B(k, c - 1)
    BY DEF First
  <2>9. U(k - 1) \in Nat /\ U(k) \in Nat
    BY <1>1, <2>5
  <2>10. U(k - 1) + B(k, c) <= U(k)
    <3> HIDE DEF U, B, P, k, c, s
    <3> QED BY <2>4, <2>6, <2>9
  <2>11. k \in 1 .. m /\ c \in Nat \ {0} /\ r = <<k, c>>
    BY <2>1, <2>2, <2>3
  <2> HIDE DEF U, B, P
  <2> QED BY <2>4, <2>7, <2>8, <2>9, <2>10, <2>11
<1> HIDE DEF m, U, B, P
<1>3. First(p[1], p[2]) \in Nat /\ Cond(p[1], p[2]) \in Condition
  BY <1>2
<1>4. ASSUME NEW r \in Places, NEW i \in 0 .. m, r[1] <= i
      PROVE  First(r[1], r[2]) + P(r[1], r[2]) <= U(i)
  <2>1. r[1] \in 0 .. i
    BY <1>1, <1>2, <1>4
  <2>2. U(i) \in Nat /\ U(r[1]) <= U(i)
    BY <1>1, <2>1
  <2> QED BY <1>2, <2>2
<1>5. First(p[1], p[2]) + P(p[1], p[2]) <= QueryParameters(query)
  <2>1. m \in 0 .. m /\ p[1] <= m
    BY <1>1, <1>2
  <2> QED BY <1>1, <1>4, <2>1
<1>6. ASSUME NEW r \in Places, NEW u \in Places, r[1] < u[1]
      PROVE  First(r[1], r[2]) + P(r[1], r[2]) <= First(u[1], u[2])
  <2>1. u[1] - 1 \in 0 .. m /\ r[1] <= u[1] - 1
    BY <1>1, <1>2, <1>6
  <2>2. First(r[1], r[2]) + P(r[1], r[2]) <= U(u[1] - 1)
    BY <1>4, <2>1
  <2> QED BY <1>2, <2>2
<1>7. ASSUME NEW r \in Places, NEW u \in Places, r[1] = u[1], r[2] < u[2]
      PROVE  First(r[1], r[2]) + P(r[1], r[2]) <= First(u[1], u[2])
  <2>1. u[2] \in Nat /\ u[2] \in DOMAIN Conditions(query.selects[r[1]])
    BY <1>7 DEF Places
  <2>2. B(r[1], r[2]) <= B(r[1], u[2] - 1)
    BY <1>2, <1>7, <2>1
  <2> QED BY <1>2, <1>7, <2>2
<1>8. ASSUME NEW r \in Places, p # r
      PROVE  \/ First(p[1], p[2]) + P(p[1], p[2]) <= First(r[1], r[2])
             \/ First(r[1], r[2]) + P(r[1], r[2]) <= First(p[1], p[2])
  <2>1. p[1] < r[1] \/ r[1] < p[1] \/ (p[1] = r[1] /\ p[2] < r[2]) \/ (r[1] = p[1] /\ r[2] < p[2])
    <3>1. p[1] # r[1] \/ p[2] # r[2]
      BY <1>2, <1>8
    <3>2. p[1] \in Nat /\ p[2] \in Nat /\ r[1] \in Nat /\ r[2] \in Nat
      BY <1>1, <1>2
    <3> QED BY <3>1, <3>2
  <2> QED BY <1>6, <1>7, <2>1
<1> QED
  BY <1>3, <1>5, <1>8 DEF P

LEMMA IndexedSame ==
    ASSUME NEW e \in Condition, NEW i \in Nat
    PROVE  /\ Indexed(e, i) \in Condition
           /\ Indexed(e, i) = NoFilter <=> e = NoFilter
           /\ ParametersIn(Indexed(e, i)) = ParametersIn(e)
<1>1. CASE e = NoFilter
  BY <1>1 DEF Indexed
<1>2. CASE e # NoFilter
  <2>1. e \in Expr /\ Indexed(e, i) = generateIndices(e, i)
    BY <1>2 DEF Condition, Indexed
  <2>2. Indexed(e, i) \in Expr /\ Indexed(e, i) # NoFilter
    BY <2>1, IndicesType, NoFilterIsNone
  <2> QED BY <1>2, <2>1, <2>2, ParametersNumbered DEF Condition, ParametersIn
<1> QED
  BY <1>1, <1>2

LEMMA SelectParametersNumbered ==
    ASSUME NEW s \in SelectPart, NEW idx \in Nat
    PROVE  SelectParameters(NumberedSelect(s, idx)) = SelectParameters(s)
<1> DEFINE t == NumberedSelect(s, idx)
           m == Len(s.joins) + 2
           C == Conditions(s)
           D == Conditions(t)
<1>1. /\ DOMAIN C = 1 .. m /\ m \in Nat /\ \A c \in 1 .. m : C[c] \in Condition
      /\ \A c \in 0 .. m : ParametersBefore(s, c) \in Nat
  BY SelectSums
<1>2. /\ DOMAIN D = DOMAIN C /\ Len(t.joins) = Len(s.joins)
      /\ \A c \in DOMAIN C : D[c] = Indexed(C[c], idx + ParametersBefore(s, c - 1))
  BY NumberedSelectShape
<1> HIDE DEF t, C, D, m
<1>3. ASSUME NEW c \in DOMAIN C PROVE ParametersIn(D[c]) = ParametersIn(C[c])
  <2>1. c - 1 \in 0 .. m
    BY <1>1
  <2>2. idx + ParametersBefore(s, c - 1) \in Nat
    BY <1>1, <2>1
  <2> QED BY <1>1, <1>2, <2>2, IndexedSame
<1>4. [c \in DOMAIN D |-> ParametersIn(D[c])] = [c \in DOMAIN C |-> ParametersIn(C[c])]
  BY <1>2, <1>3
<1> QED
  BY <1>2, <1>4 DEF SelectParameters, ParametersBefore, t, C, D

LEMMA NumberedShape ==
    ASSUME Built
    PROVE  LET q == Numbered(query)
               m == Len(query.selects) IN
           /\ q.order = query.order /\ q.limit = query.limit
           /\ DOMAIN q.selects = 1 .. m /\ Len(q.selects) = m
           /\ \A k \in 1 .. m :
                 /\ q.selects[k] = NumberedSelect(query.selects[k], ParametersUntil(query, k - 1))
                 /\ ParametersUntil(query, k - 1) \in Nat /\ query.selects[k] \in SelectPart
           /\ QueryParameters(q) = QueryParameters(query)
<1> DEFINE q == Numbered(query)
           m == Len(query.selects)
           S == [k \in DOMAIN query.selects |->
                    NumberedSelect(query.selects[k], ParametersUntil(query, k - 1))]
<1>1. q = [query EXCEPT !.selects = S] /\ query \in Query
  BY DEF Numbered, Built, Shape
<1> HIDE DEF S
<1>2. q.selects = S /\ q.order = query.order /\ q.limit = query.limit
  BY <1>1, OtherSelects
<1>3. /\ DOMAIN query.selects = 1 .. m /\ m \in Nat
      /\ \A k \in 1 .. m : query.selects[k] \in SelectPart
      /\ \A k \in 0 .. m : ParametersUntil(query, k) \in Nat
  BY QuerySums
<1>4. \A k \in 1 .. m : k - 1 \in 0 .. m
  BY <1>3
<1>5. DOMAIN S = 1 .. m /\ Len(S) = m
  BY <1>3 DEF S
<1>6. \A k \in 1 .. m : S[k] = NumberedSelect(query.selects[k], ParametersUntil(query, k - 1))
  BY <1>3 DEF S
<1>7. \A k \in 1 .. m : SelectParameters(S[k]) = SelectParameters(query.selects[k])
  BY <1>3, <1>4, <1>6, SelectParametersNumbered
<1>8. [k \in DOMAIN S |-> SelectParameters(S[k])]
         = [k \in DOMAIN query.selects |-> SelectParameters(query.selects[k])]
  BY <1>3, <1>5, <1>7
<1>9. QueryParameters(q) = QueryParameters(query)
  BY <1>2, <1>5, <1>8 DEF QueryParameters, ParametersUntil
<1> QED
  BY <1>2, <1>3, <1>4, <1>5, <1>6, <1>9

\* The conditions of the numbered query.
LEMMA ConditionsNumbered ==
    ASSUME Built, NEW k \in 1 .. Len(query.selects)
    PROVE  LET t == Numbered(query).selects[k]
               s == query.selects[k] IN
           /\ DOMAIN Conditions(t) = DOMAIN Conditions(s)
           /\ \A c \in DOMAIN Conditions(s) :
                 /\ Conditions(t)[c] = Indexed(Cond(k, c), First(k, c))
                 /\ <<k, c>> \in Places
<1> DEFINE t == Numbered(query).selects[k]
           s == query.selects[k]
<1>1. t = NumberedSelect(s, ParametersUntil(query, k - 1)) /\ s \in SelectPart
  BY NumberedShape
<1>2. /\ DOMAIN Conditions(t) = DOMAIN Conditions(s)
      /\ \A c \in DOMAIN Conditions(s) :
            Conditions(t)[c] = Indexed(Conditions(s)[c], ParametersUntil(query, k - 1)
                                                          + ParametersBefore(s, c - 1))
  BY <1>1, NumberedSelectShape
<1>3. DOMAIN Conditions(s) \subseteq Nat
  BY <1>1, SelectSums
<1> QED
  BY <1>2, <1>3 DEF Cond, First, Places

\* The filters are the numbered conditions of the SELECTs that no SELECT after
\* them is as high as.
LEMMA FiltersAre ==
    ASSUME Built
    PROVE  LET F == getFilters(Numbered(query)) IN
           /\ \A p \in DOMAIN F :
                 /\ p \in Places /\ Cond(p[1], p[2]) \in Expr
                 /\ F[p] = generateIndices(Cond(p[1], p[2]), First(p[1], p[2]))
           /\ \A p \in Places :
                 /\ Cond(p[1], p[2]) # NoFilter
                 /\ \A i \in 1 .. Len(query.selects) : p[1] < i =>
                        query.selects[p[1]].depth < query.selects[i].depth
                 => p \in DOMAIN F
<1> DEFINE q == Numbered(query)
           F == getFilters(q)
           m == Len(query.selects)
           path == {k \in DOMAIN q.selects :
                      \A i \in DOMAIN q.selects : k < i => q.selects[k].depth < q.selects[i].depth}
           of(k) == {c \in DOMAIN Conditions(q.selects[k]) : Conditions(q.selects[k])[c] # NoFilter}
           D == UNION {{k} \X of(k) : k \in path}
<1>1. DOMAIN F = D /\ \A p \in D : F[p] = Conditions(q.selects[p[1]])[p[2]]
  BY DEF getFilters
<1>2. DOMAIN q.selects = 1 .. m
  BY NumberedShape
<1>3. ASSUME NEW k \in 1 .. m PROVE q.selects[k].depth = query.selects[k].depth
  <2>1. q.selects[k] = NumberedSelect(query.selects[k], ParametersUntil(query, k - 1))
        /\ query.selects[k] \in SelectPart
    BY NumberedShape
  <2> QED BY <2>1, NumberedSelectShape
<1>4. ASSUME NEW k \in 1 .. m, NEW c \in DOMAIN Conditions(query.selects[k])
      PROVE  /\ c \in DOMAIN Conditions(q.selects[k]) /\ <<k, c>> \in Places
             /\ Conditions(q.selects[k])[c] = Indexed(Cond(k, c), First(k, c))
             /\ Conditions(q.selects[k])[c] = NoFilter <=> Cond(k, c) = NoFilter
             /\ Cond(k, c) \in Condition
  <2>1. /\ c \in DOMAIN Conditions(q.selects[k]) /\ <<k, c>> \in Places
        /\ Conditions(q.selects[k])[c] = Indexed(Cond(k, c), First(k, c))
    BY ConditionsNumbered
  <2>2. First(k, c) \in Nat /\ Cond(k, c) \in Condition
    BY <2>1, NumbersApart
  <2> QED BY <2>1, <2>2, IndexedSame
<1>5. \A k \in 1 .. m : DOMAIN Conditions(q.selects[k]) = DOMAIN Conditions(query.selects[k])
  BY ConditionsNumbered
<1> HIDE DEF q, F, D
<1>6. ASSUME NEW p \in DOMAIN F
      PROVE  /\ p \in Places /\ Cond(p[1], p[2]) \in Expr
             /\ F[p] = generateIndices(Cond(p[1], p[2]), First(p[1], p[2]))
  <2>1. PICK k \in path : p \in {k} \X of(k)
    BY <1>1 DEF D
  <2>2. /\ k \in 1 .. m /\ p = <<k, p[2]>> /\ p[1] = k
        /\ p[2] \in DOMAIN Conditions(query.selects[k])
        /\ Conditions(q.selects[k])[p[2]] # NoFilter
    BY <1>2, <1>5, <2>1
  <2>3. /\ <<k, p[2]>> \in Places /\ Cond(k, p[2]) # NoFilter /\ Cond(k, p[2]) \in Condition
        /\ Conditions(q.selects[k])[p[2]] = Indexed(Cond(k, p[2]), First(k, p[2]))
    BY <1>4, <2>2
  <2>4. F[p] = Conditions(q.selects[k])[p[2]]
    BY <1>1, <2>2
  <2> QED BY <2>2, <2>3, <2>4 DEF Condition, Indexed
<1>7. ASSUME NEW p \in Places, Cond(p[1], p[2]) # NoFilter,
             \A i \in 1 .. m : p[1] < i => query.selects[p[1]].depth < query.selects[i].depth
      PROVE  p \in DOMAIN F
  <2>1. /\ p[1] \in 1 .. m /\ p[2] \in DOMAIN Conditions(query.selects[p[1]]) /\ p = <<p[1], p[2]>>
    BY DEF Places
  <2>2. p[1] \in path
    BY <1>2, <1>3, <1>7, <2>1
  <2>3. p[2] \in of(p[1])
    BY <1>4, <1>7, <2>1
  <2>4. p \in {p[1]} \X of(p[1])
    BY <2>1, <2>3
  <2>5. p \in D
    BY <2>2, <2>4 DEF D
  <2> QED BY <1>1, <2>5
<1> QED
  BY <1>6, <1>7 DEF F, q

-----------------------------------------------------------------------------
(* The compiled statement.                                                 *)

\* Every parameter of a filter holds what was bound for its operand.
Filled(filters, values, cells) ==
    \A p \in DOMAIN filters : \A x \in ComparisonsIn(filters[p]) :
        HasParameter(x) => values[x.index + 1] = cells[x.cell]

Compiled ==
    /\ bound \in [Fixed \cup Dynamic -> Value \cup {Null}]
    /\ stage # "compiled" => bound = [c \in Fixed \cup Dynamic |-> Null] /\ slots = <<>>
    /\ stage = "compiled" =>
          /\ stmt.text = Text(Numbered(query)) /\ Prepares(stmt.text)
          /\ stmt.filters = getFilters(Numbered(query))
          /\ slots \in [1 .. QueryParameters(query) -> Value \cup {Null}]
          /\ Filled(stmt.filters, slots, bound)

IInv == Built /\ Compiled

\* The parameters of the filters: their numbers are those of slots, and their
\* operands are in their cells.
LEMMA ParametersOfFilter ==
    ASSUME Built, NEW p \in DOMAIN getFilters(Numbered(query)),
           NEW x \in ComparisonsIn(getFilters(Numbered(query))[p]), HasParameter(x)
    PROVE  /\ p \in Places /\ p[1] \in Nat /\ p[2] \in Nat
           /\ x.index \in First(p[1], p[2]) .. First(p[1], p[2]) + ParametersIn(Cond(p[1], p[2])) - 1
           /\ x.index + 1 \in 1 .. QueryParameters(query)
           /\ x.param \in {"fixed", "dynamic"}
           /\ x.param = "fixed" => x.cell \in Fixed
           /\ x.param = "dynamic" => x.cell \in Dynamic
<1> DEFINE F == getFilters(Numbered(query))
           e == Cond(p[1], p[2])
           n == First(p[1], p[2])
<1>1. p \in Places /\ e \in Expr /\ F[p] = generateIndices(e, n)
  BY FiltersAre
<1>2. n \in Nat /\ n + ParametersIn(e) <= QueryParameters(query)
  BY <1>1, NumbersApart
<1>3. ParametersIn(e) = Parameters(e) /\ Parameters(e) \in Nat
  BY <1>1, NoFilterIsNone, ParametersType DEF ParametersIn
<1>4. x.index \in n .. n + Parameters(e) - 1
  BY <1>1, <1>2, NumbersDistinct
<1>5. QueryParameters(query) \in Nat
  BY QuerySums
<1>6. x.index + 1 \in 1 .. QueryParameters(query)
  <2> HIDE DEF n, e
  <2> QED BY <1>2, <1>3, <1>4, <1>5
<1>7. PICK y \in ComparisonsIn(e), i \in Nat : x = Renumbered(y, i)
  BY <1>1, <1>2, ComparisonsNumbered
<1>8. y \in Simple
  BY <1>1, ComparisonsType
<1>9. HasParameter(y) /\ x.param = y.param /\ x.cell = y.cell /\ y.param \in {"fixed", "dynamic"}
  <2>1. HasParameter(y) /\ (y.kind # "columns" => x.param = y.param /\ x.cell = y.cell)
    BY <1>7, <1>8, RenumberedSame
  <2>2. y.kind # "columns" /\ y.param # "nullptr"
    BY <2>1 DEF HasParameter
  <2>3. y.param \in {"fixed", "dynamic"}
    BY <1>8, <2>2 DEF Simple
  <2> QED BY <2>1, <2>2, <2>3
<1>10. InCells(e)
  <2>1. /\ p[1] \in 1 .. Len(query.selects) /\ p[2] \in DOMAIN Conditions(query.selects[p[1]])
    BY <1>1 DEF Places
  <2>2. query.selects[p[1]] \in SelectPart /\ p[1] \in DOMAIN query.selects
    BY <2>1, QuerySums
  <2>3. e \in CondsOf(query.selects[p[1]])
    BY <2>1, <2>2, SelectPartShape, ConditionsAre DEF Cond
  <2> QED BY <1>1, <2>2, <2>3, NoFilterIsNone DEF Built, OperandsInCells
<1>11. y.cell \in IF y.param = "fixed" THEN Fixed ELSE Dynamic
  BY <1>7, <1>9, <1>10 DEF InCells
<1>12. p[1] \in Nat /\ p[2] \in Nat
  BY <1>1, QuerySums DEF Places
<1> QED
  BY <1>1, <1>3, <1>4, <1>6, <1>9, <1>11, <1>12

\* Two comparisons have no number in common.
LEMMA OneComparison ==
    ASSUME Built,
           NEW p \in DOMAIN getFilters(Numbered(query)),
           NEW x \in ComparisonsIn(getFilters(Numbered(query))[p]), HasParameter(x),
           NEW r \in DOMAIN getFilters(Numbered(query)),
           NEW y \in ComparisonsIn(getFilters(Numbered(query))[r]), HasParameter(y),
           x.index = y.index
    PROVE  p = r /\ x = y
<1> DEFINE F == getFilters(Numbered(query))
           A(u) == First(u[1], u[2])
           P(u) == ParametersIn(Cond(u[1], u[2]))
<1>1. /\ p \in Places /\ x.index \in A(p) .. A(p) + P(p) - 1
      /\ r \in Places /\ y.index \in A(r) .. A(r) + P(r) - 1
  BY ParametersOfFilter
<1>2. A(p) \in Nat /\ A(r) \in Nat /\ P(p) \in Nat /\ P(r) \in Nat
  BY <1>1, NumbersApart, ParametersInType
<1>3. p # r => A(p) + P(p) <= A(r) \/ A(r) + P(r) <= A(p)
  BY <1>1, NumbersApart
<1>4. p = r
  <2> HIDE DEF A, P
  <2> QED BY <1>1, <1>2, <1>3
<1>5. F[p] = generateIndices(Cond(p[1], p[2]), A(p)) /\ Cond(p[1], p[2]) \in Expr
  BY FiltersAre
<1>6. x = y
  <2>1. \A u, v \in ComparisonsIn(generateIndices(Cond(p[1], p[2]), A(p))) :
           HasParameter(u) /\ HasParameter(v) /\ v.index = u.index => v = u
    BY <1>2, <1>5, NumbersDistinct
  <2>2. x \in ComparisonsIn(F[p]) /\ y \in ComparisonsIn(F[p])
    BY <1>4
  <2> HIDE DEF F, A
  <2> QED BY <1>5, <2>1, <2>2
<1> QED
  BY <1>4, <1>6

\* What bind() makes of a parameter that it selects, and of the others.
LEMMA BindAllGives ==
    ASSUME Built, NEW b, NEW F, F = getFilters(Numbered(query)),
           DOMAIN slots = 1 .. QueryParameters(query)
    PROVE  /\ DOMAIN BindAll(F, b) = DOMAIN slots
           /\ \A p \in DOMAIN F : \A x \in ComparisonsIn(F[p]) :
                 HasParameter(x) => BindAll(F, b)[x.index + 1] =
                     IF x.param \in BindParameters[b] THEN memory[x.cell] ELSE slots[x.index + 1]
           /\ \A n \in DOMAIN slots : BindAll(F, b)[n] = slots[n] \/
                 \E p \in DOMAIN F : \E x \in ComparisonsIn(F[p]) :
                     HasParameter(x) /\ BindAll(F, b)[n] = memory[x.cell]
<1> DEFINE By(n) == Binding(F, b, n)
           last(n) == CHOOSE p \in By(n) :
                         \A r \in By(n) : r[1] < p[1] \/ (r[1] = p[1] /\ r[2] <= p[2])
<1>1. /\ DOMAIN BindAll(F, b) = DOMAIN slots
      /\ \A n \in DOMAIN slots : BindAll(F, b)[n] =
            IF By(n) = {} THEN slots[n] ELSE bind(F[last(n)], b, slots, memory)[n]
  BY DEF BindAll
<1>2. ASSUME NEW p \in DOMAIN F, NEW x \in ComparisonsIn(F[p]), HasParameter(x),
             x.param \in BindParameters[b]
      PROVE  BindAll(F, b)[x.index + 1] = memory[x.cell]
  <2> DEFINE n == x.index + 1
  <2>1. n \in DOMAIN slots /\ x.index \in Int /\ p[1] \in Nat /\ p[2] \in Nat
    <3>1. /\ n \in 1 .. QueryParameters(query) /\ p[1] \in Nat /\ p[2] \in Nat
          /\ x.index \in First(p[1], p[2]) .. First(p[1], p[2]) + ParametersIn(Cond(p[1], p[2])) - 1
      BY <1>2, ParametersOfFilter
    <3> QED BY <3>1
  <2>2. p \in By(n)
    BY <1>2 DEF Binding
  <2>3. ASSUME NEW r \in By(n) PROVE r = p
    <3>1. PICK y \in ComparisonsIn(F[r]) : r \in DOMAIN F /\ HasParameter(y) /\ y.index + 1 = n
      BY DEF Binding
    <3>2. y.index \in Int
      BY <3>1, ParametersOfFilter
    <3>3. y.index = x.index
      BY <2>1, <3>1, <3>2
    <3> QED BY <1>2, <3>1, <3>3, OneComparison
  <2>4. By(n) = {p}
    BY <2>2, <2>3
  <2>5. last(n) = p
    <3> HIDE DEF By
    <3> QED BY <2>1, <2>4
  <2>6. BindAll(F, b)[n] = bind(F[p], b, slots, memory)[n]
    <3> HIDE DEF By, last
    <3> QED BY <1>1, <2>1, <2>4, <2>5
  <2>7. /\ Cond(p[1], p[2]) \in Expr /\ First(p[1], p[2]) \in Nat
        /\ F[p] = generateIndices(Cond(p[1], p[2]), First(p[1], p[2]))
    BY FiltersAre, NumbersApart
  <2>8. \A y \in ComparisonsIn(F[p]) : HasParameter(y) => y.index + 1 \in DOMAIN slots
    BY ParametersOfFilter
  <2>9. bind(F[p], b, slots, memory)[n] = memory[x.cell]
    <3> DEFINE e == Cond(p[1], p[2])
               m == First(p[1], p[2])
    <3>1. e \in Expr /\ m \in Nat /\ F[p] = generateIndices(e, m)
      BY <2>7
    <3> HIDE DEF e, m
    <3>2. \A y \in ComparisonsIn(generateIndices(e, m)) :
             HasParameter(y) => y.index + 1 \in DOMAIN slots
      BY <2>8, <3>1
    <3>3. /\ x \in ComparisonsIn(generateIndices(e, m)) /\ HasParameter(x)
          /\ x.param \in BindParameters[b]
      BY <1>2, <3>1
    <3> DEFINE i == generateIndices(e, m)
               after == bind(i, b, slots, memory)
    <3>4. \A y \in ComparisonsIn(i) : HasParameter(y) =>
             after[y.index + 1] = IF y.param \in BindParameters[b] THEN memory[y.cell]
                                  ELSE slots[y.index + 1]
      <4> DEFINE Within(z, j, values) ==
                   \A y \in ComparisonsIn(generateIndices(z, j)) :
                      HasParameter(y) => y.index + 1 \in DOMAIN values
                 Gives(z, j, cells, values) ==
                   \A y \in ComparisonsIn(generateIndices(z, j)) : HasParameter(y) =>
                      bind(generateIndices(z, j), b, values, cells)[y.index + 1] =
                         IF y.param \in BindParameters[b] THEN cells[y.cell] ELSE values[y.index + 1]
      <4>1. \A z \in Expr, j \in Nat : \A cells, values :
               Within(z, j, values) => Gives(z, j, cells, values)
        BY BindsEachParameter
      <4>2. Within(e, m, slots)
        BY <3>2
      <4> HIDE DEF Within, Gives
      <4>3. Gives(e, m, memory, slots)
        BY <3>1, <4>1, <4>2
      <4> QED BY <4>3 DEF Gives
    <3>5. after[x.index + 1] = memory[x.cell]
      BY <3>3, <3>4
    <3> QED BY <3>1, <3>5
  <2> QED BY <2>6, <2>9
<1>3. ASSUME NEW p \in DOMAIN F, NEW x \in ComparisonsIn(F[p]), HasParameter(x),
             x.param \notin BindParameters[b]
      PROVE  BindAll(F, b)[x.index + 1] = slots[x.index + 1]
  <2> DEFINE n == x.index + 1
  <2>1. n \in DOMAIN slots /\ x.index \in Int
    BY <1>3, ParametersOfFilter
  <2>2. ASSUME NEW r \in By(n) PROVE FALSE
    <3>1. PICK y \in ComparisonsIn(F[r]) : /\ r \in DOMAIN F /\ HasParameter(y) /\ y.index + 1 = n
                                           /\ y.param \in BindParameters[b]
      BY DEF Binding
    <3>2. y.index \in Int
      BY <3>1, ParametersOfFilter
    <3>3. y.index = x.index
      BY <2>1, <3>1, <3>2
    <3>4. y = x
      BY <1>3, <3>1, <3>3, OneComparison
    <3> QED BY <1>3, <3>1, <3>4
  <2>3. By(n) = {}
    BY <2>2
  <2> HIDE DEF By, last
  <2> QED BY <1>1, <2>1, <2>3
<1>4. ASSUME NEW n \in DOMAIN slots
      PROVE  BindAll(F, b)[n] = slots[n] \/
             \E p \in DOMAIN F : \E x \in ComparisonsIn(F[p]) :
                 HasParameter(x) /\ BindAll(F, b)[n] = memory[x.cell]
  <2>1. CASE By(n) = {}
    <3> HIDE DEF By, last
    <3> QED BY <1>1, <2>1
  <2>2. CASE By(n) # {}
    <3>1. PICK p \in DOMAIN F : \E x \in ComparisonsIn(F[p]) :
             HasParameter(x) /\ x.param \in BindParameters[b] /\ x.index + 1 = n
      BY <2>2 DEF Binding
    <3>2. PICK x \in ComparisonsIn(F[p]) :
             HasParameter(x) /\ x.param \in BindParameters[b] /\ x.index + 1 = n
      BY <3>1
    <3> HIDE DEF By, last
    <3> QED BY <1>2, <3>2
  <2> QED BY <2>1, <2>2
<1> QED
  BY <1>1, <1>2, <1>3, <1>4

LEMMA CompiledInitially == Init => Compiled
BY DEF Init, Compiled

\* A call of the builder leaves everything alone that Compiled is about.
LEMMA BuildingKeeps ==
    ASSUME Compiled, stage # "compiled", stage' # "compiled", UNCHANGED <<slots, bound>>
    PROVE  Compiled'
BY DEF Compiled

LEMMA CompileKeeps ==
    ASSUME IInv, Compile
    PROVE  Compiled'
<1> DEFINE q == Numbered(query)
           F == getFilters(q)
           n == QueryParameters(query)
           none == [c \in Fixed \cup Dynamic |-> Null]
<1>1. /\ stage = "select" /\ Prepares(Text(q)) /\ stmt' = [text |-> Text(q), filters |-> F]
      /\ slots' = [k \in 1 .. QueryParameters(q) |-> Null] /\ stage' = "compiled"
      /\ query' = query /\ bound' = bound
  BY DEF Compile
<1>2. bound = none
  BY <1>1 DEF IInv, Compiled
<1>3. QueryParameters(q) = n
  BY NumberedShape DEF IInv
<1>4. slots' \in [1 .. n -> Value \cup {Null}]
  BY <1>1, <1>3
<1>5. ASSUME NEW p \in DOMAIN F, NEW x \in ComparisonsIn(F[p]), HasParameter(x)
      PROVE  slots'[x.index + 1] = bound'[x.cell]
  <2>1. x.index + 1 \in 1 .. n /\ x.cell \in Fixed \cup Dynamic
    BY <1>5, ParametersOfFilter DEF IInv
  <2> HIDE DEF n, q
  <2> QED BY <1>1, <1>2, <1>3, <2>1
<1>6. Filled(F, slots', bound')
  BY <1>5 DEF Filled
<1>7. bound' \in [Fixed \cup Dynamic -> Value \cup {Null}]
  BY <1>1 DEF IInv, Compiled
<1>8. stmt'.text = Text(q) /\ stmt'.filters = F
  <2> HIDE DEF F, q
  <2> QED BY <1>1
<1> HIDE DEF F, n
<1> QED
  BY <1>1, <1>4, <1>6, <1>7, <1>8 DEF Compiled, F, n

LEMMA AssignKeeps ==
    ASSUME Compiled, UNCHANGED <<query, stage, stmt, slots, bound>>
    PROVE  Compiled'
BY DEF Compiled

LEMMA BindKeeps ==
    ASSUME IInv, NEW b \in DOMAIN BindParameters, Bind(b)
    PROVE  Compiled'
<1> DEFINE F == getFilters(Numbered(query))
           n == QueryParameters(query)
           fixed == "fixed" \in BindParameters[b]
           dynamic == "dynamic" \in BindParameters[b]
<1>1. /\ stage = "compiled" /\ stage' = stage /\ query' = query /\ stmt' = stmt
      /\ slots' = BindAll(stmt.filters, b)
      /\ bound' = [c \in DOMAIN bound |-> IF (c \in Fixed /\ fixed) \/ (c \in Dynamic /\ dynamic)
                                          THEN memory[c] ELSE bound[c]]
  BY DEF Bind
<1>2. /\ stmt.text = Text(Numbered(query)) /\ Prepares(stmt.text) /\ stmt.filters = F
      /\ slots \in [1 .. n -> Value \cup {Null}] /\ Filled(F, slots, bound)
      /\ bound \in [Fixed \cup Dynamic -> Value \cup {Null}]
  BY <1>1 DEF IInv, Compiled
<1>3. memory \in [Fixed \cup Dynamic -> Value]
  BY DEF IInv, Built, Memory
<1>4. bound' \in [Fixed \cup Dynamic -> Value \cup {Null}]
  <2> HIDE DEF fixed, dynamic
  <2> QED BY <1>1, <1>2, <1>3
<1>5. /\ DOMAIN slots' = DOMAIN slots
      /\ \A p \in DOMAIN F : \A x \in ComparisonsIn(F[p]) :
            HasParameter(x) => slots'[x.index + 1] =
                IF x.param \in BindParameters[b] THEN memory[x.cell] ELSE slots[x.index + 1]
      /\ \A k \in DOMAIN slots : slots'[k] = slots[k] \/
            \E p \in DOMAIN F : \E x \in ComparisonsIn(F[p]) :
                HasParameter(x) /\ slots'[k] = memory[x.cell]
  <2>1. slots' = BindAll(F, b) /\ DOMAIN slots = 1 .. n
    <3> HIDE DEF F, n
    <3> QED BY <1>1, <1>2
  <2> QED BY <2>1, BindAllGives DEF IInv
<1>6. ASSUME NEW p \in DOMAIN F, NEW x \in ComparisonsIn(F[p]), HasParameter(x)
      PROVE  /\ x.cell \in Fixed \cup Dynamic /\ x.param \in {"fixed", "dynamic"}
             /\ x.param = "fixed" <=> x.cell \in Fixed
             /\ x.param = "dynamic" <=> x.cell \in Dynamic
  BY <1>6, ParametersOfFilter, CellAssumption DEF IInv
<1> HIDE DEF F
<1>7. \A k \in DOMAIN slots : slots'[k] \in Value \cup {Null}
  BY <1>2, <1>3, <1>5, <1>6
<1>8. slots' \in [1 .. n -> Value \cup {Null}]
  <2>1. slots' = [k \in DOMAIN slots |-> slots'[k]]
    BY <1>1, <1>5 DEF BindAll
  <2> QED BY <1>2, <1>7, <2>1
<1>9. ASSUME NEW p \in DOMAIN F, NEW x \in ComparisonsIn(F[p]), HasParameter(x)
      PROVE  slots'[x.index + 1] = bound'[x.cell]
  <2>1. slots[x.index + 1] = bound[x.cell]
    BY <1>2, <1>9 DEF Filled
  <2>2. slots'[x.index + 1] = IF x.param \in BindParameters[b] THEN memory[x.cell]
                              ELSE slots[x.index + 1]
    BY <1>5, <1>9
  <2>3. bound'[x.cell] = IF (x.cell \in Fixed /\ fixed) \/ (x.cell \in Dynamic /\ dynamic)
                         THEN memory[x.cell] ELSE bound[x.cell]
    <3>1. x.cell \in DOMAIN bound
      BY <1>2, <1>6, <1>9
    <3> HIDE DEF fixed, dynamic
    <3> QED BY <1>1, <3>1
  <2>4. x.param \in BindParameters[b] <=> (x.cell \in Fixed /\ fixed) \/ (x.cell \in Dynamic /\ dynamic)
    BY <1>6, <1>9
  <2> QED BY <2>1, <2>2, <2>3, <2>4
<1>10. Filled(F, slots', bound')
  BY <1>9 DEF Filled
<1> QED
  BY <1>1, <1>2, <1>4, <1>8, <1>10 DEF Compiled, F, n

LEMMA IInvKept == IInv /\ [Next]_vars => IInv'
<1> SUFFICES ASSUME IInv, [Next]_vars PROVE IInv'
  OBVIOUS
<1>1. Built'
  BY BuiltKept DEF IInv
<1>2. Compiled
  BY DEF IInv
<1>3. ASSUME stage = "join", \/ \E type \in JoinTypes, t \in Table : JoinTable(type, t)
                             \/ \E e \in Filters : On(e)
                             \/ \E cs \in Groups : Usings(cs)
                             \/ \E cs \in Selections : Select(cs)
      PROVE  Compiled'
  BY <1>2, <1>3, BuildingKeeps DEF JoinTable, On, Usings, Select, BuildsSelect, Builds
<1>4. ASSUME stage = "select", \/ \E e \in Filters : Where(e)
                               \/ \E cs \in Groups : GroupBy(cs)
                               \/ \E e \in Havings : Having(e)
                               \/ \E o \in Orders : OrderBy(o)
                               \/ \E l \in Limits : LimitOffset(l)
                               \/ \E u \in Unions : Unite(u)
      PROVE  Compiled'
  BY <1>2, <1>4, BuildingKeeps
  DEF Where, GroupBy, Having, OrderBy, LimitOffset, Unite, BuildsSelect, Builds
<1>5. ASSUME Compile PROVE Compiled'
  BY <1>5, CompileKeeps
<1>6. ASSUME NEW c \in Dynamic, NEW v \in Value, Assign(c, v) PROVE Compiled'
  BY <1>2, <1>6, AssignKeeps DEF Assign
<1>7. ASSUME NEW b \in DOMAIN BindParameters, Bind(b) PROVE Compiled'
  BY <1>7, BindKeeps
<1>8. ASSUME UNCHANGED vars PROVE Compiled'
  BY <1>2, <1>8, AssignKeeps DEF vars
<1>9. Compiled'
  BY <1>3, <1>4, <1>5, <1>6, <1>7, <1>8 DEF Next
<1> QED
  BY <1>1, <1>9 DEF IInv

\* Once the query is compiled, its text and its filters are those of the numbered
\* query, and every parameter of a filter holds what was bound for its operand.
THEOREM IInvAlways == Spec => []IInv
<1>1. Init => IInv
  BY BuiltInitially, CompiledInitially DEF IInv
<1> QED
  BY <1>1, IInvKept, PTL DEF Spec

\* Every parameter holds NULL or the value of a cell, and every query that the
\* builder makes is one of the SELECTs, joins and clauses that there are.
THEOREM TypeCorrect == Spec => []TypeOK
<1>1. IInv => TypeOK
  <2> SUFFICES ASSUME IInv PROVE TypeOK
    OBVIOUS
  <2>1. slots \in Seq(Value \cup {Null})
    <3>1. CASE stage = "compiled"
      <4>1. slots \in [1 .. QueryParameters(query) -> Value \cup {Null}] /\ QueryParameters(query) \in Nat
        BY <3>1, QuerySums DEF IInv, Compiled
      <4> QED BY <4>1
    <3>2. CASE stage # "compiled"
      BY <3>2 DEF IInv, Compiled
    <3> QED BY <3>1, <3>2
  <2> QED BY <2>1 DEF IInv, Built, Compiled, Shape, Memory, TypeOK
<1> QED
  BY <1>1, IInvAlways, PTL

-----------------------------------------------------------------------------
(* The two readings of a query.                                            *)

SqlTrue(items, g) == items = <<>> \/ Sql(items, g, slots) = 2
Meant(e, g)       == e = NoFilter \/ Holds(e, g, bound) = 2

LeftMeant(s, k, name) ==
    IF s.joins[k].type \in Natural THEN Leftmost(s, k, name) ELSE Last(Before(s, k))

\* The SELECTs s of the text and t of the query have the same clauses, except
\* for their conditions.
SameClauses(s, t) ==
    /\ Len(t.joins) \in Nat /\ Len(s.joins) = Len(t.joins)
    /\ s.first = t.first /\ s.columns = t.columns /\ s.group = t.group
    /\ \A k \in 1 .. Len(t.joins) : /\ s.joins[k].type = t.joins[k].type
                                    /\ s.joins[k].table = t.joins[k].table
                                    /\ s.joins[k].usings = t.joins[k].usings

\* Their conditions are true on the same groups, and their joins take columns
\* from the same tables.
SameMeaning(s, t) ==
    /\ \A k \in 1 .. Len(t.joins) : \A g : SqlTrue(s.joins[k].on, g) <=> Meant(t.joins[k].on, g)
    /\ \A g : SqlTrue(s.where, g) <=> Meant(t.where, g)
    /\ \A g : SqlTrue(s.having, g) <=> Meant(t.having, g)
    /\ \A k \in 1 .. Len(t.joins) : \A n \in JoinNames(t, k) : Leftmost(s, k, n) = LeftMeant(t, k, n)

LEMMA SameNames ==
    ASSUME NEW s, NEW t, SameClauses(s, t)
    PROVE  /\ \A k \in 1 .. Len(t.joins) + 1 : Before(s, k) = Before(t, k)
           /\ \A k \in 1 .. Len(t.joins) : JoinNames(s, k) = JoinNames(t, k)
<1>1. ASSUME NEW k \in 1 .. Len(t.joins) + 1 PROVE Before(s, k) = Before(t, k)
  <2>1. \A i \in 1 .. k - 1 : s.joins[i].table = t.joins[i].table
    BY DEF SameClauses
  <2>2. [i \in 1 .. k - 1 |-> s.joins[i].table] = [i \in 1 .. k - 1 |-> t.joins[i].table]
    BY <2>1
  <2>3. s.first = t.first
    BY DEF SameClauses
  <2> QED BY <2>2, <2>3 DEF Before
<1>2. ASSUME NEW k \in 1 .. Len(t.joins) PROVE JoinNames(s, k) = JoinNames(t, k)
  <2>1. Before(s, k) = Before(t, k)
    BY <1>1 DEF SameClauses
  <2>2. /\ s.joins[k].type = t.joins[k].type /\ s.joins[k].table = t.joins[k].table
        /\ s.joins[k].usings = t.joins[k].usings
    BY DEF SameClauses
  <2> QED BY <2>1, <2>2 DEF JoinNames
<1> QED
  BY <1>1, <1>2

LEMMA SameFits ==
    ASSUME NEW s, NEW t, SameClauses(s, t), SameMeaning(s, t), NEW k \in 1 .. Len(t.joins), NEW row
    PROVE  Fits(s, k, row, SqlTrue, Leftmost) <=> Fits(t, k, row, Meant, LeftMeant)
<1>1. SqlTrue(s.joins[k].on, <<row>>) <=> Meant(t.joins[k].on, <<row>>)
  BY DEF SameMeaning
<1>2. JoinNames(s, k) = JoinNames(t, k) /\ s.joins[k].table = t.joins[k].table
  BY SameNames DEF SameClauses
<1>3. \A n \in JoinNames(t, k) : Leftmost(s, k, n) = LeftMeant(t, k, n)
  BY DEF SameMeaning
<1> DEFINE equal(l, n) == LET r == t.joins[k].table
                          IN  Compare(row[l][IndexOf(l, n)], "=", row[r][IndexOf(r, n)]) = 2
<1>4. Fits(s, k, row, SqlTrue, Leftmost) <=>
         SqlTrue(s.joins[k].on, <<row>>) /\ \A n \in JoinNames(s, k) : equal(Leftmost(s, k, n), n)
  BY <1>2 DEF Fits
<1>5. Fits(t, k, row, Meant, LeftMeant) <=>
         Meant(t.joins[k].on, <<row>>) /\ \A n \in JoinNames(t, k) : equal(LeftMeant(t, k, n), n)
  BY DEF Fits
<1> HIDE DEF equal
<1> QED
  BY <1>1, <1>2, <1>3, <1>4, <1>5

LEMMA SameFrom ==
    ASSUME NEW s, NEW t, SameClauses(s, t), SameMeaning(s, t)
    PROVE  From(s, SqlTrue, Leftmost) = From(t, Meant, LeftMeant)
<1> DEFINE m == Len(t.joins)
           start == [i \in DOMAIN data[t.first] |-> [u \in {t.first} |-> data[t.first][i]]]
           pairs(f, k) == Pairs(f[k - 1], t.joins[k].table)
           row(f, k, i) == With(pairs(f, k)[i][1], t.joins[k].table, pairs(f, k)[i][2])
           step(f, k, fit) == JoinRows(f[k - 1], ToSet(Before(t, k)), t.joins[k].type,
                                       t.joins[k].table, Kept(pairs(f, k), fit))
           fit1(f, k) == {i \in DOMAIN pairs(f, k) : Fits(s, k, row(f, k, i), SqlTrue, Leftmost)}
           fit2(f, k) == {i \in DOMAIN pairs(f, k) : Fits(t, k, row(f, k, i), Meant, LeftMeant)}
           body1(f, k) ==
             IF k = 0 THEN [i \in DOMAIN data[s.first] |-> [u \in {s.first} |-> data[s.first][i]]]
             ELSE LET right == s.joins[k].table
                      ps    == Pairs(f[k - 1], right)
                      fit   == {i \in DOMAIN ps :
                                  Fits(s, k, With(ps[i][1], right, ps[i][2]), SqlTrue, Leftmost)}
                  IN  JoinRows(f[k - 1], ToSet(Before(s, k)), s.joins[k].type, right, Kept(ps, fit))
           body2(f, k) == IF k = 0 THEN start ELSE step(f, k, fit2(f, k))
<1>1. From(s, SqlTrue, Leftmost) =
         LET joined[k \in 0 .. Len(s.joins)] == body1(joined, k) IN joined[Len(s.joins)]
  BY DEF From
<1>2. From(t, Meant, LeftMeant) = LET joined[k \in 0 .. m] == body2(joined, k) IN joined[m]
  BY DEF From
<1>3. ASSUME NEW f, NEW k \in 0 .. m PROVE body1(f, k) = body2(f, k)
  <2>1. CASE k = 0
    BY <2>1 DEF SameClauses
  <2>2. CASE k # 0
    <3>1. k \in 1 .. m /\ k \in 1 .. m + 1
      BY <2>2 DEF SameClauses
    <3>2. /\ s.joins[k].type = t.joins[k].type /\ s.joins[k].table = t.joins[k].table
          /\ Before(s, k) = Before(t, k)
      BY <3>1, SameNames DEF SameClauses
    <3>3. body1(f, k) = step(f, k, fit1(f, k))
      BY <2>2, <3>2
    <3>4. \A i : Fits(s, k, row(f, k, i), SqlTrue, Leftmost)
                    <=> Fits(t, k, row(f, k, i), Meant, LeftMeant)
      <4> HIDE DEF row
      <4> QED BY <3>1, SameFits
    <3>5. fit1(f, k) = fit2(f, k)
      <4> HIDE DEF row, pairs
      <4> QED BY <3>4
    <3>6. body2(f, k) = step(f, k, fit2(f, k))
      BY <2>2
    <3> HIDE DEF body1, body2, step, fit1, fit2
    <3> QED BY <3>3, <3>5, <3>6
  <2> QED BY <2>1, <2>2
<1>4. Len(s.joins) = m
  BY DEF SameClauses
<1> HIDE DEF body1, body2, m
<1>5. \A f : [k \in 0 .. m |-> body1(f, k)] = [k \in 0 .. m |-> body2(f, k)]
  BY <1>3
<1> QED
  BY <1>1, <1>2, <1>4, <1>5

LEMMA SameRows ==
    ASSUME NEW s, NEW t, SameClauses(s, t), SameMeaning(s, t)
    PROVE  SelectRows(s, SqlTrue, Leftmost) = SelectRows(t, Meant, LeftMeant)
<1> DEFINE from == From(t, Meant, LeftMeant)
           where1 == {i \in DOMAIN from : SqlTrue(s.where, <<from[i]>>)}
           where2 == {i \in DOMAIN from : Meant(t.where, <<from[i]>>)}
           groups(w) == GroupsOf(Kept(from, w), t.group, t.columns)
           having1(w) == {k \in DOMAIN groups(w) : SqlTrue(s.having, groups(w)[k])}
           having2(w) == {k \in DOMAIN groups(w) : Meant(t.having, groups(w)[k])}
           rows(w, h) == LET kept == Kept(groups(w), h)
                         IN  [k \in DOMAIN kept |->
                                 [i \in DOMAIN t.columns |-> ValueOf(t.columns[i], kept[k])]]
<1>1. From(s, SqlTrue, Leftmost) = from
  BY SameFrom
<1>2. s.group = t.group /\ s.columns = t.columns
  BY DEF SameClauses
<1>3. SelectRows(s, SqlTrue, Leftmost) = rows(where1, having1(where1))
  BY <1>1, <1>2 DEF SelectRows
<1>4. SelectRows(t, Meant, LeftMeant) = rows(where2, having2(where2))
  BY DEF SelectRows
<1>5. where1 = where2
  <2> HIDE DEF from
  <2> QED BY DEF SameMeaning
<1>6. \A w : having1(w) = having2(w)
  <2> HIDE DEF groups
  <2> QED BY DEF SameMeaning
<1> HIDE DEF rows, having1, having2, where1, where2
<1> QED
  BY <1>3, <1>4, <1>5, <1>6

\* SELECT k of the text.
TextOf(k) == SelectText(Numbered(query).selects[k])

LEMMA TextClauses ==
    ASSUME Built, NEW k \in 1 .. Len(query.selects)
    PROVE  /\ SameClauses(TextOf(k), query.selects[k]) /\ TextOf(k).op = query.selects[k].op
           /\ DOMAIN TextOf(k).joins = 1 .. Len(query.selects[k].joins)
           /\ \A c \in 1 .. Len(query.selects[k].joins) :
                 TextOf(k).joins[c].on = ConditionText(Conditions(Numbered(query).selects[k])[c])
           /\ LET n == Len(query.selects[k].joins) IN
              /\ TextOf(k).where = ConditionText(Conditions(Numbered(query).selects[k])[n + 1])
              /\ TextOf(k).having = ConditionText(Conditions(Numbered(query).selects[k])[n + 2])
<1> DEFINE s == query.selects[k]
           t == Numbered(query).selects[k]
           n == Len(s.joins)
           J == [c \in DOMAIN t.joins |-> [t.joins[c] EXCEPT !.on = ConditionText(t.joins[c].on)]]
<1>1. s \in SelectPart /\ t = NumberedSelect(s, ParametersUntil(query, k - 1))
  BY NumberedShape
<1>2. /\ t.op = s.op /\ t.first = s.first /\ t.columns = s.columns /\ t.group = s.group
      /\ Len(t.joins) = n /\ DOMAIN t.joins = 1 .. n /\ n \in Nat
      /\ \A c \in 1 .. n : /\ t.joins[c].type = s.joins[c].type
                           /\ t.joins[c].table = s.joins[c].table
                           /\ t.joins[c].usings = s.joins[c].usings
  BY <1>1, NumberedSelectShape, SelectPartShape
<1>3. /\ TextOf(k).op = t.op /\ TextOf(k).first = t.first /\ TextOf(k).columns = t.columns
      /\ TextOf(k).group = t.group /\ TextOf(k).joins = J
      /\ TextOf(k).where = ConditionText(t.where) /\ TextOf(k).having = ConditionText(t.having)
  BY DEF TextOf, SelectText
<1>4. ASSUME NEW c \in 1 .. n
      PROVE  t.joins[c] = [type |-> s.joins[c].type, table |-> s.joins[c].table,
                           on |-> t.joins[c].on, usings |-> s.joins[c].usings]
  <2> DEFINE N(d) == Indexed(Conditions(s)[d],
                             ParametersUntil(query, k - 1) + ParametersBefore(s, d - 1))
             I == [d \in 1 .. n |-> [s.joins[d] EXCEPT !.on = N(d)]]
  <2>1. t = [s EXCEPT !.joins = I, !.where = N(n + 1), !.having = N(n + 2)]
    BY <1>1 DEF NumberedSelect
  <2>2. s.joins[c] \in JoinPart
    BY <1>1, SelectPartShape
  <2> HIDE DEF N, t
  <2>3. t.joins = I
    <3> HIDE DEF I
    <3> QED BY <1>1, <2>1 DEF SelectPart
  <2>4. t.joins[c] = [s.joins[c] EXCEPT !.on = N(c)]
    BY <2>3
  <2> HIDE DEF I
  <2> QED BY <2>2, <2>4 DEF JoinPart
<1>5. ASSUME NEW c \in 1 .. n
      PROVE  /\ J[c].type = s.joins[c].type /\ J[c].table = s.joins[c].table
             /\ J[c].usings = s.joins[c].usings /\ J[c].on = ConditionText(t.joins[c].on)
  <2>1. J[c] = [t.joins[c] EXCEPT !.on = ConditionText(t.joins[c].on)]
    BY <1>2
  <2> DEFINE tc == t.joins[c]
             sc == s.joins[c]
             on == ConditionText(tc.on)
             Jc == J[c]
  <2>2. tc = [type |-> sc.type, table |-> sc.table, on |-> tc.on, usings |-> sc.usings]
    BY <1>4
  <2>3. Jc = [tc EXCEPT !.on = on]
    BY <2>1
  <2> HIDE DEF J, s, t, tc, sc, on, Jc
  <2>4. /\ Jc.type = sc.type /\ Jc.table = sc.table
        /\ Jc.usings = sc.usings /\ Jc.on = on
    BY <2>2, <2>3
  <2> QED BY <2>4 DEF tc, sc, on, Jc
<1>6. DOMAIN J = 1 .. n /\ Len(J) = n
  BY <1>2
<1>7. /\ \A c \in 1 .. n : Conditions(t)[c] = t.joins[c].on
      /\ Conditions(t)[n + 1] = t.where /\ Conditions(t)[n + 2] = t.having
  BY <1>2 DEF Conditions
<1> HIDE DEF J, s, t, n
<1>8. SameClauses(TextOf(k), s)
  BY <1>2, <1>3, <1>5, <1>6 DEF SameClauses, n
<1> QED
  BY <1>2, <1>3, <1>5, <1>6, <1>7, <1>8 DEF s, t, n

\* A condition of the text is true where the condition of the query is.
LEMMA ConditionMeant ==
    ASSUME IInv, stage = "compiled", Faithful(query),
           NEW k \in 1 .. Len(query.selects), NEW c \in DOMAIN Conditions(query.selects[k]), NEW g
    PROVE  SqlTrue(ConditionText(Conditions(Numbered(query).selects[k])[c]), g)
              <=> Meant(Conditions(query.selects[k])[c], g)
<1> DEFINE e == Cond(k, c)
           n == First(k, c)
           p == <<k, c>>
           F == getFilters(Numbered(query))
<1>1. /\ Conditions(Numbered(query).selects[k])[c] = Indexed(e, n) /\ p \in Places
      /\ p[1] = k /\ p[2] = c
  BY ConditionsNumbered DEF IInv
<1>2. n \in Nat /\ e \in Condition
  BY <1>1, NumbersApart DEF IInv
<1>3. CASE e = NoFilter
  BY <1>1, <1>3 DEF Indexed, ConditionText, SqlTrue, Meant, Cond
<1>4. CASE e # NoFilter
  <2>1. e \in Expr /\ Indexed(e, n) = generateIndices(e, n) /\ generateIndices(e, n) \in Expr
    BY <1>2, <1>4, IndicesType DEF Condition, Indexed
  <2>2. ConditionText(Indexed(e, n)) = toString(generateIndices(e, n))
    BY <2>1, NoFilterIsNone DEF ConditionText
  <2>3. toString(generateIndices(e, n)) # <<>>
    BY <2>1, TextType
  <2>4. ASSUME NEW x \in ComparisonsIn(generateIndices(e, n)), HasParameter(x)
        PROVE  slots[x.index + 1] = bound[x.cell]
    <3>1. k = 1 \/ k = Len(query.selects)
      <4> SUFFICES ASSUME k \in 2 .. Len(query.selects) - 1 PROVE FALSE
        BY QuerySums DEF IInv
      <4>1. SelectParameters(query.selects[k]) = 0 /\ query.selects[k] \in SelectPart
        BY QuerySums DEF IInv, Faithful
      <4>2. Parameters(generateIndices(e, n)) # 0
        BY <2>1, <2>4, ParametersCounted
      <4>3. ParametersIn(e) = Parameters(e) /\ Parameters(e) # 0 /\ Parameters(e) \in Nat
        BY <1>2, <1>4, <2>1, <4>2, ParametersNumbered, ParametersType DEF ParametersIn
      <4> DEFINE s == query.selects[k]
                 m == Len(s.joins) + 2
      <4>4. /\ c \in 1 .. m /\ m \in Nat /\ ParametersBefore(s, m) = 0
            /\ \A d \in 0 .. m : ParametersBefore(s, d) \in Nat
            /\ \A d \in 0 .. m : \A i \in 0 .. d : ParametersBefore(s, i) <= ParametersBefore(s, d)
            /\ ParametersBefore(s, c) = ParametersBefore(s, c - 1) + ParametersIn(e)
        BY <4>1, SelectSums DEF Cond
      <4> HIDE DEF s, m, e
      <4>5. c \in 0 .. m /\ m \in 0 .. m /\ c - 1 \in 0 .. m /\ c \in 0 .. m
        BY <4>4
      <4>6. ParametersBefore(s, c) <= 0 /\ ParametersBefore(s, c - 1) \in Nat
        BY <4>4, <4>5
      <4> QED BY <4>3, <4>4, <4>6
    <3>2. \A i \in 1 .. Len(query.selects) : k < i => query.selects[k].depth < query.selects[i].depth
      <4> SUFFICES ASSUME NEW i \in 1 .. Len(query.selects), k < i
                   PROVE  query.selects[k].depth < query.selects[i].depth
        OBVIOUS
      <4>1. k = 1 /\ i \in 2 .. Len(query.selects) /\ query.selects[i] \in SelectPart
        BY <3>1, QuerySums DEF IInv
      <4>2. query.selects[1].depth = 0 /\ query.selects[i].depth # 0
        BY <4>1 DEF IInv, Built, Shape, Main
      <4>3. query.selects[i].depth \in Nat
        <5>1. \A s \in SelectPart : s.depth \in Nat
          BY DEF SelectPart
        <5> QED BY <4>1, <5>1, Zenon
      <4> QED BY <4>1, <4>2, <4>3
    <3>3. p \in DOMAIN F /\ F[p] = generateIndices(e, n)
      <4>1. p \in DOMAIN F
        BY <1>1, <1>4, <3>2, FiltersAre DEF IInv
      <4> QED BY <1>1, <4>1, FiltersAre DEF IInv
    <3>4. Filled(F, slots, bound)
      BY DEF IInv, Compiled
    <3> HIDE DEF F, p
    <3> QED BY <2>4, <3>3, <3>4 DEF Filled
  <2>5. Sql(toString(generateIndices(e, n)), g, slots) = Holds(e, g, bound)
    <3> HIDE DEF e, n
    <3> QED BY <1>2, <2>1, <2>4, FilterAsMeant
  <2> QED BY <1>1, <1>4, <2>2, <2>3, <2>5 DEF SqlTrue, Meant, Cond
<1> QED
  BY <1>3, <1>4

LEMMA BeforeType ==
    ASSUME NEW t, NEW k \in Nat \ {0}
    PROVE  /\ Before(t, k) \in Seq({t.first} \cup {t.joins[i].table : i \in 1 .. k - 1})
           /\ Len(Before(t, k)) = k
<1> DEFINE u == [i \in 1 .. k - 1 |-> t.joins[i].table]
           U == {t.first} \cup {t.joins[i].table : i \in 1 .. k - 1}
<1>1. u \in Seq(U) /\ Len(u) = k - 1
  OBVIOUS
<1>2. <<t.first>> \in Seq(U) /\ Len(<<t.first>>) = 1
  OBVIOUS
<1> HIDE DEF u, U
<1>3. <<t.first>> \o u \in Seq(U) /\ Len(<<t.first>> \o u) = k
  BY <1>1, <1>2
<1> QED
  BY <1>3 DEF Before, u, U

\* A name that only the last of the tables has is that of the last table.
LEMMA LeftmostIsLast ==
    ASSUME NEW s, NEW k \in Nat \ {0}, NEW name,
           \E u \in ToSet(Before(s, k)) : name \in ToSet(Name[u]),
           \A u \in ToSet(Front(Before(s, k))) : name \notin ToSet(Name[u])
    PROVE  Leftmost(s, k, name) = Last(Before(s, k))
<1> DEFINE left == Before(s, k)
           I == {i \in 1 .. Len(left) : name \in ToSet(Name[left[i]])}
<1>1. Leftmost(s, k, name) = left[IF I # {} THEN Min(I) ELSE 0]
  BY DEF Leftmost, SelectInSeq
<1>2. PICK U : left \in Seq(U) /\ Len(left) = k
  BY BeforeType
<1> HIDE DEF left
<1>3. ASSUME NEW i \in 1 .. k - 1 PROVE name \notin ToSet(Name[left[i]])
  <2> DEFINE front == SubSeq(left, 1, k - 1)
  <2>0. i \in DOMAIN front /\ front[i] = left[i] /\ front = Front(left)
    BY <1>2 DEF Front
  <2> HIDE DEF front
  <2>1. left[i] \in ToSet(Front(left))
    BY <2>0 DEF ToSet
  <2> QED BY <2>1 DEF left
<1>4. \E i \in 1 .. k : name \in ToSet(Name[left[i]])
  BY <1>2 DEF left, ToSet
<1>5. I = {k}
  <2>1. ASSUME NEW i \in 1 .. k, name \in ToSet(Name[left[i]]) PROVE i = k
    <3>1. i \notin 1 .. k - 1
      BY <1>3, <2>1
    <3> QED BY <3>1
  <2> QED BY <1>2, <1>4, <2>1
<1>6. Min(I) = k
  BY <1>5 DEF Min
<1>7. Leftmost(s, k, name) = left[k]
  BY <1>1, <1>5, <1>6
<1>8. Last(left) = left[k]
  BY <1>2 DEF Last
<1> QED
  BY <1>7, <1>8 DEF left

LEMMA TextMeaning ==
    ASSUME IInv, stage = "compiled", Faithful(query), NEW k \in 1 .. Len(query.selects)
    PROVE  SameMeaning(TextOf(k), query.selects[k])
<1> DEFINE s == TextOf(k)
           t == query.selects[k]
           n == Len(t.joins)
           C == Conditions(t)
           D == Conditions(Numbered(query).selects[k])
<1>1. /\ n \in Nat /\ DOMAIN t.joins = 1 .. n /\ t \in SelectPart /\ t \in ToSet(query.selects)
  BY QuerySums, SelectPartShape DEF IInv, ToSet
<1>2. /\ DOMAIN C = 1 .. n + 2 /\ \A c \in 1 .. n : C[c] = t.joins[c].on
      /\ C[n + 1] = t.where /\ C[n + 2] = t.having
      /\ 1 .. n \subseteq 1 .. n + 2 /\ n + 1 \in 1 .. n + 2 /\ n + 2 \in 1 .. n + 2
  <2>1. /\ DOMAIN C = 1 .. n + 2
        /\ \A c \in 1 .. n + 2 : C[c] = IF c <= n THEN t.joins[c].on
                                       ELSE IF c = n + 1 THEN t.where ELSE t.having
    BY DEF Conditions
  <2> HIDE DEF n, C
  <2> QED BY <1>1, <2>1
<1>3. /\ SameClauses(s, t)
      /\ \A c \in 1 .. n : s.joins[c].on = ConditionText(D[c])
      /\ s.where = ConditionText(D[n + 1]) /\ s.having = ConditionText(D[n + 2])
      /\ DOMAIN s.joins = 1 .. n
  BY TextClauses DEF IInv
<1>4. ASSUME NEW c \in 1 .. n + 2, NEW g PROVE SqlTrue(ConditionText(D[c]), g) <=> Meant(C[c], g)
  BY <1>2, ConditionMeant
<1>5. s \in ToSet(stmt.text.selects)
  <2>1. stmt.text = Text(Numbered(query))
    BY DEF IInv, Compiled
  <2>2. k \in DOMAIN Numbered(query).selects
    BY NumberedShape DEF IInv
  <2>3. stmt.text.selects = [i \in DOMAIN Numbered(query).selects |->
                               SelectText(Numbered(query).selects[i])]
    BY <2>1 DEF Text
  <2> QED BY <2>2, <2>3 DEF ToSet, TextOf
<1>6. Prepares(stmt.text)
  BY DEF IInv, Compiled
<1> HIDE DEF s, D, C
<1>7. ASSUME NEW c \in 1 .. n, NEW name \in JoinNames(t, c)
      PROVE  Leftmost(s, c, name) = LeftMeant(t, c, name)
  <2>1. Before(s, c) = Before(t, c) /\ JoinNames(s, c) = JoinNames(t, c)
        /\ s.joins[c].type = t.joins[c].type
    <3>1. c \in 1 .. n + 1
      BY <1>1
    <3> QED BY <1>3, <3>1, SameNames DEF SameClauses
  <2>2. Leftmost(s, c, name) = Leftmost(t, c, name)
    BY <2>1 DEF Leftmost
  <2>3. CASE t.joins[c].type \in Natural
    BY <2>2, <2>3 DEF LeftMeant
  <2>4. CASE t.joins[c].type \notin Natural
    <3>1. t.joins[c].usings # <<>>
      <4>1. name \in {Name[d.table][d.index] : d \in ToSet(t.joins[c].usings)}
        BY <2>4 DEF JoinNames
      <4> QED BY <4>1 DEF ToSet
    <3>2. \A u \in ToSet(Front(Before(t, c))) : name \notin ToSet(Name[u])
      BY <1>1, <3>1 DEF Faithful
    <3>3. \E u \in ToSet(Before(t, c)) : name \in ToSet(Name[u])
      BY <1>3, <1>5, <1>6, <2>1 DEF Prepares
    <3>4. c \in Nat \ {0}
      BY <1>1
    <3>5. Leftmost(t, c, name) = Last(Before(t, c))
      BY <3>2, <3>3, <3>4, LeftmostIsLast
    <3> QED BY <2>2, <2>4, <3>5 DEF LeftMeant
  <2> QED BY <2>3, <2>4
<1>8. \A c \in 1 .. n : \A g : SqlTrue(s.joins[c].on, g) <=> Meant(t.joins[c].on, g)
  BY <1>2, <1>3, <1>4
<1>9. \A g : (SqlTrue(s.where, g) <=> Meant(t.where, g)) /\ (SqlTrue(s.having, g) <=> Meant(t.having, g))
  BY <1>2, <1>3, <1>4
<1> HIDE DEF t
<1> QED
  BY <1>7, <1>8, <1>9 DEF SameMeaning, s, t, n

\* SELECT v is SELECT s with other columns.
UpToColumns(v, s) ==
    /\ v.op = s.op /\ v.first = s.first /\ v.joins = s.joins /\ v.where = s.where
    /\ v.having = s.having /\ v.group = s.group

LEMMA OtherColumns ==
    ASSUME NEW s, NEW t, NEW v, NEW w, SameClauses(s, t), SameMeaning(s, t),
           UpToColumns(v, s), UpToColumns(w, t), v.columns = w.columns
    PROVE  SameClauses(v, w) /\ SameMeaning(v, w)
<1> USE DEF UpToColumns
<1>1. SameClauses(v, w)
  BY DEF SameClauses
<1>2. ASSUME NEW k PROVE Before(v, k) = Before(s, k) /\ Before(w, k) = Before(t, k)
  BY DEF Before
<1>3. ASSUME NEW k, NEW n
      PROVE  Leftmost(v, k, n) = Leftmost(s, k, n) /\ LeftMeant(w, k, n) = LeftMeant(t, k, n)
  <2>1. Leftmost(v, k, n) = Leftmost(s, k, n) /\ Leftmost(w, k, n) = Leftmost(t, k, n)
    BY <1>2 DEF Leftmost
  <2> QED BY <1>2, <2>1 DEF LeftMeant
<1>4. ASSUME NEW k PROVE JoinNames(w, k) = JoinNames(t, k)
  BY <1>2 DEF JoinNames
<1> QED
  BY <1>1, <1>3, <1>4 DEF SameMeaning

\* The two readings of Result, under the names of the proofs.
LEMMA RowsAre ==
    ASSUME NEW text
    PROVE  Rows(text) = Result(text.selects, text.order, text.limit, SqlTrue, Leftmost)
BY Zenon DEF Rows, Result, SelectRows, From, Fits, SqlTrue

LEMMA AnswerIs ==
    ASSUME NEW q
    PROVE  Answer(q) = Result(q.selects, q.order, q.limit, Meant, LeftMeant)
BY Zenon DEF Answer, Result, SelectRows, From, Fits, Meant, LeftMeant

LEMMA ResultMeant ==
    ASSUME Built, NEW text, text.order = query.order, text.limit = query.limit,
           DOMAIN text.selects = 1 .. Len(query.selects),
           Len(text.selects) = Len(query.selects),
           \A k \in 1 .. Len(query.selects) : /\ text.selects[k] = TextOf(k)
                                              /\ SameClauses(TextOf(k), query.selects[k])
                                              /\ SameMeaning(TextOf(k), query.selects[k])
    PROVE  Rows(text) = Answer(query)
<1> DEFINE S == text.selects
           T == query.selects
           m == Len(T)
           more(o) == [k \in DOMAIN o |-> o[k].col]
           wide1 == [S[1] EXCEPT !.columns = S[1].columns \o more(text.order)]
           wide2 == [T[1] EXCEPT !.columns = T[1].columns \o more(query.order)]
           full1 == IF Len(S) > 1 THEN S ELSE <<wide1>>
           full2 == IF Len(T) > 1 THEN T ELSE <<wide2>>
           rows1 == [k \in DOMAIN full1 |-> SelectRows(full1[k], SqlTrue, Leftmost)]
           rows2 == [k \in DOMAIN full2 |-> SelectRows(full2[k], Meant, LeftMeant)]
           ops(full) == [k \in DOMAIN full |-> full[k].op]
           out(rows, os, columns, shown, order, limit) ==
             LET all  == Compound(rows, os)
                 left == Limited(Sorted(all, columns, order), limit)
             IN  [i \in DOMAIN left |-> SubSeq(left[i], 1, shown)]
<1>1. Rows(text) = out(rows1, ops(full1), full1[1].columns, Len(S[1].columns),
                       text.order, text.limit)
  <2>1. Rows(text) = Result(S, text.order, text.limit, SqlTrue, Leftmost)
    BY RowsAre
  <2>2. Result(S, text.order, text.limit, SqlTrue, Leftmost)
           = out(rows1, ops(full1), full1[1].columns, Len(S[1].columns),
                 text.order, text.limit)
    BY DEF Result
  <2> HIDE DEF out, rows1, full1, ops, S
  <2> QED BY <2>1, <2>2
<1>2. Answer(query) = out(rows2, ops(full2), full2[1].columns, Len(T[1].columns),
                          query.order, query.limit)
  <2>1. Answer(query) = Result(T, query.order, query.limit, Meant, LeftMeant)
    BY AnswerIs
  <2>2. Result(T, query.order, query.limit, Meant, LeftMeant)
           = out(rows2, ops(full2), full2[1].columns, Len(T[1].columns),
                 query.order, query.limit)
    BY DEF Result
  <2> HIDE DEF out, rows2, full2, ops, T
  <2> QED BY <2>1, <2>2
<1>3. /\ m \in Nat \ {0} /\ DOMAIN T = 1 .. m /\ 1 \in 1 .. m /\ \A k \in 1 .. m : T[k] \in SelectPart
  BY QuerySums
<1>4. \A k \in 1 .. m : S[k].op = T[k].op /\ S[k].columns = T[k].columns
  BY TextClauses DEF SameClauses
<1>5. SameClauses(wide1, wide2) /\ SameMeaning(wide1, wide2) /\ wide1.op = wide2.op
  <2> DEFINE c == T[1].columns \o more(query.order)
             s == Numbered(query).selects[1]
  <2>1. wide2 = [T[1] EXCEPT !.columns = c] /\ T[1] \in SelectPart
    BY <1>3
  <2>2. wide1 = [SelectText(s) EXCEPT !.columns = c] /\ S[1] = SelectText(s)
    <3>1. S[1] = SelectText(s)
      BY <1>3 DEF TextOf
    <3>2. S[1].columns = T[1].columns /\ text.order = query.order
      BY <1>3, <1>4
    <3>3. S[1].columns \o more(text.order) = c
      <4> HIDE DEF more, S, T
      <4> QED BY <3>2
    <3>4. \A a, b, x, y : a = b /\ x = y => [a EXCEPT !.columns = x] = [b EXCEPT !.columns = y]
      OBVIOUS
    <3> HIDE DEF s, S, T, more, c
    <3> QED BY <3>1, <3>3, <3>4
  <2> HIDE DEF c, s, wide1, wide2
  <2>3. UpToColumns(wide2, T[1]) /\ wide2.columns = c
    <3> HIDE DEF T
    <3> QED BY <2>1 DEF SelectPart, UpToColumns
  <2>4. UpToColumns(wide1, S[1]) /\ wide1.columns = c
    BY <2>2 DEF SelectText, UpToColumns
  <2>5. SameClauses(S[1], T[1]) /\ SameMeaning(S[1], T[1])
    BY <1>3
  <2>6. wide1.op = wide2.op
    BY <1>3, <1>4, <2>3, <2>4 DEF UpToColumns
  <2> QED BY <2>3, <2>4, <2>5, <2>6, OtherColumns
<1> HIDE DEF wide1, wide2
<1>6. /\ DOMAIN full1 = DOMAIN full2 /\ full1[1].columns = full2[1].columns
      /\ \A k \in DOMAIN full2 : /\ full1[k].op = full2[k].op
                                 /\ SameClauses(full1[k], full2[k])
                                 /\ SameMeaning(full1[k], full2[k])
  <2>1. CASE m > 1
    <3>1. full1 = S /\ full2 = T
      BY <2>1
    <3> HIDE DEF full1, full2, T
    <3> QED BY <1>3, <1>4, <3>1 DEF T
  <2>2. CASE ~(m > 1)
    <3>1. full1 = <<wide1>> /\ full2 = <<wide2>>
      BY <2>2
    <3>2. DOMAIN full1 = {1} /\ DOMAIN full2 = {1} /\ full1[1] = wide1 /\ full2[1] = wide2
      BY <3>1
    <3> HIDE DEF full1, full2
    <3>3. wide1.columns = wide2.columns
      BY <1>5 DEF SameClauses
    <3> QED BY <1>5, <3>2, <3>3
  <2> QED BY <2>1, <2>2
<1> HIDE DEF full1, full2, out, T
<1>7. rows1 = rows2
  BY <1>6, SameRows
<1>8. ops(full1) = ops(full2)
  BY <1>6
<1>9. Len(S[1].columns) = Len(T[1].columns)
  BY <1>3, <1>4
<1> HIDE DEF rows1, rows2, ops
<1> QED
  BY <1>1, <1>2, <1>6, <1>7, <1>8, <1>9 DEF T

\* SQLite's answer to a compiled query with bound parameters is the one that the
\* query means: with TypeCorrect for every table, filter, join and union.
THEOREM AnswersMeant == Spec => []AnswersAsMeant
<1>1. IInv => AnswersAsMeant
  <2> SUFFICES ASSUME IInv, stage = "compiled", Faithful(query)
               PROVE  Rows(stmt.text) = Answer(query)
    BY DEF AnswersAsMeant
  <2> DEFINE q == Numbered(query)
             S == [k \in DOMAIN q.selects |-> SelectText(q.selects[k])]
  <2>1. /\ stmt.text.selects = S /\ stmt.text.order = query.order
        /\ stmt.text.limit = query.limit
    <3>1. stmt.text = Text(q)
      BY DEF IInv, Compiled
    <3>2. q.order = query.order /\ q.limit = query.limit
      BY NumberedShape DEF IInv
    <3> HIDE DEF q
    <3> QED BY <3>1, <3>2 DEF Text
  <2>2. DOMAIN q.selects = 1 .. Len(query.selects) /\ Len(query.selects) \in Nat
    BY NumberedShape, QuerySums DEF IInv
  <2>3. DOMAIN S = 1 .. Len(query.selects) /\ Len(S) = Len(query.selects)
        /\ \A k \in 1 .. Len(query.selects) : S[k] = TextOf(k)
    <3> HIDE DEF q
    <3> QED BY <2>2 DEF TextOf, q
  <2> HIDE DEF S, q
  <2>4. \A k \in 1 .. Len(query.selects) : /\ SameClauses(TextOf(k), query.selects[k])
                                           /\ SameMeaning(TextOf(k), query.selects[k])
    BY TextClauses, TextMeaning DEF IInv
  <2> QED
    BY <2>1, <2>3, <2>4, ResultMeant DEF IInv
<1> QED
  BY <1>1, IInvAlways, PTL
=============================================================================
