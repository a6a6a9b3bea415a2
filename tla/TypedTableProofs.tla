--------------------------- MODULE TypedTableProofs ---------------------------
(***************************************************************************)
(* The conversions of Values for integers of every width, and that the     *)
(* statements of a TypedTable do to the C++ rows what their queries say,   *)
(* for every table, every query and every number of rows.                  *)
(***************************************************************************)
EXTENDS TypedTable, ExpressionsProofs, FiniteSetTheorems, TLAPS

-----------------------------------------------------------------------------
(* Values.                                                                 *)

\* The range of every integer type is that of its half.
LEMMA HalfPositive ==
    ASSUME NEW T \in Integer
    PROVE  Half(T) \in Nat /\ Half(T) > 0
<1>1. Half8 \in Nat /\ Half32 \in Nat /\ Half64 \in Nat /\ Half8 > 0 /\ Half32 > 0 /\ Half64 > 0
  BY HalfAssumption
<1> QED
  BY <1>1 DEF Half, Integer, Signed, Unsigned

\* A bit cast and the one back give the value again.
LEMMA BitCast ==
    ASSUME NEW H \in Nat, NEW v \in 0 .. 2 * H - 1
    PROVE  /\ ToSigned(v, H) \in -H .. H - 1
           /\ ToUnsigned(ToSigned(v, H), H) = v
BY DEF ToSigned, ToUnsigned

\* What Binding::get passes on fits the bind function that takes it.
LEMMA Fits ==
    ASSUME NEW T \in Integer, NEW v \in ValuesOf(T)
    PROVE  get(T, v) \in -Half(return_t(T)) .. Half(return_t(T)) - 1
<1>1. Half8 \in Nat /\ Half32 \in Nat /\ Half64 \in Nat /\ 2 * Half8 <= Half32
      /\ Half8 > 1 /\ 2 * Half32 <= Half64
  BY HalfAssumption
<1>2. CASE T \in {"uint32", "uint64"}
  <2>1. /\ v \in 0 .. 2 * Half(T) - 1 /\ Half(return_t(T)) = Half(T) /\ get(T, v) = ToSigned(v, Half(T))
        /\ Half(T) \in Nat
    BY <1>1, <1>2 DEF ValuesOf, Half, return_t, get, Signed, Unsigned
  <2> QED
    BY <2>1, BitCast
<1>3. CASE T \notin {"uint32", "uint64"}
  <2>1. get(T, v) = v
    BY <1>3 DEF get
  <2>2. CASE T = "bool"
    BY <1>1, <2>1, <2>2 DEF ValuesOf, Half, return_t, Signed, Unsigned
  <2>3. CASE T = "uint8"
    BY <1>1, <2>1, <2>3 DEF ValuesOf, Half, return_t, Signed, Unsigned
  <2>4. CASE T = "int8"
    BY <1>1, <2>1, <2>4 DEF ValuesOf, Half, return_t, Signed, Unsigned
  <2>5. CASE T = "int32"
    BY <1>1, <2>1, <2>5 DEF ValuesOf, Half, return_t, Signed, Unsigned
  <2>6. CASE T = "int64"
    BY <1>1, <2>1, <2>6 DEF ValuesOf, Half, return_t, Signed, Unsigned
  <2> QED
    BY <1>3, <2>2, <2>3, <2>4, <2>5, <2>6 DEF Integer, Signed, Unsigned
<1> QED
  BY <1>2, <1>3

\* A value that is bound and read back with the same type is the same value,
\* for Binding::get and Statement::column of every integer type.
THEOREM RoundTrip ==
    ASSUME NEW T \in Integer, NEW v \in ValuesOf(T)
    PROVE  column(T, Bound(T, v)) = v
<1> DEFINE x == get(T, v)
           H == Half(return_t(T))
<1>1. v \in Int
  BY HalfPositive DEF ValuesOf, Integer, Signed, Unsigned
<1>2. v # Null
  BY <1>1, NullAssumption
<1>3. Bound(T, v) = x
  BY <1>2 DEF Bound
<1>4. x \in -H .. H - 1
  BY Fits
<1>5. H \in Nat
  <2>1. return_t(T) \in Integer
    BY DEF return_t, Integer, Signed
  <2> QED
    BY <2>1, HalfPositive
<1>6. x # Null
  BY <1>4, <1>5, NullAssumption
<1>7. column_int(x, H) = x
  BY <1>4, <1>6 DEF column_int, Narrowed
<1>8. CASE T \in {"uint32", "uint64"}
  <2>1. v \in 0 .. 2 * Half(T) - 1
    BY <1>8 DEF ValuesOf, Signed, Unsigned
  <2>2. x = ToSigned(v, Half(T))
    BY <1>8 DEF get
  <2>3. column(T, x) = ToUnsigned(x, Half(T))
    BY <1>7, <1>8 DEF column
  <2> QED
    BY <1>3, <2>1, <2>2, <2>3, BitCast, HalfPositive
<1>9. CASE T \notin {"uint32", "uint64"}
  <2>1. x = v
    BY <1>9 DEF get
  <2>2. column(T, x) = Cast(T, x)
    BY <1>7, <1>9 DEF column
  <2>3. Cast(T, v) = v
    <3>1. CASE T = "int8"
      BY <3>1 DEF Cast, Narrowed, ValuesOf, Half, Signed
    <3>2. CASE T = "uint8"
      BY <3>2 DEF Cast
    <3>3. CASE T = "bool"
      BY <3>3 DEF Cast, ValuesOf, Half, Signed, Unsigned
    <3>4. CASE T \in {"int32", "int64"}
      BY <3>4 DEF Cast
    <3> QED
      BY <1>9, <3>1, <3>2, <3>3, <3>4 DEF Integer, Signed, Unsigned
  <2> QED
    BY <1>3, <2>1, <2>2, <2>3
<1> QED
  BY <1>8, <1>9

\* Values of one integer type are equal in SQLite exactly when they are equal
\* in C++: = and != of a filter compare what the program compares.
THEOREM EqualityKept ==
    ASSUME NEW T \in Integer, NEW v \in ValuesOf(T), NEW w \in ValuesOf(T)
    PROVE  Bound(T, v) = Bound(T, w) <=> v = w
BY RoundTrip

\* The order of values of one type is kept too, except for the two unsigned
\* types that are bit cast: <, > and ORDER BY do what the program means.
THEOREM OrderKept ==
    ASSUME NEW T \in Integer \ {"uint32", "uint64"}, NEW v \in ValuesOf(T), NEW w \in ValuesOf(T)
    PROVE  Bound(T, v) < Bound(T, w) <=> v < w
<1>1. v \in Int /\ w \in Int
  BY HalfPositive DEF ValuesOf, Integer, Signed, Unsigned
<1> QED
  BY <1>1, NullAssumption DEF Bound, get

\* For those two the order of SQLite is that of C++ only within each half of
\* the range: every value of the upper half comes before all of the lower.
THEOREM OrderOfUnsigned ==
    ASSUME NEW T \in {"uint32", "uint64"}, NEW v \in ValuesOf(T), NEW w \in ValuesOf(T)
    PROVE  /\ (v < Half(T) <=> w < Half(T)) => (Bound(T, v) < Bound(T, w) <=> v < w)
           /\ v < Half(T) /\ w >= Half(T) => Bound(T, w) < Bound(T, v)
<1>1. Half(T) \in Nat /\ Half(T) > 0
  BY HalfPositive DEF Integer, Unsigned
<1>2. v \in 0 .. 2 * Half(T) - 1 /\ w \in 0 .. 2 * Half(T) - 1
  BY DEF ValuesOf, Signed, Unsigned
<1>3. v # Null /\ w # Null
  BY <1>1, <1>2, NullAssumption
<1>4. Bound(T, v) = ToSigned(v, Half(T)) /\ Bound(T, w) = ToSigned(w, Half(T))
  BY <1>3 DEF Bound, get, Integer, Unsigned
<1> QED
  BY <1>1, <1>2, <1>4 DEF ToSigned

Type == Integer \cup TextTypes

\* Values that have a place of their own: all but a Text without data.
Clean(T, v) == v \in ValuesOf(T) \cup {Null} /\ (T = "Text" => v # 0)

LEMMA TypesApart ==
    \A T \in TextTypes : T \notin Integer /\ T \notin Signed /\ T \notin Unsigned
BY DEF TextTypes, Integer, Signed, Unsigned

LEMMA ValuesType ==
    ASSUME NEW T \in Type
    PROVE  ValuesOf(T) \subseteq Int /\ StoredOf(T) \subseteq Int /\ Null \notin ValuesOf(T)
<1>1. ValuesOf(T) \subseteq Int
  <2>1. CASE T \in Integer
    <3>1. Half(T) \in Nat
      BY <2>1, HalfPositive
    <3>2. \A m, n \in Int : m .. n \subseteq Int
      OBVIOUS
    <3>3. -Half(T) \in Int /\ Half(T) - 1 \in Int /\ 2 * Half(T) - 1 \in Int /\ 0 \in Int
      BY <3>1
    <3>4. -Half(T) .. Half(T) - 1 \subseteq Int /\ 0 .. 2 * Half(T) - 1 \subseteq Int
      BY <3>2, <3>3
    <3>5. CASE T \in Signed
      BY <3>4, <3>5 DEF ValuesOf
    <3>6. CASE T \notin Signed
      <4>1. T \in Unsigned
        BY <2>1, <3>6 DEF Integer
      <4>2. ValuesOf(T) = 0 .. 2 * Half(T) - 1
        BY <3>6, <4>1 DEF ValuesOf
      <4> QED BY <3>4, <4>2
    <3> QED BY <3>5, <3>6
  <2>2. CASE T \in TextTypes
    <3>1. ValuesOf(T) = Text
      BY <2>2, TypesApart DEF ValuesOf
    <3> QED BY <3>1, TextAssumption
  <2> QED BY <2>1, <2>2 DEF Type
<1>2. StoredOf(T) \subseteq Int
  <2>1. CASE T \in {"uint32", "uint64"}
    <3>1. Half(T) \in Nat
      BY <2>1, HalfPositive DEF Integer, Unsigned
    <3> QED BY <2>1, <3>1 DEF StoredOf
  <2>2. CASE T \notin {"uint32", "uint64"}
    BY <1>1, <2>2 DEF StoredOf
  <2> QED BY <2>1, <2>2
<1> QED
  BY <1>1, <1>2, NullAssumption

\* What is in a parameter or a column fits its type.
LEMMA BoundType ==
    ASSUME NEW T \in Type, NEW v \in ValuesOf(T) \cup {Null}
    PROVE  /\ Bound(T, v) \in StoredOf(T) \cup {Null}
           /\ Bound(T, v) \in Int \cup {Null}
<1>1. CASE v = Null
  BY <1>1 DEF Bound
<1>2. CASE v # Null /\ T \in {"uint32", "uint64"}
  <2>1. T \in Integer /\ T \in Unsigned /\ T \notin Signed /\ Half(T) \in Nat
    BY <1>2, HalfPositive DEF Integer, Unsigned, Signed
  <2>2. v \in 0 .. 2 * Half(T) - 1
    BY <1>2, <2>1 DEF ValuesOf
  <2>3. Bound(T, v) = ToSigned(v, Half(T))
    BY <1>2, <2>1 DEF Bound, get
  <2>4. Bound(T, v) \in StoredOf(T)
    BY <1>2, <2>1, <2>2, <2>3, BitCast DEF StoredOf
  <2> QED BY <2>4, ValuesType
<1>3. CASE v # Null /\ T \notin {"uint32", "uint64"}
  <2>1. Bound(T, v) \in {v, Null}
    BY <1>3 DEF Bound, get, toText
  <2>2. v \in StoredOf(T)
    BY <1>3 DEF StoredOf
  <2> QED BY <2>1, <2>2, ValuesType
<1> QED
  BY <1>1, <1>2, <1>3

\* A value is read back as it was bound, NULL as std::nullopt.
LEMMA ReadBack ==
    ASSUME NEW T \in Type, NEW v, Clean(T, v)
    PROVE  /\ Bound(T, v) = Null <=> v = Null
           /\ v # Null => column(T, Bound(T, v)) = v
<1>1. CASE v = Null
  BY <1>1 DEF Bound
<1>2. CASE v # Null /\ T \in Integer
  <2>1. v \in ValuesOf(T) /\ Bound(T, v) = get(T, v)
    BY <1>2 DEF Clean, Bound
  <2>2. get(T, v) # Null
    <3>1. Half(return_t(T)) \in Nat
      BY HalfPositive DEF return_t, Integer, Signed
    <3> QED BY <1>2, <2>1, <3>1, Fits, NullAssumption
  <2> QED BY <1>2, <2>1, <2>2, RoundTrip
<1>3. CASE v # Null /\ T \in TextTypes
  <2>1. Bound(T, v) = v
    BY <1>3, TypesApart DEF Clean, Bound, toText
  <2>2. column(T, v) = v
    BY <1>3, TypesApart DEF column
  <2> QED BY <1>3, <2>1, <2>2
<1> QED
  BY <1>1, <1>2, <1>3 DEF Type

LEMMA StoredStraight ==
    ASSUME NEW T \in Type, Straight(T), NEW v, Clean(T, v)
    PROVE  Bound(T, v) = v
BY TypesApart DEF Straight, Clean, Bound, get, toText

\* Values that are Alike compare in SQLite as they do in C++.
LEMMA ComparedAlike ==
    ASSUME NEW T \in Type, NEW U \in Type, NEW v, NEW w, Clean(T, v), Clean(U, w), NEW op,
           Alike(T, op, U)
    PROVE  Compare(Bound(T, v), op, Bound(U, w)) = Compare(v, op, w)
<1>1. CASE Straight(T) /\ Straight(U)
  BY <1>1, StoredStraight
<1>2. CASE T = U /\ op \in {"=", "!="}
  <2>1. Bound(T, v) = Bound(T, w) <=> v = w
    BY <1>2, ReadBack
  <2>2. /\ Bound(T, v) = Null <=> v = Null
        /\ Bound(T, w) = Null <=> w = Null
    BY <1>2, ReadBack
  <2> DEFINE x == Bound(T, v)
             y == Bound(T, w)
  <2> HIDE DEF x, y
  <2>3. Related(x, op, y) <=> Related(v, op, w)
    <3>1. CASE op = "="
      BY <2>1, <3>1 DEF Related, x, y
    <3>2. CASE op = "!="
      BY <2>1, <3>2 DEF Related, x, y
    <3> QED BY <1>2, <3>1, <3>2
  <2>4. Truth(Related(x, op, y)) = Truth(Related(v, op, w))
    BY <2>3 DEF Truth
  <2>5. Null \in {x, y} <=> Null \in {v, w}
    BY <2>2 DEF x, y
  <2>6. op # "IS NULL" /\ op # "IS NOT NULL"
    BY <1>2
  <2>7. Compare(x, op, y) = Compare(v, op, w)
    BY <2>4, <2>5, <2>6 DEF Compare
  <2> QED BY <1>2, <2>7 DEF x, y
<1> QED
  BY <1>1, <1>2 DEF Alike


-----------------------------------------------------------------------------
(* The inductive invariant.                                                *)

\* The values that the program gives to a column or an operand, and no value.
ColumnValue(i) == Choice[i] \cup {Null}
CellValue(c)   == CellChoice[c] \cup {Null}

TypeInv ==
    /\ stored \in Seq([DOMAIN Types -> Int \cup {Null}]) /\ Len(stored) <= MaxRows
    /\ memory \in [Cell -> Int] /\ \A c \in Cell : memory[c] \in CellChoice[c]
    /\ stmt \in [Statement -> Compiled \cup {Unmade}]
    /\ given \in [Statement -> [Cell -> Int \cup {Null}]]
    /\ \A s \in Statement : \A c \in Cell : given[s][c] \in CellValue(c)

\* What is stored was bound for its column.
StoredInv ==
    \A k \in DOMAIN stored : \A i \in DOMAIN Types :
        \E v \in ColumnValue(i) : stored[k][i] = Bound(Types[i], v)

\* What a parameter can hold.
SlotValue ==
    {v \in Int \cup {Null} : \/ v = Null
                             \/ \E i \in DOMAIN Types : v \in StoredOf(Types[i])
                             \/ \E c \in Cell : v \in StoredOf(CellType[c])}

\* Nothing was bound for a statement before compile(); after it, the statement is
\* what compile() has made of its query, and the parameters of its
\* filter hold what was bound for their operands last.
UnmadeInv == \A s \in Statement : stmt[s] = Unmade => given[s] = Nothing

StmtInv ==
    \A s \in Statement : stmt[s] # Unmade =>
        LET q == stmt[s].query IN
        /\ q \in Queries[s] /\ Valid(q) /\ Prepares(q)
        /\ stmt[s].text = TextOf(q) /\ stmt[s].filter = Indexed(q)
        /\ Len(stmt[s].slots) = ParametersOf(q) /\ stmt[s].slots \in Seq(SlotValue)
        /\ q.where # <<>> => \A x \in ComparisonsIn(Indexed(q)[1]) : HasParameter(x) =>
              stmt[s].slots[x.index + 1] = Bound(CellType[x.cell], given[s][x.cell])

AnswerInv ==
    answer \in {Result(call, 0) : call \in {"none", "done", "failed"}}
               \cup {Result("rows", n) : n \in 0 .. MaxRows}

IInv == TypeInv /\ StoredInv /\ UnmadeInv /\ StmtInv /\ AnswerInv


-----------------------------------------------------------------------------
(* Queries and their parameters.                                           *)

LEMMA ColumnValues ==
    ASSUME NEW i \in DOMAIN Types
    PROVE  /\ Types[i] \in Type /\ i \in Nat
           /\ \A v \in ColumnValue(i) : /\ v \in ValuesOf(Types[i]) \cup {Null}
                                        /\ Bound(Types[i], v) \in SlotValue
                                        /\ Bound(Types[i], v) \in StoredOf(Types[i]) \cup {Null}
                                        /\ Bound(Types[i], v) \in Int \cup {Null}
<1>1. Types[i] \in Type /\ i \in Nat
  BY TypesAssumption DEF Type
<1>2. ASSUME NEW v \in ColumnValue(i) PROVE v \in ValuesOf(Types[i]) \cup {Null}
  BY ChoiceAssumption DEF ColumnValue
<1>3. StoredOf(Types[i]) \cup {Null} \subseteq SlotValue
  BY <1>1, ValuesType DEF SlotValue
<1> QED
  BY <1>1, <1>2, <1>3, BoundType

LEMMA CellValues ==
    ASSUME NEW c \in Cell
    PROVE  /\ CellType[c] \in Type
           /\ \A v \in CellValue(c) : /\ v \in ValuesOf(CellType[c]) \cup {Null}
                                      /\ Bound(CellType[c], v) \in SlotValue
                                      /\ v \in Int \cup {Null}
<1>1. CellType[c] \in Type
  BY TypesAssumption DEF Type
<1>2. ASSUME NEW v \in CellValue(c) PROVE v \in ValuesOf(CellType[c]) \cup {Null}
  BY ChoiceAssumption DEF CellValue
<1>3. StoredOf(CellType[c]) \cup {Null} \subseteq SlotValue
  BY <1>1, ValuesType DEF SlotValue
<1> QED
  BY <1>1, <1>2, <1>3, BoundType, ValuesType

LEMMA SlotValues == SlotValue \subseteq Int \cup {Null}
BY DEF SlotValue

LEMMA QueryType ==
    ASSUME NEW q \in AllQueries
    PROVE  /\ q.kind \in {"insert", "update", "delete", "count"} /\ q.columns \in Seq(DOMAIN Types)
           /\ q.where \in Seq(Expr) /\ q.order \in Seq(OrderTerm)
           /\ q.kind = "insert" => q.where = <<>>
           /\ FirstIndex(q) \in Nat /\ ParametersOf(q) \in Nat
           /\ q.kind \in {"insert", "update"} => Len(q.columns) <= ParametersOf(q)
           /\ q.where # <<>> =>
                 /\ 1 \in DOMAIN q.where /\ q.where[1] \in Expr
                 /\ ParametersOf(q) = FirstIndex(q) + Parameters(q.where[1])
                 /\ Indexed(q) # <<>> /\ Indexed(q)[1] = generateIndices(q.where[1], FirstIndex(q))
           /\ q.where = <<>> => Indexed(q) = <<>>
<1>1. q \in Query /\ (q.kind = "insert" => q.where = <<>>)
  BY QueriesAssumption
<1>2. /\ q.kind \in {"insert", "update", "delete", "count"} /\ q.columns \in Seq(DOMAIN Types)
      /\ q.where \in Seq(Expr) /\ q.order \in Seq(OrderTerm)
  BY <1>1 DEF Query
<1>3. Len(q.columns) \in Nat /\ FirstIndex(q) \in Nat
  BY <1>2 DEF FirstIndex
<1>4. CASE q.where # <<>>
  <2>1. 1 \in DOMAIN q.where /\ q.where[1] \in Expr
    BY <1>2, <1>4
  <2>2. Parameters(q.where[1]) \in Nat
    BY <2>1, ParametersType
  <2>3. ParametersOf(q) = FirstIndex(q) + Parameters(q.where[1])
    BY <1>1, <1>2, <1>4 DEF ParametersOf, FirstIndex
  <2>4. Indexed(q)[1] = generateIndices(q.where[1], FirstIndex(q)) /\ Indexed(q) # <<>>
    <3>1. DOMAIN Indexed(q) = DOMAIN q.where
      BY DEF Indexed
    <3>2. DOMAIN <<>> = {}
      OBVIOUS
    <3> QED BY <2>1, <3>1, <3>2 DEF Indexed
  <2>5. q.kind \in {"insert", "update"} => Len(q.columns) <= ParametersOf(q)
    BY <1>1, <1>2, <1>3, <1>4, <2>2, <2>3 DEF FirstIndex
  <2>6. ParametersOf(q) \in Nat
    BY <1>3, <2>2, <2>3
  <2> QED BY <1>1, <1>2, <1>3, <1>4, <2>1, <2>3, <2>4, <2>5, <2>6
<1>5. CASE q.where = <<>>
  <2>1. Indexed(q) = <<>>
    BY <1>5 DEF Indexed
  <2>2. ParametersOf(q) = IF q.kind \in {"insert", "update"} THEN Len(q.columns) ELSE 0
    BY <1>3, <1>5 DEF ParametersOf
  <2> QED BY <1>1, <1>2, <1>3, <1>5, <2>1, <2>2
<1> QED
  BY <1>4, <1>5

\* Each comparison of a numbered filter has its parameter after the values of
\* the statement, and its operand in the cells of its kind.
LEMMA FilterType ==
    ASSUME NEW q \in AllQueries, q.where # <<>>, NEW x \in ComparisonsIn(Indexed(q)[1])
    PROVE  /\ x \in Simple /\ x \in Expr
           /\ HasParameter(x) => /\ x.index + 1 \in FirstIndex(q) + 1 .. ParametersOf(q)
                                 /\ x.cell \in Cells[x.param] /\ x.cell \in Cell
                                 /\ x.param \in {"fixed", "dynamic"}
           /\ \E y \in ComparisonsIn(q.where[1]), i \in Nat : x = Renumbered(y, i) /\ y \in Simple
<1> DEFINE e == q.where[1]
           n == FirstIndex(q)
<1>1. e \in Expr /\ n \in Nat /\ ParametersOf(q) = n + Parameters(e) /\ 1 \in DOMAIN q.where
      /\ Indexed(q)[1] = generateIndices(e, n)
  BY QueryType
<1> HIDE DEF e, n
<1>2. x \in ComparisonsIn(generateIndices(e, n))
  BY <1>1
<1>3. x \in Simple /\ x \in Expr
  BY <1>1, <1>2, IndicesType, ComparisonsType
<1>4. PICK y \in ComparisonsIn(e), i \in Nat : x = Renumbered(y, i)
  BY <1>1, <1>2, ComparisonsNumbered
<1>5. y \in Simple
  BY <1>1, ComparisonsType
<1>6. ASSUME HasParameter(x)
      PROVE  /\ x.index + 1 \in n + 1 .. ParametersOf(q) /\ x.param \in {"fixed", "dynamic"}
             /\ x.cell \in Cells[x.param] /\ x.cell \in Cell
  <2>1. x.index \in n .. n + Parameters(e) - 1
    BY <1>1, <1>2, <1>6, NumbersDistinct
  <2>2. x.param \in {"fixed", "dynamic"}
    BY <1>3, <1>6 DEF HasParameter, Simple
  <2>3. HasParameter(y) /\ x.param = y.param /\ x.cell = y.cell
    BY <1>4, <1>5, <1>6, RenumberedSame DEF HasParameter
  <2>4. y.cell \in Cells[y.param]
    BY <1>1, <2>3, QueriesAssumption DEF e
  <2>5. Parameters(e) \in Nat
    BY <1>1, ParametersType
  <2> QED BY <1>1, <2>1, <2>2, <2>3, <2>4, <2>5, CellsAssumption
<1> QED
  BY <1>3, <1>4, <1>5, <1>6 DEF e, n

\* A statement is a record, so changing its parameters leaves the rest.
LEMMA CompiledFields ==
    ASSUME NEW m \in Compiled, NEW slots \in Seq(Int \cup {Null})
    PROVE  /\ m.query \in AllQueries /\ m.slots \in Seq(Int \cup {Null})
           /\ [m EXCEPT !.slots = slots] \in Compiled
           /\ [m EXCEPT !.slots = slots].slots = slots
           /\ [m EXCEPT !.slots = slots].query = m.query
           /\ [m EXCEPT !.slots = slots].text = m.text
           /\ [m EXCEPT !.slots = slots].filter = m.filter
BY DEF Compiled


-----------------------------------------------------------------------------
(* Steps keep the invariant.                                               *)

\* The statements that are compiled, and their queries, stay.
SameQueries ==
    \A t \in Statement : /\ stmt'[t] = Unmade <=> stmt[t] = Unmade
                         /\ stmt[t] # Unmade => stmt'[t].query = stmt[t].query

\* Setting the parameters of statement s.
LEMMA SlotsSet ==
    ASSUME stmt \in [Statement -> Compiled \cup {Unmade}], NEW s \in Statement, stmt[s] # Unmade,
           NEW slots \in Seq(SlotValue), stmt' = [stmt EXCEPT ![s].slots = slots]
    PROVE  /\ stmt' \in [Statement -> Compiled \cup {Unmade}]
           /\ \A t \in Statement : t # s => stmt'[t] = stmt[t]
           /\ stmt'[s] # Unmade /\ stmt'[s].slots = slots /\ stmt'[s].query = stmt[s].query
           /\ stmt'[s].text = stmt[s].text /\ stmt'[s].filter = stmt[s].filter
           /\ \A t \in Statement : stmt'[t] = Unmade <=> stmt[t] = Unmade
<1> DEFINE m == [stmt[s] EXCEPT !.slots = slots]
<1>1. stmt' = [stmt EXCEPT ![s] = m]
  OBVIOUS
<1>2. stmt[s] \in Compiled
  OBVIOUS
<1>3. slots \in Seq(Int \cup {Null})
  BY SlotValues, SeqGrows
<1>4. /\ m \in Compiled /\ m.slots = slots /\ m.query = stmt[s].query
      /\ m.text = stmt[s].text /\ m.filter = stmt[s].filter
  BY <1>2, <1>3, CompiledFields
<1>5. m # Unmade
  BY <1>4, UnmadeAssumption
<1> HIDE DEF m
<1>6. stmt'[s] = m /\ \A t \in Statement : t # s => stmt'[t] = stmt[t]
  BY <1>1
<1>7. stmt' \in [Statement -> Compiled \cup {Unmade}]
  BY <1>1, <1>4
<1> QED
  BY <1>4, <1>5, <1>6, <1>7

\* The arguments of a call: one for each column of an INSERT or UPDATE.
LEMMA ArgumentsType ==
    ASSUME IInv, NEW s \in Statement, stmt[s] # Unmade, NEW vals \in ValuesFor(s)
    PROVE  LET q == stmt[s].query IN
           /\ q \in AllQueries
           /\ q.kind \in {"insert", "update"} => DOMAIN vals = DOMAIN q.columns
           /\ q.kind \notin {"insert", "update"} => vals = <<>>
           /\ \A i \in DOMAIN vals : i \in DOMAIN q.columns /\ vals[i] \in Choice[q.columns[i]]
<1> DEFINE q == stmt[s].query
<1>1. q \in AllQueries
  BY DEF IInv, StmtInv, AllQueries
<1> HIDE DEF q
<1>2. CASE q.kind \notin {"insert", "update"}
  BY <1>1, <1>2 DEF ValuesFor, q
<1>3. CASE q.kind \in {"insert", "update"}
  <2>1. vals \in {v \in [DOMAIN q.columns -> UNION {Choice[i] : i \in DOMAIN Choice}] :
                     \A k \in DOMAIN q.columns : v[k] \in Choice[q.columns[k]]}
    BY <1>3 DEF ValuesFor, q
  <2> QED BY <1>1, <1>3, <2>1 DEF q
<1> QED
  BY <1>2, <1>3 DEF q

\* The values of a call are in the first parameters, the filter's stay.
LEMMA ValuesBound ==
    ASSUME IInv, NEW s \in Statement, stmt[s] # Unmade, NEW vals \in ValuesFor(s), NEW failing
    PROVE  LET q == stmt[s].query
               slots == BindValues(s, vals, failing)
           IN  /\ slots \in Seq(SlotValue) /\ Len(slots) = ParametersOf(q)
               /\ \A i \in DOMAIN vals \ failing :
                     i \in DOMAIN slots /\ slots[i] = Bound(Types[q.columns[i]], vals[i])
               /\ q.kind # "insert" =>
                     \A i \in FirstIndex(q) + 1 .. ParametersOf(q) : slots[i] = stmt[s].slots[i]
<1> DEFINE q == stmt[s].query
           old == stmt[s].slots
           slots == BindValues(s, vals, failing)
<1>1. /\ q \in AllQueries
      /\ q.kind \in {"insert", "update"} => DOMAIN vals = DOMAIN q.columns
      /\ q.kind \notin {"insert", "update"} => vals = <<>>
      /\ \A i \in DOMAIN vals : i \in DOMAIN q.columns /\ vals[i] \in Choice[q.columns[i]]
  BY ArgumentsType
<1>2. old \in Seq(SlotValue) /\ Len(old) = ParametersOf(q)
  BY DEF IInv, StmtInv
<1>3. slots = [i \in DOMAIN old |-> IF i \in DOMAIN vals /\ i \notin failing
                                    THEN Bound(Types[q.columns[i]], vals[i]) ELSE old[i]]
  BY DEF BindValues
<1>4. /\ q.columns \in Seq(DOMAIN Types) /\ FirstIndex(q) \in Nat /\ ParametersOf(q) \in Nat
      /\ q.kind \in {"insert", "update"} => Len(q.columns) <= ParametersOf(q)
  BY <1>1, QueryType
<1> HIDE DEF q, old, slots
<1>5. \A i \in DOMAIN vals : Bound(Types[q.columns[i]], vals[i]) \in SlotValue
  <2> SUFFICES ASSUME NEW i \in DOMAIN vals PROVE Bound(Types[q.columns[i]], vals[i]) \in SlotValue
    OBVIOUS
  <2>1. q.columns[i] \in DOMAIN Types /\ vals[i] \in ColumnValue(q.columns[i])
    BY <1>1, <1>4 DEF ColumnValue
  <2> QED BY <2>1, ColumnValues
<1>6. slots \in Seq(SlotValue) /\ Len(slots) = ParametersOf(q) /\ DOMAIN slots = DOMAIN old
  BY <1>2, <1>3, <1>5
<1>7. DOMAIN vals \subseteq DOMAIN slots
  <2>1. CASE q.kind \in {"insert", "update"}
    <3>1. DOMAIN vals = 1 .. Len(q.columns) /\ DOMAIN slots = 1 .. ParametersOf(q)
          /\ Len(q.columns) \in Nat
      BY <1>1, <1>2, <1>4, <1>6, <2>1
    <3> QED BY <1>4, <2>1, <3>1
  <2>2. CASE q.kind \notin {"insert", "update"}
    BY <1>1, <2>2
  <2> QED BY <2>1, <2>2
<1>8. \A i \in DOMAIN vals \ failing : i \in DOMAIN slots /\ slots[i] = Bound(Types[q.columns[i]], vals[i])
  BY <1>3, <1>6, <1>7
<1>9. ASSUME q.kind # "insert", NEW i \in FirstIndex(q) + 1 .. ParametersOf(q) PROVE slots[i] = old[i]
  <2>1. i \in DOMAIN old
    BY <1>2, <1>4
  <2>2. i \notin DOMAIN vals
    <3>1. CASE q.kind = "update"
      <4>1. DOMAIN vals = 1 .. Len(q.columns) /\ FirstIndex(q) = Len(q.columns)
        BY <1>1, <1>4, <3>1 DEF FirstIndex
      <4> QED BY <1>4, <4>1
    <3>2. CASE q.kind # "update"
      BY <1>1, <1>9, <3>2
    <3> QED BY <3>1, <3>2
  <2> QED BY <1>3, <2>1, <2>2
<1> QED
  BY <1>6, <1>8, <1>9 DEF q, old, slots


LEMMA InitOK == Init => IInv
<1> SUFFICES ASSUME Init PROVE IInv
  OBVIOUS
<1>1. stored = <<>> /\ stored \in Seq([DOMAIN Types -> Int \cup {Null}]) /\ Len(stored) = 0
      /\ DOMAIN stored = {}
  BY DEF Init
<1>2. MaxRows \in Nat
  BY MaxRowsAssumption
<1>3. memory \in [Cell -> Int] /\ \A c \in Cell : memory[c] \in CellChoice[c]
  <2>1. memory \in [Cell -> UNION {CellChoice[c] : c \in Cell}]
        /\ \A c \in Cell : memory[c] \in CellChoice[c]
    BY DEF Init
  <2>2. \A c \in Cell : CellChoice[c] \subseteq Int
    BY ChoiceAssumption, ValuesType, CellValues
  <2> QED BY <2>1, <2>2
<1>4. given \in [Statement -> [Cell -> Int \cup {Null}]]
      /\ \A s \in Statement : \A c \in Cell : given[s][c] \in CellValue(c)
  BY DEF Init, Nothing, CellValue
<1>5. stmt \in [Statement -> Compiled \cup {Unmade}] /\ \A s \in Statement : stmt[s] = Unmade
  BY DEF Init
<1>6. AnswerInv
  BY DEF Init, AnswerInv, Result
<1>7. TypeInv
  BY <1>1, <1>2, <1>3, <1>4, <1>5 DEF TypeInv
<1>8. StoredInv /\ UnmadeInv /\ StmtInv
  BY <1>1, <1>5 DEF Init, StoredInv, UnmadeInv, StmtInv
<1> QED
  BY <1>6, <1>7, <1>8 DEF IInv

\* compile().
LEMMA CompileKeeps ==
    ASSUME IInv, NEW s \in Statement, NEW q \in Queries[s], Compile(s, q)
    PROVE  IInv' /\ stmt'[s] # Unmade
<1> DEFINE slots == [i \in 1 .. ParametersOf(q) |-> Null]
           m == [query |-> q, text |-> TextOf(q), filter |-> Indexed(q), slots |-> slots]
<1>1. q \in AllQueries /\ ParametersOf(q) \in Nat
  BY QueryType DEF AllQueries
<1>2. slots \in Seq(SlotValue) /\ slots \in Seq(Int \cup {Null}) /\ Len(slots) = ParametersOf(q)
  BY <1>1 DEF SlotValue
<1>3. m \in Compiled
  BY <1>1, <1>2 DEF Compiled
<1>4. m.query = q /\ m.text = TextOf(q) /\ m.filter = Indexed(q) /\ m.slots = slots
  OBVIOUS
<1>5. stmt' = [stmt EXCEPT ![s] = m] /\ Valid(q) /\ Prepares(q)
  BY DEF Compile
<1>6. UNCHANGED <<stored, memory, given>> /\ answer' = Result("none", 0) /\ stmt[s] = Unmade
  BY DEF Compile
<1>7. ASSUME q.where # <<>>, NEW x \in ComparisonsIn(Indexed(q)[1]), HasParameter(x)
      PROVE  slots[x.index + 1] = Bound(CellType[x.cell], given[s][x.cell])
  <2>1. x.index + 1 \in FirstIndex(q) + 1 .. ParametersOf(q) /\ x.cell \in Cell
    BY <1>1, <1>7, FilterType
  <2>2. x.index + 1 \in 1 .. ParametersOf(q)
    BY <1>1, <2>1, QueryType
  <2>3. given[s][x.cell] = Null
    BY <1>6, <2>1 DEF IInv, UnmadeInv, Nothing
  <2> QED BY <2>2, <2>3 DEF Bound
<1> HIDE DEF slots
<1>8. m # Unmade
  BY <1>3, UnmadeAssumption
<1> HIDE DEF m
<1>9. stmt \in [Statement -> Compiled \cup {Unmade}]
  BY DEF IInv, TypeInv
<1>10. stmt'[s] = m /\ \A t \in Statement : t # s => stmt'[t] = stmt[t]
  BY <1>5, <1>9
<1>11. stmt' \in [Statement -> Compiled \cup {Unmade}]
  BY <1>3, <1>5, <1>9
<1>12. TypeInv' /\ StoredInv'
  BY <1>6, <1>11 DEF IInv, TypeInv, StoredInv
<1>13. UnmadeInv'
  BY <1>6, <1>8, <1>10 DEF IInv, UnmadeInv
<1>14. AnswerInv'
  BY <1>6 DEF AnswerInv
<1>15. StmtInv'
  <2> SUFFICES ASSUME NEW t \in Statement, stmt'[t] # Unmade
               PROVE  LET r == stmt'[t].query IN
                      /\ r \in Queries[t] /\ Valid(r) /\ Prepares(r)
                      /\ stmt'[t].text = TextOf(r) /\ stmt'[t].filter = Indexed(r)
                      /\ Len(stmt'[t].slots) = ParametersOf(r) /\ stmt'[t].slots \in Seq(SlotValue)
                      /\ r.where # <<>> => \A x \in ComparisonsIn(Indexed(r)[1]) : HasParameter(x) =>
                            stmt'[t].slots[x.index + 1] = Bound(CellType[x.cell], given'[t][x.cell])
    BY DEF StmtInv
  <2>1. CASE t = s
    BY <1>2, <1>4, <1>5, <1>6, <1>7, <1>10, <2>1
  <2>2. CASE t # s
    BY <1>6, <1>10, <2>2 DEF IInv, StmtInv
  <2> QED BY <2>1, <2>2
<1> QED
  BY <1>8, <1>10, <1>12, <1>13, <1>14, <1>15 DEF IInv

\* The parameters of a statement are set, and possibly what was given for it.
LEMMA SlotsKeep ==
    ASSUME IInv, NEW s \in Statement, stmt[s] # Unmade,
           NEW slots \in Seq(SlotValue), Len(slots) = ParametersOf(stmt[s].query),
           stmt' = [stmt EXCEPT ![s].slots = slots],
           given' \in [Statement -> [Cell -> Int \cup {Null}]],
           \A c \in Cell : given'[s][c] \in CellValue(c),
           \A t \in Statement : t # s => given'[t] = given[t],
           stmt[s].query.where # <<>> =>
              \A x \in ComparisonsIn(Indexed(stmt[s].query)[1]) : HasParameter(x) =>
                 slots[x.index + 1] = Bound(CellType[x.cell], given'[s][x.cell])
    PROVE  /\ stmt' \in [Statement -> Compiled \cup {Unmade}]
           /\ \A t \in Statement : \A c \in Cell : given'[t][c] \in CellValue(c)
           /\ UnmadeInv' /\ StmtInv' /\ SameQueries
<1>1. stmt \in [Statement -> Compiled \cup {Unmade}]
  BY DEF IInv, TypeInv
<1>2. /\ stmt' \in [Statement -> Compiled \cup {Unmade}]
      /\ \A t \in Statement : t # s => stmt'[t] = stmt[t]
      /\ stmt'[s] # Unmade /\ stmt'[s].slots = slots /\ stmt'[s].query = stmt[s].query
      /\ stmt'[s].text = stmt[s].text /\ stmt'[s].filter = stmt[s].filter
  BY <1>1, SlotsSet
<1>3. \A t \in Statement : \A c \in Cell : given'[t][c] \in CellValue(c)
  BY DEF IInv, TypeInv
<1>4. UnmadeInv'
  BY <1>2 DEF IInv, UnmadeInv
<1>5. StmtInv'
  <2> SUFFICES ASSUME NEW t \in Statement, stmt'[t] # Unmade
               PROVE  LET r == stmt'[t].query IN
                      /\ r \in Queries[t] /\ Valid(r) /\ Prepares(r)
                      /\ stmt'[t].text = TextOf(r) /\ stmt'[t].filter = Indexed(r)
                      /\ Len(stmt'[t].slots) = ParametersOf(r) /\ stmt'[t].slots \in Seq(SlotValue)
                      /\ r.where # <<>> => \A x \in ComparisonsIn(Indexed(r)[1]) : HasParameter(x) =>
                            stmt'[t].slots[x.index + 1] = Bound(CellType[x.cell], given'[t][x.cell])
    BY DEF StmtInv
  <2>1. CASE t = s
    <3>1. /\ stmt[s].query \in Queries[s] /\ Valid(stmt[s].query) /\ Prepares(stmt[s].query)
          /\ stmt[s].text = TextOf(stmt[s].query) /\ stmt[s].filter = Indexed(stmt[s].query)
      BY DEF IInv, StmtInv
    <3> QED BY <1>2, <2>1, <3>1
  <2>2. CASE t # s
    BY <1>2, <2>2 DEF IInv, StmtInv
  <2> QED BY <2>1, <2>2
<1>6. SameQueries
  BY <1>2 DEF SameQueries
<1> QED
  BY <1>2, <1>3, <1>4, <1>5, <1>6


\* The program assigns to a variable.
LEMMA AssignKeeps ==
    ASSUME IInv, NEW c \in Cells["dynamic"], NEW v \in CellChoice[c], Assign(c, v)
    PROVE  IInv'
<1>1. c \in Cell /\ v \in Int
  <2>1. c \in Cell
    BY CellsAssumption
  <2>2. CellChoice[c] \subseteq ValuesOf(CellType[c]) /\ CellType[c] \in Type
    BY <2>1, CellValues, ChoiceAssumption
  <2> QED BY <2>1, <2>2, ValuesType
<1>2. memory' = [memory EXCEPT ![c] = v] /\ answer' = Result("none", 0)
      /\ UNCHANGED <<stored, stmt, given>>
  BY DEF Assign
<1>3. memory' \in [Cell -> Int] /\ \A d \in Cell : memory'[d] \in CellChoice[d]
  <2>1. memory \in [Cell -> Int] /\ \A d \in Cell : memory[d] \in CellChoice[d]
    BY DEF IInv, TypeInv
  <2>2. memory' \in [Cell -> Int] /\ \A d \in Cell : memory'[d] = IF d = c THEN v ELSE memory[d]
    BY <1>1, <1>2, <2>1
  <2> QED BY <2>1, <2>2
<1>4. TypeInv' /\ StoredInv' /\ UnmadeInv' /\ StmtInv'
  BY <1>2, <1>3 DEF IInv, TypeInv, StoredInv, UnmadeInv, StmtInv
<1> QED
  BY <1>2, <1>4 DEF IInv, AnswerInv

\* bind(): the operands that b selects are in their parameters, whatever was there.
LEMMA BindKeeps ==
    ASSUME IInv, NEW s \in Statement, NEW b \in DOMAIN BindParameters, Bind(s, b)
    PROVE  IInv' /\ SameQueries
<1> DEFINE q == stmt[s].query
           value == [c \in Cell |-> Bound(CellType[c], memory[c])]
           selected(c) == \E p \in BindParameters[b] : c \in Cells[p]
           old == stmt[s].slots
           slots == IF stmt[s].filter = <<>> THEN old ELSE bind(stmt[s].filter[1], b, old, value)
           now == [c \in Cell |-> IF selected(c) THEN memory[c] ELSE given[s][c]]
<1>1. /\ stmt[s] # Unmade /\ q.kind # "insert" /\ given \in [Statement -> [Cell -> Int \cup {Null}]]
      /\ stmt' = [stmt EXCEPT ![s].slots = slots] /\ given' = [given EXCEPT ![s] = now]
      /\ UNCHANGED <<stored, memory>> /\ answer' = Result("none", 0)
  BY DEF Bind, IInv, TypeInv
<1>2. /\ q \in AllQueries /\ stmt[s].filter = Indexed(q)
      /\ old \in Seq(SlotValue) /\ Len(old) = ParametersOf(q)
      /\ q.where # <<>> => \A x \in ComparisonsIn(Indexed(q)[1]) : HasParameter(x) =>
            old[x.index + 1] = Bound(CellType[x.cell], given[s][x.cell])
  BY <1>1 DEF IInv, StmtInv, AllQueries
<1>3. \A c \in Cell : memory[c] \in CellChoice[c] /\ given[s][c] \in CellValue(c)
  BY DEF IInv, TypeInv
<1>4. \A c \in Cell : now[c] \in CellValue(c) /\ now[c] \in Int \cup {Null}
  BY <1>3, CellValues DEF CellValue
<1>5. given' \in [Statement -> [Cell -> Int \cup {Null}]]
      /\ given'[s] = now /\ \A t \in Statement : t # s => given'[t] = given[t]
  <2> HIDE DEF now
  <2>1. now \in [Cell -> Int \cup {Null}]
    BY <1>4 DEF now
  <2> QED BY <1>1, <2>1
<1> HIDE DEF q, old, slots, now, value
<1>6. /\ slots \in Seq(SlotValue) /\ Len(slots) = ParametersOf(q)
      /\ q.where # <<>> => \A x \in ComparisonsIn(Indexed(q)[1]) : HasParameter(x) =>
            slots[x.index + 1] = Bound(CellType[x.cell], now[x.cell])
  <2>1. CASE q.where = <<>>
    BY <1>2, <2>1, QueryType DEF slots, old
  <2>2. CASE q.where # <<>>
    <3> DEFINE e == q.where[1]
               n == FirstIndex(q)
    <3>1. e \in Expr /\ n \in Nat /\ Indexed(q) # <<>> /\ Indexed(q)[1] = generateIndices(e, n)
          /\ ParametersOf(q) \in Nat
      BY <1>2, <2>2, QueryType
    <3> HIDE DEF e, n
    <3>2. slots = bind(generateIndices(e, n), b, old, value)
      BY <1>2, <3>1 DEF slots
    <3>3. ASSUME NEW x \in ComparisonsIn(generateIndices(e, n)), HasParameter(x)
          PROVE  x.index + 1 \in DOMAIN old /\ x.cell \in Cell /\ x.cell \in Cells[x.param]
                 /\ x.param \in {"fixed", "dynamic"}
      <4>1. x.index + 1 \in FirstIndex(q) + 1 .. ParametersOf(q) /\ x.cell \in Cell
            /\ x.cell \in Cells[x.param] /\ x.param \in {"fixed", "dynamic"}
        BY <1>2, <2>2, <3>1, <3>3, FilterType
      <4>2. FirstIndex(q) \in Nat
        BY <1>2, QueryType
      <4> QED BY <1>2, <3>1, <4>1, <4>2
    <3>4. /\ DOMAIN slots = DOMAIN old
          /\ \A x \in ComparisonsIn(generateIndices(e, n)) : HasParameter(x) =>
                slots[x.index + 1] = IF x.param \in BindParameters[b] THEN value[x.cell]
                                     ELSE old[x.index + 1]
      BY <3>1, <3>2, <3>3, BindsEachParameter
    <3>5. ASSUME NEW x \in ComparisonsIn(generateIndices(e, n)), HasParameter(x)
          PROVE  slots[x.index + 1] = Bound(CellType[x.cell], now[x.cell])
      <4>1. x.param \in BindParameters[b] <=> selected(x.cell)
        <5>1. BindParameters[b] \subseteq {"fixed", "dynamic"}
          BY DEF BindParameters
        <5>2. \A p \in {"fixed", "dynamic"} : x.cell \in Cells[p] => p = x.param
          BY <3>3, <3>5, CellsAssumption
        <5> QED BY <3>3, <3>5, <5>1, <5>2
      <4>2. CASE x.param \in BindParameters[b]
        BY <3>3, <3>4, <3>5, <4>1, <4>2 DEF now, value
      <4>3. CASE x.param \notin BindParameters[b]
        <5>1. now[x.cell] = given[s][x.cell]
          BY <3>3, <3>5, <4>1, <4>3 DEF now
        <5>2. old[x.index + 1] = Bound(CellType[x.cell], given[s][x.cell])
          BY <1>2, <2>2, <3>1, <3>5
        <5> QED BY <3>4, <3>5, <4>3, <5>1, <5>2
      <4> QED BY <4>2, <4>3
    <3>6. \A k \in DOMAIN old : slots[k] \in SlotValue
      <4> SUFFICES ASSUME NEW k \in DOMAIN old PROVE slots[k] \in SlotValue
        OBVIOUS
      <4> DEFINE B == Bindings(generateIndices(e, n), b, value)
      <4>1. slots[k] = IF k \in DOMAIN B THEN B[k] ELSE old[k]
        BY <3>2 DEF bind
      <4>2. \A j \in DOMAIN B : \E x \in ComparisonsIn(generateIndices(e, n)) :
               Chosen(x, b) /\ j = x.index + 1 /\ B[j] = value[x.cell]
        BY <3>1, IndicesType, BindingsFrom
      <4>3. \A c \in Cell : value[c] \in SlotValue
        BY <1>3, CellValues DEF value, CellValue
      <4>4. \A x \in ComparisonsIn(generateIndices(e, n)) : Chosen(x, b) => x.cell \in Cell
        BY <3>3 DEF Chosen
      <4> HIDE DEF B
      <4> QED BY <1>2, <4>1, <4>2, <4>3, <4>4
    <3>7. slots = [k \in DOMAIN old |-> slots[k]]
      BY <3>2 DEF bind
    <3>8. slots \in Seq(SlotValue) /\ Len(slots) = ParametersOf(q)
      BY <1>2, <3>6, <3>7
    <3> QED BY <3>1, <3>5, <3>8
  <2> QED BY <2>1, <2>2
<1>7. /\ stmt' \in [Statement -> Compiled \cup {Unmade}]
      /\ \A t \in Statement : \A c \in Cell : given'[t][c] \in CellValue(c)
      /\ UnmadeInv' /\ StmtInv' /\ SameQueries
  <2>1. \A c \in Cell : given'[s][c] \in CellValue(c)
    BY <1>4, <1>5
  <2> QED BY <1>1, <1>5, <1>6, <2>1, SlotsKeep DEF q
<1>8. TypeInv' /\ StoredInv'
  BY <1>1, <1>5, <1>7 DEF IInv, TypeInv, StoredInv
<1> QED
  BY <1>1, <1>7, <1>8 DEF IInv, AnswerInv

\* clearBindings(): NULL is in all parameters.
LEMMA clearBindingsKeeps ==
    ASSUME IInv, NEW s \in Statement, clearBindings(s)
    PROVE  IInv' /\ SameQueries
<1> DEFINE q == stmt[s].query
           old == stmt[s].slots
           slots == [i \in DOMAIN old |-> Null]
<1>1. /\ stmt[s] # Unmade /\ given \in [Statement -> [Cell -> Int \cup {Null}]]
      /\ stmt' = [stmt EXCEPT ![s].slots = slots] /\ given' = [given EXCEPT ![s] = Nothing]
      /\ UNCHANGED <<stored, memory>> /\ answer' = Result("none", 0)
  BY DEF clearBindings, IInv, TypeInv
<1>2. q \in AllQueries /\ old \in Seq(SlotValue) /\ Len(old) = ParametersOf(q)
  BY <1>1 DEF IInv, StmtInv, AllQueries
<1>3. given' \in [Statement -> [Cell -> Int \cup {Null}]]
      /\ given'[s] = Nothing /\ \A t \in Statement : t # s => given'[t] = given[t]
  BY <1>1 DEF Nothing
<1>4. slots \in Seq(SlotValue) /\ Len(slots) = ParametersOf(q) /\ \A k \in DOMAIN old : slots[k] = Null
  BY <1>2 DEF SlotValue
<1> HIDE DEF slots, old
<1>5. ASSUME q.where # <<>>, NEW x \in ComparisonsIn(Indexed(q)[1]), HasParameter(x)
      PROVE  slots[x.index + 1] = Bound(CellType[x.cell], given'[s][x.cell])
  <2>1. x.index + 1 \in FirstIndex(q) + 1 .. ParametersOf(q) /\ x.cell \in Cell
    BY <1>2, <1>5, FilterType
  <2>2. FirstIndex(q) \in Nat /\ ParametersOf(q) \in Nat
    BY <1>2, QueryType
  <2>3. x.index + 1 \in DOMAIN old
    BY <1>2, <2>1, <2>2
  <2> QED BY <1>3, <1>4, <2>1, <2>3 DEF Bound, Nothing
<1>6. \A c \in Cell : given'[s][c] \in CellValue(c)
  BY <1>3 DEF Nothing, CellValue
<1>7. /\ stmt' \in [Statement -> Compiled \cup {Unmade}]
      /\ \A t \in Statement : \A c \in Cell : given'[t][c] \in CellValue(c)
      /\ UnmadeInv' /\ StmtInv' /\ SameQueries
  BY <1>1, <1>3, <1>4, <1>5, <1>6, SlotsKeep
<1>8. TypeInv' /\ StoredInv'
  BY <1>1, <1>3, <1>7 DEF IInv, TypeInv, StoredInv
<1> QED
  BY <1>1, <1>7, <1>8 DEF IInv, AnswerInv


\* The values of a call are bound, or some of them: the statement is reset and can
\* be used again.
LEMMA ValuesKeep ==
    ASSUME IInv, NEW s \in Statement, stmt[s] # Unmade, NEW vals \in ValuesFor(s), NEW failing,
           stmt' = [stmt EXCEPT ![s].slots = BindValues(s, vals, failing)], UNCHANGED given
    PROVE  /\ stmt' \in [Statement -> Compiled \cup {Unmade}]
           /\ \A t \in Statement : \A c \in Cell : given'[t][c] \in CellValue(c)
           /\ UnmadeInv' /\ StmtInv' /\ SameQueries
<1> DEFINE q == stmt[s].query
           old == stmt[s].slots
           slots == BindValues(s, vals, failing)
<1>1. /\ q \in AllQueries
      /\ q.where # <<>> => \A x \in ComparisonsIn(Indexed(q)[1]) : HasParameter(x) =>
            old[x.index + 1] = Bound(CellType[x.cell], given[s][x.cell])
  BY DEF IInv, StmtInv, AllQueries
<1>2. /\ slots \in Seq(SlotValue) /\ Len(slots) = ParametersOf(q)
      /\ q.kind # "insert" => \A i \in FirstIndex(q) + 1 .. ParametersOf(q) : slots[i] = old[i]
  BY ValuesBound
<1> HIDE DEF slots, old
<1>3. ASSUME q.where # <<>>, NEW x \in ComparisonsIn(Indexed(q)[1]), HasParameter(x)
      PROVE  slots[x.index + 1] = Bound(CellType[x.cell], given'[s][x.cell])
  <2>1. x.index + 1 \in FirstIndex(q) + 1 .. ParametersOf(q)
    BY <1>1, <1>3, FilterType
  <2>2. q.kind # "insert"
    BY <1>1, <1>3, QueryType
  <2> QED BY <1>1, <1>2, <1>3, <2>1, <2>2
<1>4. given \in [Statement -> [Cell -> Int \cup {Null}]]
      /\ \A c \in Cell : given[s][c] \in CellValue(c)
  BY DEF IInv, TypeInv
<1> QED
  BY <1>2, <1>3, <1>4, SlotsKeep DEF slots

LEMMA BindFailsKeeps ==
    ASSUME IInv, NEW s \in Statement, NEW vals \in ValuesFor(s), NEW failing, BindFails(s, vals, failing)
    PROVE  IInv' /\ SameQueries
<1>1. /\ stmt' \in [Statement -> Compiled \cup {Unmade}]
      /\ \A t \in Statement : \A c \in Cell : given'[t][c] \in CellValue(c)
      /\ UnmadeInv' /\ StmtInv' /\ SameQueries
  BY ValuesKeep DEF BindFails
<1> QED
  BY <1>1 DEF BindFails, IInv, TypeInv, StoredInv, AnswerInv

LEMMA StepFailsKeeps ==
    ASSUME IInv, NEW s \in Statement, NEW vals \in ValuesFor(s), StepFails(s, vals)
    PROVE  IInv' /\ SameQueries
<1>1. /\ stmt' \in [Statement -> Compiled \cup {Unmade}]
      /\ \A t \in Statement : \A c \in Cell : given'[t][c] \in CellValue(c)
      /\ UnmadeInv' /\ StmtInv' /\ SameQueries
  BY ValuesKeep DEF StepFails
<1> QED
  BY <1>1 DEF StepFails, IInv, TypeInv, StoredInv, AnswerInv

\* Rows whose values were bound for their columns.
GoodRow == {r \in [DOMAIN Types -> Int \cup {Null}] :
               \A i \in DOMAIN Types : \E v \in ColumnValue(i) : r[i] = Bound(Types[i], v)}

LEMMA GoodRows == TypeInv /\ StoredInv => stored \in Seq(GoodRow)
<1> SUFFICES ASSUME TypeInv, StoredInv PROVE stored \in Seq(GoodRow)
  OBVIOUS
<1>1. stored \in Seq([DOMAIN Types -> Int \cup {Null}])
  BY DEF TypeInv
<1>2. \A k \in 1 .. Len(stored) : stored[k] \in GoodRow
  BY <1>1 DEF StoredInv, GoodRow
<1>3. Len(stored) \in Nat /\ stored = [k \in 1 .. Len(stored) |-> stored[k]]
  BY <1>1
<1> QED
  BY <1>2, <1>3

LEMMA RowsAreGood ==
    ASSUME stored' \in Seq(GoodRow)
    PROVE  stored' \in Seq([DOMAIN Types -> Int \cup {Null}]) /\ StoredInv'
<1>1. GoodRow \subseteq [DOMAIN Types -> Int \cup {Null}]
  BY DEF GoodRow
<1>2. stored' \in Seq([DOMAIN Types -> Int \cup {Null}])
  BY <1>1, SeqGrows
<1>3. \A k \in DOMAIN stored' : stored'[k] \in GoodRow
  OBVIOUS
<1> QED
  BY <1>2, <1>3 DEF StoredInv, GoodRow

\* Columns that are set have the values of the call, the others those of the row.
LEMMA ColumnsSet ==
    ASSUME NEW r \in GoodRow, NEW columns \in Seq(DOMAIN Types), NEW slots, NEW vals,
           \A k \in DOMAIN columns : /\ vals[k] \in Choice[columns[k]]
                                     /\ slots[k] = Bound(Types[columns[k]], vals[k])
    PROVE  /\ SetColumns(r, columns, slots) \in GoodRow
           /\ \A i \in DOMAIN Types : IF PlaceOf(columns, i) # 0
                 THEN /\ vals[PlaceOf(columns, i)] \in Choice[i]
                      /\ SetColumns(r, columns, slots)[i] = Bound(Types[i], vals[PlaceOf(columns, i)])
                 ELSE SetColumns(r, columns, slots)[i] = r[i]
<1> DEFINE u == SetColumns(r, columns, slots)
<1>1. r \in [DOMAIN Types -> Int \cup {Null}]
      /\ \A i \in DOMAIN Types : \E v \in ColumnValue(i) : r[i] = Bound(Types[i], v)
  BY DEF GoodRow
<1>2. DOMAIN u = DOMAIN Types /\ u = [i \in DOMAIN Types |-> u[i]]
      /\ \A i \in DOMAIN Types : u[i] = IF PlaceOf(columns, i) # 0 THEN slots[PlaceOf(columns, i)] ELSE r[i]
  BY <1>1 DEF SetColumns
<1> HIDE DEF u
<1>3. ASSUME NEW i \in DOMAIN Types, PlaceOf(columns, i) # 0
      PROVE  /\ vals[PlaceOf(columns, i)] \in Choice[i]
             /\ slots[PlaceOf(columns, i)] = Bound(Types[i], vals[PlaceOf(columns, i)])
  <2>1. PlaceOf(columns, i) \in DOMAIN columns /\ columns[PlaceOf(columns, i)] = i
    BY <1>3, PlaceFound
  <2> QED BY <2>1
<1>4. ASSUME NEW i \in DOMAIN Types
      PROVE  u[i] \in Int \cup {Null} /\ \E v \in ColumnValue(i) : u[i] = Bound(Types[i], v)
  <2>1. CASE PlaceOf(columns, i) # 0
    <3> DEFINE v == vals[PlaceOf(columns, i)]
    <3>1. v \in ColumnValue(i) /\ u[i] = Bound(Types[i], v)
      BY <1>2, <1>3, <2>1 DEF ColumnValue
    <3> HIDE DEF v
    <3> QED BY <3>1, ColumnValues
  <2>2. CASE PlaceOf(columns, i) = 0
    BY <1>1, <1>2, <2>2
  <2> QED BY <2>1, <2>2
<1>5. u \in GoodRow
  BY <1>2, <1>4 DEF GoodRow
<1> QED
  BY <1>2, <1>3, <1>5 DEF u

LEMMA SequenceFrom ==
    ASSUME NEW T, NEW n \in Nat, NEW f, f = [i \in 1 .. n |-> f[i]], \A i \in 1 .. n : f[i] \in T
    PROVE  f \in Seq(T) /\ Len(f) = n
OBVIOUS

\* A step of SQLite leaves rows whose values were bound for their columns.
LEMMA StepType ==
    ASSUME IInv, NEW s \in Statement, stmt[s] # Unmade, NEW vals \in ValuesFor(s)
    PROVE  LET q == stmt[s].query
               after == Step(stmt[s].text, BindValues(s, vals, {}))
           IN  /\ after \in Seq(GoodRow)
               /\ Len(after) <= IF q.kind = "insert" THEN Len(stored) + 1 ELSE Len(stored)
<1> DEFINE q == stmt[s].query
           text == stmt[s].text
           slots == BindValues(s, vals, {})
           after == Step(text, slots)
<1>1. stored \in Seq(GoodRow) /\ Len(stored) \in Nat
  BY GoodRows DEF IInv
<1>2. q \in AllQueries /\ text.kind = q.kind /\ text.columns = q.columns
  <2>1. q \in AllQueries /\ text = TextOf(q)
    BY DEF IInv, StmtInv, AllQueries
  <2> HIDE DEF q, text
  <2> QED BY <2>1 DEF TextOf
<1>3. q.kind \in {"insert", "update", "delete", "count"} /\ q.columns \in Seq(DOMAIN Types)
  BY <1>2, QueryType
<1>4. ASSUME q.kind \in {"insert", "update"}, NEW k \in DOMAIN q.columns
      PROVE  vals[k] \in Choice[q.columns[k]] /\ slots[k] = Bound(Types[q.columns[k]], vals[k])
  BY <1>4, ArgumentsType, ValuesBound
<1> HIDE DEF q, text, slots
<1>5. CASE q.kind = "insert"
  <2> DEFINE new == [i \in DOMAIN Types |-> Null]
  <2>1. new \in GoodRow
    BY DEF GoodRow, ColumnValue, Bound
  <2> HIDE DEF new
  <2>2. SetColumns(new, q.columns, slots) \in GoodRow
    BY <1>3, <1>4, <1>5, <2>1, ColumnsSet
  <2>3. after = Append(stored, SetColumns(new, q.columns, slots))
    BY <1>2, <1>5 DEF Step, new
  <2> QED BY <1>1, <1>5, <2>2, <2>3 DEF q, text, slots
<1>6. CASE q.kind = "update"
  <2> DEFINE taken == RowsTaken(text, slots)
  <2>1. after = [i \in DOMAIN stored |-> IF i \in taken THEN SetColumns(stored[i], q.columns, slots)
                                         ELSE stored[i]]
    BY <1>2, <1>6 DEF Step
  <2> HIDE DEF taken
  <2>2. \A i \in DOMAIN stored : stored[i] \in GoodRow /\ SetColumns(stored[i], q.columns, slots) \in GoodRow
    BY <1>1, <1>3, <1>4, <1>6, ColumnsSet
  <2>3. after \in Seq(GoodRow) /\ Len(after) = Len(stored)
    <3> HIDE DEF after
    <3>1. \A i \in DOMAIN stored : after[i] \in GoodRow
      BY <2>1, <2>2
    <3>2. after = [i \in 1 .. Len(stored) |-> after[i]] /\ DOMAIN stored = 1 .. Len(stored)
      BY <1>1, <2>1
    <3>3. \A i \in 1 .. Len(stored) : after[i] \in GoodRow
      BY <3>1, <3>2
    <3> QED BY <1>1, <3>2, <3>3, SequenceFrom, Zenon
  <2> QED BY <1>1, <1>6, <2>3 DEF q, text, slots
<1>7. CASE q.kind = "delete"
  <2>1. after = Kept(stored, DOMAIN stored \ RowsTaken(text, slots))
    BY <1>2, <1>7 DEF Step
  <2> QED BY <1>1, <1>7, <2>1, KeptType DEF q, text, slots
<1>8. CASE q.kind = "count"
  <2>1. after = stored
    BY <1>2, <1>8 DEF Step
  <2> QED BY <1>1, <1>8, <2>1 DEF q, text, slots
<1> QED
  BY <1>3, <1>5, <1>6, <1>7, <1>8 DEF q

\* A count is read as it is.
LEMMA CountRead ==
    ASSUME NEW n \in Nat, n < Half64
    PROVE  column("int64", n) = n
<1>1. Half32 \in Nat /\ Half64 \in Nat /\ ~(Half64 <= Half32)
  BY HalfAssumption
<1>2. Half("int64") = Half64 /\ return_t("int64") = "int64" /\ "int64" \in Integer
  BY <1>1 DEF Half, return_t, Integer, Signed
<1>3. column_int(n, Half64) = n
  BY <1>1, NullAssumption DEF column_int, Narrowed
<1> QED
  BY <1>2, <1>3 DEF column, Cast

LEMMA TakenCount ==
    ASSUME IInv, NEW text, NEW slots
    PROVE  /\ RowsTaken(text, slots) \subseteq DOMAIN stored
           /\ Cardinality(RowsTaken(text, slots)) \in 0 .. MaxRows
           /\ column("int64", Cardinality(RowsTaken(text, slots))) = Cardinality(RowsTaken(text, slots))
<1> DEFINE taken == RowsTaken(text, slots)
<1>1. Len(stored) \in Nat /\ Len(stored) <= MaxRows /\ DOMAIN stored = 1 .. Len(stored)
  BY DEF IInv, TypeInv
<1>2. taken \subseteq DOMAIN stored
  BY DEF RowsTaken, Taken
<1>3. IsFiniteSet(1 .. Len(stored)) /\ Cardinality(1 .. Len(stored)) = Len(stored)
  <2>1. 1 \in Int /\ Len(stored) \in Int
    BY <1>1
  <2>2. IsFiniteSet(1 .. Len(stored))
        /\ Cardinality(1 .. Len(stored)) = IF 1 > Len(stored) THEN 0 ELSE Len(stored) - 1 + 1
    BY <2>1, FS_Interval, Zenon
  <2> QED BY <1>1, <2>2
<1> HIDE DEF taken
<1>4. Cardinality(taken) \in Nat /\ Cardinality(taken) <= Len(stored)
  BY <1>1, <1>2, <1>3, FS_Subset, FS_CardinalityType
<1>5. Cardinality(taken) < Half64
  BY <1>1, <1>4, MaxRowsAssumption, HalfAssumption
<1> QED
  BY <1>1, <1>2, <1>4, <1>5, MaxRowsAssumption, CountRead DEF taken

LEMMA RunKeeps ==
    ASSUME IInv, NEW s \in Statement, NEW vals \in ValuesFor(s), Run(s, vals)
    PROVE  IInv' /\ SameQueries
<1> DEFINE q == stmt[s].query
           after == Step(stmt[s].text, BindValues(s, vals, {}))
<1>1. /\ stmt[s] # Unmade
      /\ q.kind = "insert" => Len(stored) < MaxRows
      /\ stmt' = [stmt EXCEPT ![s].slots = BindValues(s, vals, {})]
      /\ stored' = after /\ UNCHANGED <<memory, given>>
  BY DEF Run
<1>2. answer' \in {Result("rows", column("int64", Cardinality(
                       RowsTaken(stmt[s].text, BindValues(s, vals, {}))))), Result("done", 0)}
  BY DEF Run
<1>3. AnswerInv'
  BY <1>2, TakenCount DEF AnswerInv
<1>4. after \in Seq(GoodRow) /\ Len(after) <= IF q.kind = "insert" THEN Len(stored) + 1 ELSE Len(stored)
  BY <1>1, StepType
<1>5. Len(stored) \in Nat /\ Len(stored) <= MaxRows /\ MaxRows \in Nat
  BY MaxRowsAssumption DEF IInv, TypeInv
<1> HIDE DEF after
<1>6. Len(after) <= MaxRows
  <2>1. Len(after) \in Nat
    BY <1>4
  <2> QED BY <1>1, <1>4, <1>5, <2>1
<1>7. /\ stmt' \in [Statement -> Compiled \cup {Unmade}]
      /\ \A t \in Statement : \A c \in Cell : given'[t][c] \in CellValue(c)
      /\ UnmadeInv' /\ StmtInv' /\ SameQueries
  BY <1>1, ValuesKeep
<1>8. stored' \in Seq([DOMAIN Types -> Int \cup {Null}]) /\ StoredInv'
  BY <1>1, <1>4, RowsAreGood
<1>9. TypeInv'
  BY <1>1, <1>6, <1>7, <1>8 DEF IInv, TypeInv
<1> QED
  BY <1>3, <1>7, <1>8, <1>9 DEF IInv


LEMMA NextKeeps == IInv /\ [Next]_vars => IInv'
<1> SUFFICES ASSUME IInv, [Next]_vars PROVE IInv'
  OBVIOUS
<1>1. ASSUME NEW s \in Statement, NEW q \in Queries[s], Compile(s, q) PROVE IInv'
  BY <1>1, CompileKeeps
<1>2. ASSUME NEW c \in Cells["dynamic"], NEW v \in CellChoice[c], Assign(c, v) PROVE IInv'
  BY <1>2, AssignKeeps
<1>3. ASSUME NEW s \in Statement, NEW b \in DOMAIN BindParameters, Bind(s, b) PROVE IInv'
  BY <1>3, BindKeeps
<1>4. ASSUME NEW s \in Statement, clearBindings(s) PROVE IInv'
  BY <1>4, clearBindingsKeeps
<1>5. ASSUME NEW s \in Statement, NEW vals \in ValuesFor(s), Run(s, vals) PROVE IInv'
  BY <1>5, RunKeeps
<1>6. ASSUME NEW s \in Statement, NEW vals \in ValuesFor(s), NEW failing, BindFails(s, vals, failing)
      PROVE  IInv'
  BY <1>6, BindFailsKeeps
<1>7. ASSUME NEW s \in Statement, NEW vals \in ValuesFor(s), StepFails(s, vals) PROVE IInv'
  BY <1>7, StepFailsKeeps
<1>8. CASE UNCHANGED vars
  BY <1>8 DEF vars, IInv, TypeInv, StoredInv, UnmadeInv, StmtInv, AnswerInv
<1> QED
  BY <1>1, <1>2, <1>3, <1>4, <1>5, <1>6, <1>7, <1>8 DEF Next

\* The inductive invariant is in each state.
THEOREM Inductive == Spec => []IInv
<1>1. Init => IInv
  BY InitOK
<1>2. IInv /\ [Next]_vars => IInv'
  BY NextKeeps
<1> QED
  BY <1>1, <1>2, PTL DEF Spec

\* What is stored fits the types that it is read with, whatever the statements
\* and the values, and parameters hold values of columns and operands.
THEOREM TypeCorrect == Spec => []TypeOK
<1>1. IInv => TypeOK
  <2> SUFFICES ASSUME IInv PROVE TypeOK
    OBVIOUS
  <2>1. stored \in Seq([DOMAIN Types -> Int \cup {Null}]) /\ Len(stored) <= MaxRows
    BY DEF IInv, TypeInv
  <2>2. \A k \in DOMAIN stored, i \in DOMAIN Types : stored[k][i] \in StoredOf(Types[i]) \cup {Null}
    BY ColumnValues DEF IInv, StoredInv
  <2>3. ASSUME NEW s \in Statement, stmt[s] # Unmade
        PROVE  /\ Len(stmt[s].slots) = ParametersOf(stmt[s].query)
               /\ \A k \in DOMAIN stmt[s].slots : stmt[s].slots[k] \in SlotValue
    BY <2>3 DEF IInv, StmtInv
  <2> QED BY <2>1, <2>2, <2>3 DEF TypeOK, SlotValue, IInv, AnswerInv
<1> QED
  BY <1>1, Inductive, PTL


-----------------------------------------------------------------------------
(* Reading the table.                                                      *)

LEMMA ValuesClean ==
    ASSUME Comparable
    PROVE  /\ \A i \in DOMAIN Types : \A v \in ColumnValue(i) : Clean(Types[i], v)
           /\ \A c \in Cell : \A v \in CellValue(c) : Clean(CellType[c], v)
<1>1. Null # 0
  BY NullAssumption
<1>2. ASSUME NEW i \in DOMAIN Types, NEW v \in ColumnValue(i) PROVE Clean(Types[i], v)
  <2>1. v \in ValuesOf(Types[i]) \cup {Null}
    BY ColumnValues
  <2>2. Types[i] = "Text" => v # 0
    BY <1>1 DEF Comparable, ColumnValue
  <2> QED BY <2>1, <2>2 DEF Clean
<1>3. ASSUME NEW c \in Cell, NEW v \in CellValue(c) PROVE Clean(CellType[c], v)
  <2>1. v \in ValuesOf(CellType[c]) \cup {Null}
    BY CellValues
  <2>2. CellType[c] = "Text" => v # 0
    BY <1>1 DEF Comparable, CellValue
  <2> QED BY <2>1, <2>2 DEF Clean
<1> QED
  BY <1>2, <1>3

\* A stored row is what was bound for the values that are read from it.
LEMMA RowRead ==
    ASSUME Comparable, NEW r \in GoodRow
    PROVE  /\ DOMAIN Row(r) = DOMAIN Types /\ Row(r) = [i \in DOMAIN Types |-> Row(r)[i]]
           /\ \A i \in DOMAIN Types : /\ Clean(Types[i], Row(r)[i])
                                      /\ r[i] = Bound(Types[i], Row(r)[i])
                                      /\ \A v \in ColumnValue(i) :
                                            r[i] = Bound(Types[i], v) => Row(r)[i] = v
<1>1. DOMAIN r = DOMAIN Types /\ \A i \in DOMAIN Types : \E v \in ColumnValue(i) : r[i] = Bound(Types[i], v)
  BY DEF GoodRow
<1>2. DOMAIN Row(r) = DOMAIN Types /\ Row(r) = [i \in DOMAIN Types |-> Row(r)[i]]
      /\ \A i \in DOMAIN Types : Row(r)[i] = IF r[i] = Null THEN Null ELSE column(Types[i], r[i])
  BY <1>1 DEF Row
<1>3. ASSUME NEW i \in DOMAIN Types, NEW v \in ColumnValue(i), r[i] = Bound(Types[i], v)
      PROVE  Clean(Types[i], v) /\ Row(r)[i] = v
  <2>1. Clean(Types[i], v) /\ Types[i] \in Type
    BY ValuesClean, ColumnValues
  <2>2. /\ Bound(Types[i], v) = Null <=> v = Null
        /\ v # Null => column(Types[i], Bound(Types[i], v)) = v
    BY <2>1, ReadBack
  <2> QED BY <1>2, <1>3, <2>1, <2>2
<1> QED
  BY <1>1, <1>2, <1>3

\* Setting columns of a row is the same before and after the conversions.
LEMMA RowChanged ==
    ASSUME Comparable,
           NEW r \in GoodRow, NEW columns \in Seq(DOMAIN Types), NEW slots, NEW vals,
           \A k \in DOMAIN columns : /\ vals[k] \in Choice[columns[k]]
                                     /\ slots[k] = Bound(Types[columns[k]], vals[k])
    PROVE  Row(SetColumns(r, columns, slots)) = Contents!Changed(Row(r), columns, vals)
<1> DEFINE u == SetColumns(r, columns, slots)
<1>1. /\ u \in GoodRow
      /\ \A i \in DOMAIN Types : IF PlaceOf(columns, i) # 0
            THEN /\ vals[PlaceOf(columns, i)] \in Choice[i]
                 /\ u[i] = Bound(Types[i], vals[PlaceOf(columns, i)])
            ELSE u[i] = r[i]
  BY ColumnsSet
<1> HIDE DEF u
<1>2. Contents!Changed(Row(r), columns, vals) =
         [i \in DOMAIN Types |-> IF PlaceOf(columns, i) # 0 THEN vals[PlaceOf(columns, i)] ELSE Row(r)[i]]
  BY RowRead DEF Contents!Changed
<1>3. ASSUME NEW i \in DOMAIN Types
      PROVE  Row(u)[i] = IF PlaceOf(columns, i) # 0 THEN vals[PlaceOf(columns, i)] ELSE Row(r)[i]
  <2>1. CASE PlaceOf(columns, i) # 0
    <3> DEFINE v == vals[PlaceOf(columns, i)]
    <3>1. v \in ColumnValue(i) /\ u[i] = Bound(Types[i], v)
      BY <1>1, <2>1 DEF ColumnValue
    <3> HIDE DEF v
    <3>2. Row(u)[i] = v
      BY <1>1, <3>1, RowRead
    <3> QED BY <2>1, <3>2 DEF v
  <2>2. CASE PlaceOf(columns, i) = 0
    <3>1. u[i] = r[i]
      BY <1>1, <2>2
    <3>2. PICK v \in ColumnValue(i) : r[i] = Bound(Types[i], v)
      BY DEF GoodRow
    <3>3. Row(u)[i] = v /\ Row(r)[i] = v
      BY <1>1, <3>1, <3>2, RowRead
    <3> QED BY <2>2, <3>3
  <2> QED BY <2>1, <2>2
<1>4. Row(u) = [i \in DOMAIN Types |-> Row(u)[i]]
  BY <1>1, RowRead
<1>5. Row(u) = [i \in DOMAIN Types |-> IF PlaceOf(columns, i) # 0 THEN vals[PlaceOf(columns, i)]
                                       ELSE Row(r)[i]]
  BY <1>3, <1>4
<1> QED
  BY <1>2, <1>5 DEF u

\* The table of one row that a condition is evaluated on.
OneRow(r) == <<[t \in {TheTable} |-> r]>>

LEMMA ValueOfRow ==
    ASSUME NEW c, c.table = TheTable, c.func = "none", NEW r
    PROVE  ValueOf(c, OneRow(r)) = r[c.index]
<1>1. OneRow(r) # <<>> /\ DOMAIN OneRow(r) = {1} /\ OneRow(r)[1][TheTable] = r
  BY DEF OneRow
<1> QED
  BY <1>1 DEF ValueOf

\* SQLite reads a comparison of the filter as the program reads it, on the row as
\* it is stored and on the row as it is read.
LEMMA ComparisonRead ==
    ASSUME Comparable, NEW q \in AllQueries, Valid(q), Prepares(q), q.where # <<>>,
           NEW x \in ComparisonsIn(Indexed(q)[1]), NEW r \in GoodRow, NEW slots, NEW value,
           HasParameter(x) => /\ value[x.cell] \in CellValue(x.cell)
                              /\ slots[x.index + 1] = Bound(CellType[x.cell], value[x.cell])
    PROVE  Sql(SimpleText(x), OneRow(r), slots) = Agrees(x, OneRow(Row(r)), value)
<1>1. /\ x \in Simple /\ x \in Expr
      /\ HasParameter(x) => x.cell \in Cell
  BY FilterType
<1>2. PICK y \in ComparisonsIn(q.where[1]), j \in Nat : x = Renumbered(y, j) /\ y \in Simple
  BY FilterType
<1>3. 1 \in DOMAIN q.where
  BY QueryType
<1>4. \A c \in ColumnsIn(y) : c.table = TheTable /\ c.func = "none" /\ c.index \in DOMAIN Types
  <2>1. \A c \in ColumnsIn(y) : c \in Mentioned(q)
    BY <1>2, <1>3 DEF Mentioned, ColumnsOf
  <2> QED BY <1>2, <1>3, <2>1, QueriesAssumption DEF Prepares
<1>5. /\ y.kind = "columns" => Alike(Types[y.left.index], y.op, Types[y.right.index])
      /\ HasParameter(y) => Alike(Types[y.col.index], y.op, CellType[y.cell])
  BY <1>2, <1>3 DEF Comparable
<1>6. /\ x.kind = y.kind /\ x.op = y.op
      /\ HasParameter(x) <=> HasParameter(y)
      /\ x.kind = "columns" => x = y
      /\ x.kind # "columns" => x.col = y.col /\ x.lhs = y.lhs /\ x.param = y.param /\ x.cell = y.cell
  BY <1>2, RenumberedSame
<1> DEFINE S(c) == ValueOf(c, OneRow(r))
           M(c) == ValueOf(c, OneRow(Row(r)))
<1>7. \A c \in ColumnsIn(y) : /\ S(c) = Bound(Types[c.index], M(c))
                              /\ Clean(Types[c.index], M(c)) /\ Types[c.index] \in Type
  <2> SUFFICES ASSUME NEW c \in ColumnsIn(y)
               PROVE  /\ S(c) = Bound(Types[c.index], M(c))
                      /\ Clean(Types[c.index], M(c)) /\ Types[c.index] \in Type
    OBVIOUS
  <2>1. S(c) = r[c.index] /\ M(c) = Row(r)[c.index]
    BY <1>4, ValueOfRow
  <2> QED BY <1>4, <2>1, RowRead, ColumnValues
<1>8. Sql(SimpleText(x), OneRow(r), slots) =
         IF x.kind = "columns" THEN Compare(S(x.left), x.op, S(x.right))
         ELSE IF x.param = "nullptr" THEN Truth((x.op = "=") <=> (S(x.col) = Null))
         ELSE IF x.lhs THEN Compare(S(x.col), x.op, slots[x.index + 1])
         ELSE Compare(slots[x.index + 1], x.op, S(x.col))
  BY <1>1, SqlOfSimple
<1>9. Agrees(x, OneRow(Row(r)), value) =
         IF x.kind = "columns" THEN Compare(M(x.left), x.op, M(x.right))
         ELSE IF x.param = "nullptr" THEN Truth((x.op = "=") <=> (M(x.col) = Null))
         ELSE IF x.lhs THEN Compare(M(x.col), x.op, value[x.cell])
         ELSE Compare(value[x.cell], x.op, M(x.col))
  BY DEF Agrees
<1> HIDE DEF S, M
<1>10. CASE x.kind = "columns"
  <2>1. x.left \in ColumnsIn(y) /\ x.right \in ColumnsIn(y) /\ x = y
    BY <1>6, <1>10 DEF ColumnsIn
  <2>2. Alike(Types[x.left.index], x.op, Types[x.right.index])
    BY <1>5, <1>10, <2>1
  <2>3. Compare(Bound(Types[x.left.index], M(x.left)), x.op, Bound(Types[x.right.index], M(x.right)))
        = Compare(M(x.left), x.op, M(x.right))
    BY <1>7, <2>1, <2>2, ComparedAlike
  <2> QED BY <1>7, <1>8, <1>9, <1>10, <2>1, <2>3
<1>11. CASE x.kind # "columns" /\ x.param = "nullptr"
  <2>1. x.col \in ColumnsIn(y)
    BY <1>6, <1>11 DEF ColumnsIn
  <2>2. S(x.col) = Null <=> M(x.col) = Null
    BY <1>7, <2>1, ReadBack
  <2>3. ((x.op = "=") <=> (S(x.col) = Null)) <=> ((x.op = "=") <=> (M(x.col) = Null))
    BY <2>2
  <2> QED BY <1>8, <1>9, <1>11, <2>3 DEF Truth
<1>12. CASE x.kind # "columns" /\ x.param # "nullptr"
  <2> DEFINE T == Types[x.col.index]
             U == CellType[x.cell]
             v == value[x.cell]
  <2>1. HasParameter(x) /\ x.col \in ColumnsIn(y)
    BY <1>6, <1>12 DEF ColumnsIn, HasParameter
  <2>2. Alike(T, x.op, U) /\ T \in Type /\ Clean(T, M(x.col)) /\ S(x.col) = Bound(T, M(x.col))
    BY <1>5, <1>6, <1>7, <1>12, <2>1
  <2>3. Clean(U, v) /\ U \in Type /\ slots[x.index + 1] = Bound(U, v)
    BY <1>1, <2>1, ValuesClean, CellValues
  <2> HIDE DEF T, U, v
  <2>4. Alike(U, x.op, T)
    BY <2>2 DEF Alike
  <2>5. Compare(Bound(T, M(x.col)), x.op, Bound(U, v)) = Compare(M(x.col), x.op, v)
    BY <2>2, <2>3, ComparedAlike
  <2>6. Compare(Bound(U, v), x.op, Bound(T, M(x.col))) = Compare(v, x.op, M(x.col))
    BY <2>2, <2>3, <2>4, ComparedAlike
  <2> QED BY <1>8, <1>9, <1>12, <2>2, <2>3, <2>5, <2>6 DEF v
<1> QED
  BY <1>10, <1>11, <1>12


LEMMA TextNotEmpty ==
    ASSUME NEW e \in Expr
    PROVE  toString(e) # <<>>
BY TextType

\* SQLite takes the rows of the stored table that the program means in the table
\* it reads: where the filter holds for the values bound last, in the order of the
\* values, within the limit.
LEMMA SameRowsTaken ==
    ASSUME Comparable, IInv, NEW s \in Statement, stmt[s] # Unmade, stmt[s].query.kind # "insert",
           NEW vals \in ValuesFor(s)
    PROVE  RowsTaken(stmt[s].text, BindValues(s, vals, {})) = Contents!HitsOf(stmt[s].query, given[s])
<1> DEFINE q == stmt[s].query
           text == stmt[s].text
           slots == BindValues(s, vals, {})
           value == given[s]
<1>1. /\ q \in AllQueries /\ Valid(q) /\ Prepares(q) /\ text = TextOf(q)
      /\ q.where # <<>> => \A x \in ComparisonsIn(Indexed(q)[1]) : HasParameter(x) =>
            stmt[s].slots[x.index + 1] = Bound(CellType[x.cell], value[x.cell])
  BY DEF IInv, StmtInv, AllQueries
<1>2. \A i \in FirstIndex(q) + 1 .. ParametersOf(q) : slots[i] = stmt[s].slots[i]
  BY ValuesBound
<1>3. \A c \in Cell : value[c] \in CellValue(c)
  BY DEF IInv, TypeInv
<1>4. stored \in Seq(GoodRow) /\ DOMAIN Rows = DOMAIN stored
      /\ \A i \in DOMAIN stored : stored[i] \in GoodRow /\ Rows[i] = Row(stored[i])
  BY GoodRows DEF IInv, Rows
<1> HIDE DEF q, text, slots, value
<1>5. q.table = TheTable /\ text.order = q.order /\ text.limit = q.limit
      /\ text.where = IF q.where = <<>> THEN <<>> ELSE toString(Indexed(q)[1])
  BY <1>1 DEF Valid, TextOf
<1>6. ASSUME NEW i \in DOMAIN stored, q.where # <<>>
      PROVE  Sql(text.where, OneRow(stored[i]), slots) = Holds(q.where[1], OneRow(Rows[i]), value)
  <2> DEFINE e == Indexed(q)[1]
  <2>1. e = generateIndices(q.where[1], FirstIndex(q)) /\ q.where[1] \in Expr /\ FirstIndex(q) \in Nat
    BY <1>1, <1>6, QueryType
  <2>2. e \in Expr
    BY <2>1, IndicesType
  <2> HIDE DEF e
  <2>3. ASSUME NEW x \in ComparisonsIn(e)
        PROVE  Sql(SimpleText(x), OneRow(stored[i]), slots) = Agrees(x, OneRow(Row(stored[i])), value)
    <3>1. ASSUME HasParameter(x)
          PROVE  /\ value[x.cell] \in CellValue(x.cell)
                 /\ slots[x.index + 1] = Bound(CellType[x.cell], value[x.cell])
      <4>1. x.index + 1 \in FirstIndex(q) + 1 .. ParametersOf(q) /\ x.cell \in Cell
        BY <1>1, <1>6, <2>3, <3>1, FilterType DEF e
      <4> QED BY <1>1, <1>2, <1>3, <1>6, <2>3, <3>1, <4>1 DEF e
    <3>2. stored[i] \in GoodRow /\ x \in ComparisonsIn(Indexed(q)[1])
      BY <1>4, <2>3 DEF e
    <3>3. HasParameter(x) => /\ value[x.cell] \in CellValue(x.cell)
                             /\ slots[x.index + 1] = Bound(CellType[x.cell], value[x.cell])
      BY <3>1
    <3> QED BY <1>1, <1>6, <3>2, <3>3, ComparisonRead, Zenon
  <2>4. Sql(toString(e), OneRow(stored[i]), slots) = Holds(e, OneRow(Row(stored[i])), value)
    BY <2>2, <2>3, SqlIsHolds
  <2>5. Holds(e, OneRow(Row(stored[i])), value) = Holds(q.where[1], OneRow(Row(stored[i])), value)
    BY <2>1, HoldsNumbered
  <2> QED BY <1>4, <1>5, <1>6, <2>4, <2>5 DEF e
<1>7. q.where # <<>> => text.where # <<>>
  BY <1>1, <1>5, QueryType, IndicesType, TextNotEmpty
<1>8. ASSUME NEW i \in DOMAIN stored, NEW k \in DOMAIN q.order
      PROVE  stored[i][q.order[k].col.index] = Rows[i][q.order[k].col.index]
  <2> DEFINE j == q.order[k].col.index
  <2>1. q.order[k].col \in Mentioned(q)
    BY DEF Mentioned
  <2>2. j \in DOMAIN Types
    BY <1>1, <2>1, QueriesAssumption DEF Prepares
  <2>3. Straight(Types[j])
    BY <1>1 DEF Comparable
  <2> HIDE DEF j
  <2>4. stored[i][j] = Bound(Types[j], Row(stored[i])[j]) /\ Clean(Types[j], Row(stored[i])[j])
    BY <1>4, <2>2, RowRead
  <2>5. Types[j] \in Type
    BY <2>2, ColumnValues
  <2>6. stored[i][j] = Row(stored[i])[j]
    BY <2>3, <2>4, <2>5, StoredStraight
  <2> QED BY <1>4, <2>6 DEF j
<1> DEFINE hits == {i \in DOMAIN stored :
                       text.where = <<>> \/ Sql(text.where, OneRow(stored[i]), slots) = 2}
           meant == {i \in DOMAIN Rows : q.where = <<>> \/ Holds(q.where[1], OneRow(Rows[i]), value) = 2}
           key == [i \in DOMAIN stored |->
                     [k \in DOMAIN text.order |-> stored[i][text.order[k].col.index]]]
           read == [i \in DOMAIN Rows |-> [k \in DOMAIN q.order |-> Rows[i][q.order[k].col.index]]]
<1>9. hits = meant
  BY <1>4, <1>5, <1>6, <1>7
<1>10. key = read
  <2>1. \A i \in DOMAIN stored :
           [k \in DOMAIN q.order |-> stored[i][q.order[k].col.index]] =
              [k \in DOMAIN q.order |-> Rows[i][q.order[k].col.index]]
    BY <1>8
  <2> QED BY <1>4, <1>5, <2>1
<1>11. RowsTaken(text, slots) = Taken(hits, key, text.order, text.limit)
  BY DEF RowsTaken, OneRow
<1>12. Contents!HitsOf(q, value) = Taken(meant, read, q.order, q.limit)
  BY <1>5 DEF Contents!HitsOf, OneRow
<1> HIDE DEF hits, meant, key, read
<1> QED
  BY <1>5, <1>9, <1>10, <1>11, <1>12 DEF q, text, slots, value


-----------------------------------------------------------------------------
(* Every step is one of TableContents.                                     *)

LEMMA MadeIs ==
    ASSUME IInv
    PROVE  \A s \in Statement :
              /\ Made[s] = Unmade <=> stmt[s] = Unmade
              /\ stmt[s] # Unmade => /\ Made[s] = [query |-> stmt[s].query, given |-> given[s]]
                                     /\ Made[s].query = stmt[s].query /\ Made[s].given = given[s]
<1> SUFFICES ASSUME NEW s \in Statement
             PROVE  /\ Made[s] = Unmade <=> stmt[s] = Unmade
                    /\ stmt[s] # Unmade =>
                          /\ Made[s] = [query |-> stmt[s].query, given |-> given[s]]
                          /\ Made[s].query = stmt[s].query /\ Made[s].given = given[s]
  OBVIOUS
<1>1. Made[s] = IF stmt[s] = Unmade THEN Unmade ELSE [query |-> stmt[s].query, given |-> given[s]]
  BY DEF Made
<1>2. ASSUME stmt[s] # Unmade
      PROVE  [query |-> stmt[s].query, given |-> given[s]] # Unmade
  <2>1. stmt[s].query \in AllQueries /\ given[s] \in [Cell -> Int \cup {Null}]
    BY <1>2 DEF IInv, TypeInv, StmtInv, AllQueries
  <2> QED BY <2>1, UnmadeAssumption
<1> QED
  BY <1>1, <1>2

LEMMA MadeSame ==
    ASSUME SameQueries, UNCHANGED given
    PROVE  Made' = Made
<1>1. \A t \in Statement :
         (IF stmt'[t] = Unmade THEN Unmade ELSE [query |-> stmt'[t].query, given |-> given'[t]])
         = (IF stmt[t] = Unmade THEN Unmade ELSE [query |-> stmt[t].query, given |-> given[t]])
  BY DEF SameQueries
<1> QED
  BY <1>1 DEF Made

LEMMA MadeGiven ==
    ASSUME IInv, SameQueries, NEW s \in Statement, stmt[s] # Unmade, NEW now,
           given' = [given EXCEPT ![s] = now]
    PROVE  Made' = [Made EXCEPT ![s].given = now]
<1>1. \A t \in Statement : given'[t] = IF t = s THEN now ELSE given[t]
  BY DEF IInv, TypeInv
<1>2. Made' = [t \in Statement |-> IF stmt'[t] = Unmade THEN Unmade
                                   ELSE [query |-> stmt'[t].query, given |-> given'[t]]]
  BY DEF Made
<1>3. ASSUME NEW t \in Statement, t # s PROVE Made'[t] = Made[t]
  <2>1. Made[t] = IF stmt[t] = Unmade THEN Unmade ELSE [query |-> stmt[t].query, given |-> given[t]]
    BY DEF Made
  <2> QED BY <1>1, <1>2, <1>3, <2>1 DEF SameQueries
<1>4. Made'[s] = [query |-> stmt[s].query, given |-> now]
  BY <1>1, <1>2 DEF SameQueries
<1>5. [Made[s] EXCEPT !.given = now] = [query |-> stmt[s].query, given |-> now]
  <2>1. Made[s] = [query |-> stmt[s].query, given |-> given[s]]
    BY MadeIs
  <2> QED BY <2>1
<1>6. DOMAIN Made = Statement /\ Made' = [t \in Statement |-> Made'[t]]
      /\ Made = [t \in Statement |-> Made[t]]
  BY <1>2 DEF Made
<1> QED
  BY <1>3, <1>4, <1>5, <1>6

LEMMA RowsSame ==
    ASSUME UNCHANGED stored
    PROVE  Rows' = Rows
BY DEF Rows, Row

LEMMA MakeStep ==
    ASSUME IInv, NEW s \in Statement, NEW q \in Queries[s], Compile(s, q)
    PROVE  Contents!Make(s, q)
<1>1. /\ stmt[s] = Unmade /\ answer' = Result("none", 0) /\ UNCHANGED <<stored, memory, given>>
      /\ stmt' = [stmt EXCEPT ![s] = [query |-> q, text |-> TextOf(q), filter |-> Indexed(q),
                                      slots |-> [i \in 1 .. ParametersOf(q) |-> Null]]]
  BY DEF Compile
<1>2. stmt \in [Statement -> Compiled \cup {Unmade}] /\ given[s] = Nothing
  BY <1>1 DEF IInv, TypeInv, UnmadeInv
<1>3. stmt'[s] # Unmade
  BY CompileKeeps
<1>4. stmt'[s].query = q /\ \A t \in Statement : t # s => stmt'[t] = stmt[t]
  BY <1>1, <1>2
<1>5. Made' = [t \in Statement |-> IF stmt'[t] = Unmade THEN Unmade
                                   ELSE [query |-> stmt'[t].query, given |-> given'[t]]]
      /\ Made = [t \in Statement |-> IF stmt[t] = Unmade THEN Unmade
                                     ELSE [query |-> stmt[t].query, given |-> given[t]]]
  BY DEF Made
<1>6. Made'[s] = [query |-> q, given |-> Nothing] /\ Made[s] = Unmade
  BY <1>1, <1>2, <1>3, <1>4, <1>5
<1>7. \A t \in Statement : t # s => Made'[t] = Made[t]
  BY <1>1, <1>4, <1>5
<1>8. DOMAIN Made = Statement /\ Made' = [t \in Statement |-> Made'[t]]
      /\ Made = [t \in Statement |-> Made[t]]
  BY <1>5
<1>9. Made' = [Made EXCEPT ![s] = [query |-> q, given |-> Nothing]]
  BY <1>6, <1>7, <1>8
<1>10. Rows' = Rows
  BY <1>1, RowsSame
<1> QED
  BY <1>1, <1>6, <1>9, <1>10 DEF Contents!Make, Contents!Nothing, Nothing, Contents!Result, Result

LEMMA SetStep ==
    ASSUME NEW c, NEW v, Assign(c, v)
    PROVE  Contents!Set(c, v)
<1>1. Rows' = Rows /\ Made' = Made
  BY RowsSame DEF Assign, Made
<1> QED
  BY <1>1 DEF Assign, Contents!Set, Contents!Result, Result

LEMMA GiveStep ==
    ASSUME IInv, NEW s \in Statement, NEW b \in DOMAIN BindParameters, Bind(s, b)
    PROVE  Contents!Give(s, b)
<1> DEFINE now == [c \in Cell |-> IF \E p \in BindParameters[b] : c \in Cells[p]
                                  THEN memory[c] ELSE given[s][c]]
<1>1. /\ stmt[s] # Unmade /\ answer' = Result("none", 0) /\ UNCHANGED <<stored, memory>>
      /\ given' = [given EXCEPT ![s] = now]
      /\ DOMAIN given[s] = Cell
  BY DEF Bind, IInv, TypeInv
<1>2. SameQueries
  BY BindKeeps
<1> HIDE DEF now
<1>3. Made' = [Made EXCEPT ![s].given = now] /\ Rows' = Rows
  BY <1>1, <1>2, MadeGiven, RowsSame
<1>4. Made[s] # Unmade /\ Made[s].given = given[s]
  BY <1>1, MadeIs
<1>5. now = [c \in DOMAIN Made[s].given |->
                IF \E p \in BindParameters[b] : c \in Cells[p] THEN memory[c] ELSE Made[s].given[c]]
  BY <1>1, <1>4 DEF now
<1> QED
  BY <1>1, <1>3, <1>4, <1>5 DEF Contents!Give, Contents!Result, Result

LEMMA ForgetStep ==
    ASSUME IInv, NEW s \in Statement, clearBindings(s)
    PROVE  Contents!Forget(s)
<1>1. /\ stmt[s] # Unmade /\ answer' = Result("none", 0) /\ UNCHANGED <<stored, memory>>
      /\ given' = [given EXCEPT ![s] = Nothing]
  BY DEF clearBindings
<1>2. SameQueries
  BY clearBindingsKeeps
<1>3. Made' = [Made EXCEPT ![s].given = Nothing] /\ Rows' = Rows /\ Made[s] # Unmade
  BY <1>1, <1>2, MadeGiven, MadeIs, RowsSame
<1> QED
  BY <1>1, <1>3 DEF Contents!Forget, Contents!Nothing, Nothing, Contents!Result, Result

LEMMA FailsStep ==
    ASSUME IInv, NEW s \in Statement, NEW vals \in ValuesFor(s), NEW failing,
           BindFails(s, vals, failing) \/ StepFails(s, vals)
    PROVE  Contents!Fails(s)
<1>1. stmt[s] # Unmade /\ answer' = Result("failed", 0) /\ UNCHANGED <<stored, memory, given>>
  BY DEF BindFails, StepFails
<1>2. SameQueries
  BY BindFailsKeeps, StepFailsKeeps
<1>3. Made' = Made /\ Rows' = Rows /\ Made[s] # Unmade
  BY <1>1, <1>2, MadeSame, MadeIs, RowsSame
<1> QED
  BY <1>1, <1>3 DEF Contents!Fails, Contents!Result, Result


\* A table is read row by row.
Read(z) == [k \in DOMAIN z |-> Row(z[k])]

LEMMA ReadMapped ==
    ASSUME NEW z \in Seq(GoodRow)
    PROVE  Read(z) = [k \in DOMAIN z |-> [r \in GoodRow |-> Row(r)][z[k]]]
<1>1. \A k \in DOMAIN z : z[k] \in GoodRow
  OBVIOUS
<1> QED
  BY <1>1 DEF Read

LEMMA RowsAppended ==
    ASSUME NEW z \in Seq(GoodRow), NEW x \in GoodRow
    PROVE  Read(Append(z, x)) = Append(Read(z), Row(x))
<1> DEFINE g == [r \in GoodRow |-> Row(r)]
           Mapped(y) == [k \in DOMAIN y |-> g[y[k]]]
<1>1. Append(z, x) \in Seq(GoodRow) /\ g[x] = Row(x)
  OBVIOUS
<1>2. Read(z) = Mapped(z) /\ Read(Append(z, x)) = Mapped(Append(z, x))
  BY <1>1, ReadMapped
<1> HIDE DEF g
<1>3. Mapped(Append(z, x)) = Append(Mapped(z), g[x])
  OBVIOUS
<1> HIDE DEF Mapped
<1> QED
  BY <1>1, <1>2, <1>3

LEMMA RowsKept ==
    ASSUME NEW z \in Seq(GoodRow), NEW S
    PROVE  Read(Kept(z, S)) = Kept(Read(z), S)
<1> DEFINE g == [r \in GoodRow |-> Row(r)]
           Mapped(y) == [k \in DOMAIN y |-> g[y[k]]]
<1>1. Kept(z, S) \in Seq(GoodRow)
  BY KeptType
<1>2. Read(z) = Mapped(z) /\ Read(Kept(z, S)) = Mapped(Kept(z, S))
  BY <1>1, ReadMapped
<1> HIDE DEF g
<1>3. Mapped(Kept(z, S)) = Kept(Mapped(z), S)
  BY KeptMapped
<1> HIDE DEF Mapped
<1> QED
  BY <1>2, <1>3

LEMMA RunStep ==
    ASSUME Comparable, IInv, NEW s \in Statement, NEW vals \in ValuesFor(s), Run(s, vals)
    PROVE  \/ \E v \in Contents!Arguments(Made[s].query.columns) : Contents!Insert(s, v) \/ Contents!Update(s, v)
           \/ Contents!Delete(s) \/ Contents!Count(s)
<1> DEFINE q == stmt[s].query
           text == stmt[s].text
           slots == BindValues(s, vals, {})
           taken == RowsTaken(text, slots)
<1>1. /\ stmt[s] # Unmade /\ stored' = Step(text, slots) /\ UNCHANGED <<memory, given>>
      /\ q.kind = "insert" => Len(stored) < MaxRows
      /\ answer' = IF q.kind = "count" THEN Result("rows", column("int64", Cardinality(taken)))
                   ELSE Result("done", 0)
  BY DEF Run
<1>2. SameQueries
  BY RunKeeps
<1>3. Made' = Made /\ Made[s] # Unmade /\ Made[s].query = q /\ Made[s].given = given[s]
  BY <1>1, <1>2, MadeSame, MadeIs
<1>4. q \in AllQueries /\ text.kind = q.kind /\ text.columns = q.columns
  <2>1. q \in AllQueries /\ text = TextOf(q)
    BY <1>1 DEF IInv, StmtInv, AllQueries
  <2> HIDE DEF q, text
  <2> QED BY <2>1 DEF TextOf
<1>5. q.kind \in {"insert", "update", "delete", "count"} /\ q.columns \in Seq(DOMAIN Types)
  BY <1>4, QueryType
<1>6. q.kind # "insert" => taken = Contents!HitsOf(q, given[s])
  BY <1>1, SameRowsTaken
<1>7. q.kind \in {"insert", "update"} => vals \in Contents!Arguments(q.columns)
  BY <1>1 DEF ValuesFor, Contents!Arguments
<1>8. ASSUME q.kind \in {"insert", "update"}, NEW k \in DOMAIN q.columns
      PROVE  vals[k] \in Choice[q.columns[k]] /\ slots[k] = Bound(Types[q.columns[k]], vals[k])
  BY <1>1, <1>8, ArgumentsType, ValuesBound
<1>9. stored \in Seq(GoodRow) /\ Len(stored) \in Nat
  BY GoodRows DEF IInv
<1>10. column("int64", Cardinality(taken)) = Cardinality(taken)
  BY TakenCount
<1>11. Rows = [k \in DOMAIN stored |-> Row(stored[k])] /\ DOMAIN Rows = DOMAIN stored
       /\ Rows' = [k \in DOMAIN stored' |-> Row(stored'[k])] /\ Len(Rows) = Len(stored)
       /\ Rows = Read(stored) /\ Rows' = Read(stored')
  BY <1>9 DEF Rows, Row, Read
<1> HIDE DEF q, text, slots, taken
<1>12. CASE q.kind = "insert"
  <2> DEFINE new == [i \in DOMAIN Types |-> Null]
             x == SetColumns(new, q.columns, slots)
  <2>1. new \in GoodRow
    BY DEF GoodRow, ColumnValue, Bound
  <2>2. Row(new) = [i \in DOMAIN Choice |-> Null]
    BY ChoiceAssumption DEF Row
  <2>3. stored' = Append(stored, x)
    BY <1>1, <1>4, <1>12 DEF Step
  <2> HIDE DEF new
  <2>4. x \in GoodRow /\ Row(x) = Contents!Changed(Row(new), q.columns, vals)
    <3>1. \A k \in DOMAIN q.columns : /\ vals[k] \in Choice[q.columns[k]]
                                       /\ slots[k] = Bound(Types[q.columns[k]], vals[k])
      BY <1>8, <1>12
    <3>2. SetColumns(new, q.columns, slots) \in GoodRow
      BY <1>5, <2>1, <3>1, ColumnsSet
    <3>3. Row(SetColumns(new, q.columns, slots)) = Contents!Changed(Row(new), q.columns, vals)
      BY <1>5, <2>1, <3>1, RowChanged
    <3> QED BY <3>2, <3>3
  <2> HIDE DEF x
  <2>5. Rows' = Append(Rows, Row(x))
    BY <1>9, <1>11, <2>3, <2>4, RowsAppended
  <2>6. Contents!Insert(s, vals)
    BY <1>1, <1>3, <1>11, <1>12, <2>2, <2>4, <2>5 DEF Contents!Insert, Contents!Of, Contents!Result, Result
  <2> QED BY <1>3, <1>7, <1>12, <2>6
<1>13. CASE q.kind = "update"
  <2>1. stored' = [i \in DOMAIN stored |-> IF i \in taken THEN SetColumns(stored[i], q.columns, slots)
                                           ELSE stored[i]]
    BY <1>1, <1>4, <1>13 DEF Step, taken
  <2>2. \A i \in DOMAIN stored : stored[i] \in GoodRow
    BY <1>9
  <2>3. \A i \in DOMAIN stored : Row(SetColumns(stored[i], q.columns, slots))
                                 = Contents!Changed(Row(stored[i]), q.columns, vals)
    <3>1. \A k \in DOMAIN q.columns : /\ vals[k] \in Choice[q.columns[k]]
                                       /\ slots[k] = Bound(Types[q.columns[k]], vals[k])
      BY <1>8, <1>13
    <3>2. ASSUME NEW i \in DOMAIN stored
          PROVE  Row(SetColumns(stored[i], q.columns, slots))
                 = Contents!Changed(Row(stored[i]), q.columns, vals)
      <4> DEFINE r == stored[i]
      <4>1. r \in GoodRow
        BY <2>2
      <4> HIDE DEF r
      <4>2. Row(SetColumns(r, q.columns, slots)) = Contents!Changed(Row(r), q.columns, vals)
        BY <1>5, <3>1, <4>1, RowChanged
      <4> QED BY <4>2 DEF r
    <3> QED BY <3>2
  <2>4. /\ DOMAIN stored' = DOMAIN Rows
        /\ \A i \in DOMAIN Rows : Rows[i] = Row(stored[i])
        /\ \A i \in DOMAIN Rows : Row(stored'[i]) =
              IF i \in taken THEN Contents!Changed(Rows[i], q.columns, vals) ELSE Rows[i]
    BY <1>11, <2>1, <2>3
  <2>5. Rows' = [i \in DOMAIN Rows |-> IF i \in taken THEN Contents!Changed(Rows[i], q.columns, vals)
                                       ELSE Rows[i]]
    BY <1>11, <2>4
  <2>6. Contents!Update(s, vals)
    BY <1>1, <1>3, <1>6, <1>13, <2>5 DEF Contents!Update, Contents!Of, Contents!Result, Result
  <2> QED BY <1>3, <1>7, <1>13, <2>6
<1>14. CASE q.kind = "delete"
  <2>1. stored' = Kept(stored, DOMAIN stored \ taken)
    BY <1>1, <1>4, <1>14 DEF Step, taken
  <2>2. Rows' = Kept(Rows, DOMAIN Rows \ taken)
    BY <1>9, <1>11, <2>1, RowsKept
  <2>3. Contents!Delete(s)
    BY <1>1, <1>3, <1>6, <1>14, <2>2 DEF Contents!Delete, Contents!Of, Contents!Result, Result
  <2> QED BY <2>3
<1>15. CASE q.kind = "count"
  <2>1. stored' = stored
    BY <1>1, <1>4, <1>15 DEF Step
  <2>2. Rows' = Rows
    BY <2>1, RowsSame
  <2>3. Contents!Cardinality(taken) = Cardinality(taken)
    BY DEF Contents!Cardinality, Cardinality
  <2>4. answer' = Contents!Result("rows", Contents!Cardinality(Contents!HitsOf(q, given[s])))
    BY <1>1, <1>6, <1>10, <1>15, <2>3 DEF Contents!Result, Result
  <2>5. Contents!Count(s)
    BY <1>1, <1>3, <1>15, <2>2, <2>4 DEF Contents!Count, Contents!Of
  <2> QED BY <2>5
<1> QED
  BY <1>5, <1>12, <1>13, <1>14, <1>15

LEMMA InitStep == Init => Contents!ContentsInit
<1> SUFFICES ASSUME Init PROVE Contents!ContentsInit
  OBVIOUS
<1>1. Rows = <<>>
  BY DEF Init, Rows
<1>2. Made = [s \in Statement |-> Unmade]
  BY DEF Init, Made
<1>3. /\ memory \in [Cell -> UNION {CellChoice[c] : c \in Cell}]
      /\ \A c \in Cell : memory[c] \in CellChoice[c]
      /\ answer = Result("none", 0)
  BY DEF Init
<1> QED
  BY <1>1, <1>2, <1>3 DEF Contents!ContentsInit, Contents!Result, Result

LEMMA NextStep ==
    ASSUME Comparable, IInv, [Next]_vars
    PROVE  [Contents!ContentsNext]_(Contents!cvars)
<1>1. ASSUME NEW s \in Statement, NEW q \in Queries[s], Compile(s, q) PROVE Contents!ContentsNext
  BY <1>1, MakeStep DEF Contents!ContentsNext
<1>2. ASSUME NEW c \in Cells["dynamic"], NEW v \in CellChoice[c], Assign(c, v) PROVE Contents!ContentsNext
  BY <1>2, SetStep DEF Contents!ContentsNext
<1>3. ASSUME NEW s \in Statement, NEW b \in DOMAIN BindParameters, Bind(s, b) PROVE Contents!ContentsNext
  BY <1>3, GiveStep DEF Contents!ContentsNext
<1>4. ASSUME NEW s \in Statement, clearBindings(s) PROVE Contents!ContentsNext
  BY <1>4, ForgetStep DEF Contents!ContentsNext
<1>5. ASSUME NEW s \in Statement, NEW vals \in ValuesFor(s), Run(s, vals) PROVE Contents!ContentsNext
  <2>1. Made[s] # Unmade
    BY <1>5, MadeIs DEF Run
  <2> QED BY <1>5, <2>1, RunStep DEF Contents!ContentsNext
<1>6. ASSUME NEW s \in Statement, NEW vals \in ValuesFor(s), NEW failing,
             BindFails(s, vals, failing) \/ StepFails(s, vals)
      PROVE  Contents!ContentsNext
  BY <1>6, FailsStep DEF Contents!ContentsNext
<1>7. CASE UNCHANGED vars
  <2>1. Rows' = Rows /\ Made' = Made
    BY <1>7, RowsSame DEF vars, Made
  <2> QED BY <1>7, <2>1 DEF vars, Contents!cvars
<1>8. Next => Contents!ContentsNext
  BY <1>1, <1>2, <1>3, <1>4, <1>5, <1>6 DEF Next
<1> QED
  BY <1>7, <1>8

\* A program that does not depend on the order of unsigned integers in SQLite and
\* stores no empty Text gets what TableContents promises, for all tables, queries
\* and values: every call does to the rows what its query says with the values
\* that were bound last.
THEOREM Refinement ==
    ASSUME Comparable
    PROVE  Spec => Implements
<1>1. Init => Contents!ContentsInit
  BY InitStep
<1>2. IInv /\ [Next]_vars => [Contents!ContentsNext]_(Contents!cvars)
  BY NextStep
<1> QED
  BY <1>1, <1>2, Inductive, PTL DEF Spec, Implements, Contents!ContentsSpec
=============================================================================
