----------------------------- MODULE TypedTable -----------------------------
(***************************************************************************)
(* InsertStatement, UpdateStatement, DeleteStatement and CountStatement of *)
(* a TypedTable: their queries are compiled to text and numbered           *)
(* parameters, their calls bind, step and reset.  The table holds what     *)
(* SQLite stores.                                                          *)
(*                                                                         *)
(* Implements: the table read back through TypedTable's column types is    *)
(* that of TableContents.  Failing binds of a filter are in                *)
(* ParameterBinding, transactions in Transactions.                         *)
(*                                                                         *)
(* A definition Name_Fault is Name with one fault put in.                  *)
(***************************************************************************)
EXTENDS Expressions, Values

CONSTANTS Statement,     \* names of Statement objects
          Queries,       \* per statement, the queries that are compiled for it
          TheTable,      \* the Table object of the TypedTable
          Types,         \* the types of its columns
          Choice,        \* per column, the values that the program gives to it
          Cells,         \* per kind of operand of a filter, the cells
          CellType,      \* the type of the value in a cell
          CellChoice,    \* and the values that the program gives to it
          UpdateDeleteLimit, \* whether SQLite was built with that option
          Unmade,        \* no statement
          MaxRows        \* bound on the rows of the table

Limit == [limit : Int, offset : Nat]

Query == [table : Table, kind : {"insert", "update", "delete", "count"}, columns : Seq(DOMAIN Types),
          where : Seq(Expr), order : Seq(OrderTerm), limit : Seq(Limit)]

AllQueries == UNION {Queries[s] : s \in Statement}

ASSUME TypesAssumption ==
    /\ Types \in Seq(Integer \cup TextTypes)
    /\ CellType \in [Cell -> Integer \cup TextTypes]

ASSUME ChoiceAssumption ==
    /\ DOMAIN Choice = DOMAIN Types
    /\ \A i \in DOMAIN Types : Choice[i] \subseteq ValuesOf(Types[i]) \cup {Null}
    /\ \A c \in Cell : CellChoice[c] \subseteq ValuesOf(CellType[c])

\* A copied value is not a variable of the program.
ASSUME CellsAssumption ==
    /\ DOMAIN Cells = {"fixed", "dynamic"}
    /\ Cells["fixed"] \cap Cells["dynamic"] = {} /\ Cells["fixed"] \cup Cells["dynamic"] = Cell

\* The statements are about columns that there are, and operands in their cells;
\* an INSERT has no filter.
ASSUME QueriesAssumption ==
    \A q \in AllQueries :
        /\ q \in Query
        /\ q.kind = "insert" => q.where = <<>>
        /\ \A k \in DOMAIN q.where : \A x \in ComparisonsIn(q.where[k]) :
              /\ HasParameter(x) => x.cell \in Cells[x.param]
              /\ \A c \in ColumnsIn(x) : c.table = TheTable => c.index \in DOMAIN Types
        /\ \A k \in DOMAIN q.order :
              q.order[k].col.table = TheTable => q.order[k].col.index \in DOMAIN Types

ASSUME MaxRowsAssumption == MaxRows \in Nat /\ MaxRows < Half64

VARIABLES
    stored,  \* rows of what SQLite stores
    memory,  \* content of each cell
    stmt,    \* the compiled statements
    given,   \* history: per statement and cell, the value bound last
    answer   \* what the last call returned

vars == <<stored, memory, stmt, given, answer>>

Result(call, n) == [call |-> call, rows |-> n]

Nothing == [c \in Cell |-> Null]

Init ==
    /\ stored = <<>>
    /\ memory \in {m \in [Cell -> UNION {CellChoice[c] : c \in Cell}] :
                     \A c \in Cell : m[c] \in CellChoice[c]}
    /\ stmt = [s \in Statement |-> Unmade]
    /\ given = [s \in Statement |-> Nothing]
    /\ answer = Result("none", 0)

-----------------------------------------------------------------------------
(* Queries.                                                                *)

\* where(), orderBy(), insert() and update() throw for another Table.
Valid(q) ==
    /\ q.table = TheTable
    /\ q.where # <<>> => containsTables(q.where[1], {TheTable})
    /\ q.order # <<>> => OrderContainsTables(q.order, {TheTable})

\* generateIndices: the values of an update come before its filter.
FirstIndex_Zero(q) == 0
FirstIndex(q) == IF q.kind = "update" THEN Len(q.columns) ELSE 0

Indexed(q) == [k \in DOMAIN q.where |-> generateIndices(q.where[k], FirstIndex(q))]

ParametersOf(q) ==
    (IF q.kind \in {"insert", "update"} THEN Len(q.columns) ELSE 0)
    + (IF q.where = <<>> THEN 0 ELSE Parameters(q.where[1]))

\* INSERT INTO and UPDATE SET name the columns and ?1, ?2, ... for them.
TextOf(q) ==
    [kind |-> q.kind, columns |-> q.columns, order |-> q.order, limit |-> q.limit,
     where |-> IF q.where = <<>> THEN <<>> ELSE toString(Indexed(q)[1])]

\* The result expressions in the text of a query.
Mentioned(q) ==
    {q.order[k].col : k \in DOMAIN q.order} \cup UNION {ColumnsOf(q.where[k]) : k \in DOMAIN q.where}

\* sqlite3_prepare_v2 knows ORDER BY and LIMIT after UPDATE and DELETE only if
\* it was built for it, and refuses aggregates and columns of other tables.
Prepares(q) ==
    /\ q.kind \in {"update", "delete"} /\ (q.order # <<>> \/ q.limit # <<>>) => UpdateDeleteLimit
    /\ \A c \in Mentioned(q) : c.table = TheTable /\ c.func = "none"

\* What a Statement object holds; the query is kept for Implements.
Compiled == [query : AllQueries, text : {TextOf(q) : q \in AllQueries},
             filter : {Indexed(q) : q \in AllQueries}, slots : Seq(Int \cup {Null})]

ASSUME UnmadeAssumption ==
    /\ Unmade \notin Compiled
    /\ Unmade \notin [query : AllQueries, given : [Cell -> Int \cup {Null}]]

\* compile().
Compile(s, q) ==
    /\ stmt[s] = Unmade
    /\ Valid(q) /\ Prepares(q)
    /\ stmt' = [stmt EXCEPT ![s] = [query |-> q, text |-> TextOf(q), filter |-> Indexed(q),
                                    slots |-> [i \in 1 .. ParametersOf(q) |-> Null]]]
    /\ answer' = Result("none", 0)
    /\ UNCHANGED <<stored, memory, given>>

-----------------------------------------------------------------------------
(* Bindings.                                                               *)

\* The program assigns to the variable behind a pointer.
Assign(c, v) ==
    /\ memory' = [memory EXCEPT ![c] = v]
    /\ answer' = Result("none", 0)
    /\ UNCHANGED <<stored, stmt, given>>

\* bind(BindParameters) of update, delete and count.
Bind(s, b) ==
    /\ stmt[s] # Unmade /\ stmt[s].query.kind # "insert"
    /\ LET value == [c \in Cell |-> Bound(CellType[c], memory[c])]
       IN  stmt' = [stmt EXCEPT ![s].slots =
                      IF stmt[s].filter = <<>> THEN @ ELSE bind(stmt[s].filter[1], b, @, value)]
    /\ given' = [given EXCEPT ![s] =
          [c \in Cell |-> IF \E p \in BindParameters[b] : c \in Cells[p]
                              THEN memory[c] ELSE @[c]]]
    /\ answer' = Result("none", 0)
    /\ UNCHANGED <<stored, memory>>

clearBindings(s) ==
    /\ stmt[s] # Unmade
    /\ stmt' = [stmt EXCEPT ![s].slots = [i \in DOMAIN @ |-> Null]]
    /\ given' = [given EXCEPT ![s] = Nothing]
    /\ answer' = Result("none", 0)
    /\ UNCHANGED <<stored, memory>>

\* The values of operator(), from the first parameter on.  The ones in failing
\* are not bound, the others are.
BindValues(s, vals, failing) ==
    [i \in DOMAIN stmt[s].slots |->
        IF i \in DOMAIN vals /\ i \notin failing
        THEN Bound(Types[stmt[s].query.columns[i]], vals[i])
        ELSE stmt[s].slots[i]]

-----------------------------------------------------------------------------
(* What SQLite does with the text of a statement in one step.              *)

RowsTaken(text, slots) ==
    LET hits == {i \in DOMAIN stored :
                    text.where = <<>> \/ Sql(text.where, <<[t \in {TheTable} |-> stored[i]]>>, slots) = 2}
        key  == [i \in DOMAIN stored |->
                    [k \in DOMAIN text.order |-> stored[i][text.order[k].col.index]]]
    IN  Taken(hits, key, text.order, text.limit)

SetColumns(row, columns, slots) ==
    [i \in DOMAIN row |-> IF PlaceOf(columns, i) # 0 THEN slots[PlaceOf(columns, i)] ELSE row[i]]

Step(text, slots) ==
    LET taken == RowsTaken(text, slots)
    IN  CASE text.kind = "insert" ->
               Append(stored, SetColumns([i \in DOMAIN Types |-> Null], text.columns, slots))
          [] text.kind = "update" ->
               [i \in DOMAIN stored |-> IF i \in taken THEN SetColumns(stored[i], text.columns, slots)
                                        ELSE stored[i]]
          [] text.kind = "delete" -> Kept(stored, DOMAIN stored \ taken)
          [] text.kind = "count"  -> stored

-----------------------------------------------------------------------------
(* Running a statement: operator().                                        *)

ValuesFor(s) ==
    IF stmt[s] = Unmade \/ stmt[s].query.kind \notin {"insert", "update"} THEN {<<>>}
    ELSE LET cs == stmt[s].query.columns
         IN  {v \in [DOMAIN cs -> UNION {Choice[i] : i \in DOMAIN Choice}] :
                 \A k \in DOMAIN cs : v[k] \in Choice[cs[k]]}

\* All values are bound, the step succeeds and the statement is reset.
Run(s, vals) ==
    /\ stmt[s] # Unmade
    /\ stmt[s].query.kind = "insert" => Len(stored) < MaxRows
    /\ LET slots == BindValues(s, vals, {}) IN
         /\ stmt' = [stmt EXCEPT ![s].slots = slots]
         /\ stored' = Step(stmt[s].text, slots)
         /\ answer' = IF stmt[s].query.kind = "count"
                      THEN Result("rows", column("int64", Cardinality(RowsTaken(stmt[s].text, slots))))
                      ELSE Result("done", 0)
    /\ UNCHANGED <<memory, given>>

\* A bind fails: the remaining values are bound and the call throws.
BindFails(s, vals, failing) ==
    /\ stmt[s] # Unmade /\ failing \subseteq DOMAIN vals /\ failing # {}
    /\ stmt' = [stmt EXCEPT ![s].slots = BindValues(s, vals, failing)]
    /\ answer' = Result("failed", 0)
    /\ UNCHANGED <<stored, memory, given>>

\* The step fails: the statement is reset and the call throws.
StepFails(s, vals) ==
    /\ stmt[s] # Unmade
    /\ stmt' = [stmt EXCEPT ![s].slots = BindValues(s, vals, {})]
    /\ answer' = Result("failed", 0)
    /\ UNCHANGED <<stored, memory, given>>

Next ==
    \/ \E s \in Statement : stmt[s] = Unmade /\ \E q \in Queries[s] : Compile(s, q)
    \/ \E c \in Cells["dynamic"] : \E v \in CellChoice[c] : Assign(c, v)
    \/ \E s \in Statement, b \in DOMAIN BindParameters : Bind(s, b)
    \/ \E s \in Statement : clearBindings(s)
    \/ \E s \in Statement : \E vals \in ValuesFor(s) : Run(s, vals)
    \/ \E s \in Statement : \E vals \in ValuesFor(s) :
          \E failing \in SUBSET DOMAIN vals : BindFails(s, vals, failing)
    \/ \E s \in Statement : \E vals \in ValuesFor(s) : StepFails(s, vals)

Spec == Init /\ [][Next]_vars

-----------------------------------------------------------------------------
(* Properties.                                                             *)

\* Every stored value fits the type that its column is read with, and every
\* parameter holds a value of a column or operand.
TypeOK ==
    /\ stored \in Seq([DOMAIN Types -> Int \cup {Null}]) /\ Len(stored) <= MaxRows
    /\ \A k \in DOMAIN stored, i \in DOMAIN Types : stored[k][i] \in StoredOf(Types[i]) \cup {Null}
    /\ \A s \in Statement : stmt[s] # Unmade =>
          /\ Len(stmt[s].slots) = ParametersOf(stmt[s].query)
          /\ \A k \in DOMAIN stmt[s].slots : LET v == stmt[s].slots[k] IN
                \/ v = Null
                \/ \E i \in DOMAIN Types : v \in StoredOf(Types[i])
                \/ \E c \in Cell : v \in StoredOf(CellType[c])
    /\ answer \in {Result(call, 0) : call \in {"none", "done", "failed"}}
                 \cup {Result("rows", n) : n \in 0 .. MaxRows}

\* What a row holds, read with columnType and column<T>.
Row(r) == [i \in DOMAIN r |-> IF r[i] = Null THEN Null ELSE column(Types[i], r[i])]

Rows == [k \in DOMAIN stored |-> Row(stored[k])]

Made == [s \in Statement |-> IF stmt[s] = Unmade THEN Unmade
                             ELSE [query |-> stmt[s].query, given |-> given[s]]]

Contents == INSTANCE TableContents WITH rows <- Rows, made <- Made

\* Values of types T and U compare in SQLite as they do in C++: all operators
\* unless one type is stored as a signed integer of its width, and = and != of
\* one type.
Straight(T) == T \notin {"uint32", "uint64"}
Alike(T, op, U) == (Straight(T) /\ Straight(U)) \/ (T = U /\ op \in {"=", "!="})

\* The program does not depend on the order of unsigned integers in SQLite, and
\* has no empty text that is stored as NULL.
Comparable ==
    /\ \A i \in DOMAIN Types : Types[i] = "Text" => 0 \notin Choice[i]
    /\ \A c \in Cell : CellType[c] = "Text" => 0 \notin CellChoice[c]
    /\ \A q \in AllQueries : Valid(q) /\ Prepares(q) =>
          /\ \A k \in DOMAIN q.order : Straight(Types[q.order[k].col.index])
          /\ \A k \in DOMAIN q.where : \A x \in ComparisonsIn(q.where[k]) :
                /\ x.kind = "columns" => Alike(Types[x.left.index], x.op, Types[x.right.index])
                /\ HasParameter(x) => Alike(Types[x.col.index], x.op, CellType[x.cell])

\* Every call does to the C++ rows what its query says with the values bound
\* last, and a call that fails does nothing: the numbers of the parameters, the
\* order of values and filter, what earlier calls have left in the parameters
\* and the conversions in both directions make no difference.
Implements == Contents!ContentsSpec
=============================================================================
