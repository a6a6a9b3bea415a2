# cppql in TLA+

cppql is a C++ library over SQLite: typed tables, queries and statements, and
RAII wrappers for connections and transactions. These modules model what it
does at run time: transactions, connections, the catalog of tables, statements,
queries down to the structure of their SQL text, and the values that go through
them. TLC checks them on small instances and TLAPS proves the safety properties
for instances of any size.

Paths below are relative to `src/modules/cppql/`.

## The system

| Component | State it keeps | Operations | What makes it correct |
|---|---|---|---|
| `Transaction` (`src/core/transaction.cpp`) | `database`, `committed`; in SQLite the autocommit flag, the pending changes, the file lock | constructor (BEGIN), `commit`, `rollback`, destructor | what `commit()` reported is in the file, what was rolled back is not, the scope ends the SQLite transaction |
| `Database` connection (`src/core/database.cpp`) | `db`, close and shutdown policy | `create`, `open`, `openOrCreate`, `createStatement`, `beginTransaction`, destructor | every connection has an object that closes it, the program is told the truth about the file |
| `Database` catalog | `tables`, a map of `Table`s with their `Column`s | `createTable`, `initializeTables`, `registerTable`, `dropTable`, `getTable` | the tables the program knows are in the file as their objects say; what it leaves in the file can be opened again |
| `Table`, `Column` (`src/core/table.cpp`, `column.cpp`) | `committed`, columns, foreign keys | `createColumn`, setters, `validate`, `generateSql`, `commit`, `readFromDb`, `resolveForeignKeys` | no change after `commit`; foreign keys refer to columns that exist |
| `Statement`, `Result` (`src/core/statement.cpp`) | `sqlite3_stmt*`, last result | `prepare`, `step`, `reset`, `bind*`, `clearBindings`, move, destructor | one owner finalizes; codes of several binds are combined |
| `SelectStatement` (`statements/select_statement.h`) | a `Statement`, the filter expression, iterators | `begin`, `++`, `*`, `bind`, `reset`, `clearBindings` | every row once and in order, ready again after the end |
| `SelectOneStatement` | a `SelectStatement` | `operator()`, `bind`, `clearBindings` | exactly one row or an exception |
| `InsertStatement`, `UpdateStatement`, `DeleteStatement`, `CountStatement` | a `Statement`, the filter expression | `operator()`, `bind`, `clearBindings` | a call does to the table what its query says with the values given last; a call that throws changes nothing |
| Queries, clauses, joins (`queries/`, `clauses/`, `typed/`) | clauses held by value | the builder, `toString`, `generateIndices`, `getFilters`, `compile` | SQLite returns the rows that the query means; a query mentions only its own tables |
| Expressions and aggregates (`expressions/`, `aggregates/`) | `index`, value or pointer | comparison and logical operators, `containsTables`, `generateIndices`, `toString`, `bind` | the SQL condition holds where the C++ expression does; `BindParameters` selects what it names |
| Value conversion (`core/binding.h`) | none | `bind`, `column` | what was bound comes back |

How they interact: a `Database` makes `Transaction`s, `Statement`s and `Table`s
and they keep a pointer to it. A query compiles to a typed statement, which
owns a `Statement` and copies of the filters. The statements of a connection
share its one SQLite transaction, which `Transaction` objects open and close:
this is shared state, not a reference. Connections, usually of different
processes, meet in the database file, through SQLite's locks.

What is hard here: SQLite may refuse a COMMIT or roll back on its own while a
`Transaction` object believes something else; a statement keeps a cursor, a
lock and its parameter values between the calls of a loop; every call may
throw half-way; processes interleave on the file and may die anywhere. The
list with lines is `hazards` in `PROJECT.json`.

## The modules

| Module | Models |
|---|---|
| `AtomicStore` | the promise to the users of one file: changes reach it by whole transactions, one connection at a time |
| `Transactions` | `Transaction` objects, write statements and select loops of several processes on one file |
| `Connections` | `Database` and `Statement` objects, the handles behind them, opening, closing, moving |
| `Catalog` | the tables of a `Database` against the schema in the file |
| `SelectStatement` | a `SelectStatement`, its `sqlite3_stmt` and its iterators |
| `SelectOneStatement` | `operator()` on top of `SelectStatement` |
| `ParameterBinding` | parameter indices, filters and slots of a compiled query, with failing binds |
| `SqlNull`, `Expressions` | columns, aggregates, filters and ORDER BY: what can be built, numbering, text, binding, and their meaning in SQL and in C++ |
| `Queries` | building, compiling and binding a `SelectQuery` or `Join`, and the rows that SQLite returns for its text |
| `Values` | a C++ value on its way into a parameter and out of a column |
| `TableContents` | the promise of the statements of a `TypedTable`: a sequence of rows of C++ values |
| `TypedTable` | insert, update, delete and count statements with their text, parameters and conversions |
| `TransactionsProofs`, `ConnectionsProofs`, `CatalogProofs`, `SelectStatementProofs`, `ParameterBindingProofs`, `ExpressionsProofs`, `QueriesProofs`, `TypedTableProofs` | theorems |
| `MCTransactions`, `MCConnections`, `MCCatalog`, `MCParameterBinding`, `MCQueries`, `MCTypedTable` | small instances |

`SelectOneStatement` extends `SelectStatement`; `Queries` and `TypedTable` extend
`Expressions`, and `TypedTable` also `Values`. `Transactions` implements
`AtomicStore` and `TypedTable` implements `TableContents`; both refinements are
properties of a run.

The library itself has no thread. A step is one call of the library, or the
part of one that ends in a `sqlite3_step`; steps of different processes
interleave. The schedule of a process is any sequence of calls that the types
and the assertions allow. In particular `commit()` and `rollback()` are only
called while `assert(!committed)` holds. SQLite is not under `src/`: its lock
states, automatic rollback, cursor and slots are modelled as the library
observes them and marked external in the map.

A definition whose name has a suffix (`CommitBusy_Unchecked`) is the one before
the underscore with a plausible fault. No action uses it; replacing the real
one by it must break the property that `mutants` in `PROJECT.json` names.

### Transactions

`conn[t]` and `committed[t]` are the two members of `Transaction` object `t`
(`conn[t] = NoConn`: there is no object). `sqlTx`, `pending`, `lock` and
`cursor` are what SQLite keeps per connection, `file` is the database file and
`up` says whether the process is there. Data is a set of abstract changes: a
write statement adds one that is not there yet; one that is there already
conflicts with a constraint.

| Action | Code |
|---|---|
| `Begin`, `BeginThrows` | constructor, `transaction.cpp:20-33` |
| `Commit` with `CommitSucceeds`, `CommitBusy`, `CommitViolatesKey`, `CommitRolledBack`, `CommitWithoutTx` | `commit`, lines 40-48, one disjunct per outcome of COMMIT |
| `Rollback` | `rollback`, lines 50-58 |
| `DestroyFinished`, `DestroyUnfinished`, `DestroyTerminates` | destructor, lines 35-38 |
| `WriteInTx`, `WriteThrough`, `WriteConflict`, `WriteRollsBack`, `WriteBusy` | `operator()` of the write statements |
| `SelectBegins`, `SelectBusy`, `SelectEnds` | `begin()`, a failed step, the step that returns `SQLITE_DONE` or `reset()` |
| `CloseDatabase`, `Crash`, `CrashInCommit`, `OpenDatabase` | `~Database`, loss of the process (in COMMIT: after it took effect), `open` |

`writes`, `promised`, `discarded`, `stuck`, `terminated` and `committer` are
history: they record what the program was told and no guard reads them.

`Nesting` says whether programs construct a second `Transaction` while the
first one on the connection is unfinished. The library means to forbid it
(BEGIN fails inside a transaction), does not when SQLite has rolled back, and
the accounts of two objects that share one SQLite transaction cannot both be
kept. `Durability`, `RolledBackStaysOut` and `StuckReachesNothing` are therefore
about programs with `Nesting = FALSE`: with nesting, `commit()` of a first object
takes into the file what the failed `commit()` of a second one has left open.
The other properties hold for both.

### Connections

`db[d]`, `close[d]`, `shutdown[d]` are the members of `Database` object `d`;
`built[s]`, `stmt[s]`, `stmtDb[s]` those of `Statement` object `s`. `conn` and
`on` are the `sqlite3` and `sqlite3_stmt` handles: a connection that
`sqlite3_close_v2` has left to its statements is a "zombie". `call` and
`existed` are the static method that is opening a file and what `exists` told
it; other processes may make and delete the file in between.

| Action | Code |
|---|---|
| `LookForFile`, `Open`, `OpenThrows` | `create`, `open`, `openOrCreate`, `database.cpp:56-99`, with the constructor |
| `SetClose`, `SetShutdown`, `DestroyDatabase` with `CloseHandle` | the policies and `~Database`, `database.cpp:26-50` |
| `Construct`, `Prepare`, `DestroyStatement` with `FinalizeStmt` | `Statement`, `statement.cpp:54-62`, `89-99` |
| `MoveStatement`, `MoveDatabase` | the defaulted moves, `statement.h:71-86`, `database.h:58-70` |

The moves copy the raw handle. What happens after a handle was released twice
is undefined, so the properties speak of programs until their first move
(`moved`). The library itself moves neither class. `lost` is history: the
connections that no destructor will close, because the constructor of their
`Database` threw, its policy was `Off`, or it was `V1` while a `Statement` was
still prepared. `NothingElseLost` says that every other open connection has an
object that will close it. A `Call` says whether its flags have
`SQLITE_OPEN_MEMORY`: `create` and `open` then do not look for the file, and
SQLite makes none. What `sqlite3_shutdown` does to connections that are open,
which SQLite leaves undefined, is left out. The model is that of a release build:
assertions that fail are not noticed.

### SelectStatement and SelectOneStatement

`phase`, `pos`, `run` are the cursor of the `sqlite3_stmt`, `bound` its one
parameter, `it[i]` an iterator (`code` is `SQLITE_ROW`: "row", otherwise
"end"; "none": not alive). A row is reduced to whether `operator*` can convert
its columns. `start` and `asked` are history: where `begin()` found the cursor,
and with which parameter value the execution runs that it starts or, after a
loop that was left early, goes on with. `TableChanges` stands for everybody else; that it does nothing
while the cursor stands on a row is `RepeatableRead` of `Transactions` for
other connections, and a restriction for the program's own writes.
`SelectOneStatement` runs `operator()` as one step: it has no other user of
its statement, and the read lock of its first half covers the second.

### ParameterBinding

A query is given by its column values, the comparisons of its JOIN, WHERE and
HAVING clauses and those of the queries in its unions; a logical expression is
the sequence of its comparisons, in the order in which it numbers and binds
them. `memory[k]` is the value of comparison `k` or what its pointer refers to.
`meant` and `given` record what the program may rely on: after a call that
threw, nothing about the values it was to bind.

### Expressions, Queries

`Expressions` builds every kind of filter as the overloaded operators do
(`EqualityComparisons`, `LessComparisons`, `Likes`, `ColumnComparisons`,
`Logical`, ...), with operands that are copied ("fixed"), pointed to
("dynamic") or `nullptr`. `generateIndices` and `bind` are those of the code.
`toString` gives the SQL as the sequence of its terms, connectives and
parenthesised groups. Two evaluators follow: `Sql` reads that text as SQLite
does, with its precedence, its three truth values and its parameters; `Holds`
reads the expression as the program wrote it.

In `Queries` a state is a query under construction. A query that is united with
others, which may have unions themselves, is kept as the sequence of its SELECTs
in the order in which they are written, each with its operator and its depth, so
that everything which the code does by recursion over a query (`toString`,
`generateIndices`, `getFilters`) is one function on that sequence. Numbers of
parameters are sums over what comes before (`ParametersUntil`,
`ParametersBefore`); `getFilters` keeps only the SELECTs that the comma operator
of `Union::getFilters` leaves. Each action is one call of
the builder (`JoinTable`, `On`, `Usings`, `Select`, `Where`, `GroupBy`,
`Having`, `OrderBy`, `LimitOffset`, `Unite`), enabled when the types and
`containsTables` let the call through; then `Compile`, `Assign` to a variable
that is pointed to, and `Bind`. `Result` is the meaning of joins, clauses and
compound SELECTs, and has two readers. `Rows` is what SQLite returns for the text,
`Answer` what the query means. Where SQL leaves something open (the order of
unordered rows, the row of a group that gives a plain column) both take the
same choice.

### Values, TypedTable, TableContents

`get` is `Binding::get`, `column` is `Statement::column<T>`. Integers are
mathematical ones in the range of their C++ type; `Half8`, `Half32`, `Half64`
scale the ranges. A text is a number, 0 the empty one.

`TypedTable` keeps the rows as SQLite stores them, and per statement its query,
text, filter and parameters. `Run` is `operator()`: it binds the column values,
steps and resets; `BindFails` and `StepFails` are the calls that throw.
`Prepares` is `sqlite3_prepare_v2`, which knows ORDER BY and LIMIT of updates
and deletes only when SQLite was built with that option. `TableContents` has
none of this: rows of C++ values, and calls that work on the rows where the
filter holds with the values given last. `Implements` says that the stored
rows, read back, are those rows.

### Catalog

`tables` is `Database::tables`: for each name the members of its `Table`,
columns included. `schema` is what the connection sees and `file` what is in
the file; they differ while `tx = "writing"`, that is while a SQLite
transaction has changed the schema. A foreign key is the pair of table and
column that `Column::foreignKeyConstraint` points to. `dropTable` destroys a
`Table` that other columns may point to; such a reference becomes `Freed`, and
since reading it is undefined, `CommitTable` writes any name in its place.

| Action | Code |
|---|---|
| `CreateColumn`, `PrimaryKey`, `ForeignKey`, `SetExtra` | `Table::createColumn` and the setters of `table.cpp` and `column.cpp` |
| `CommitTable` with `Validate`, `Generated` | `Table::commit`, `validate`, `generateSql`, `table.cpp:33-43`, `117-188` |
| `CreateTable`, `DropTable` | `database.cpp:143-150`, `173-185` |
| `RegisterTable`, `RegisterNothing`, `RegisterWithoutReferences`, `RegisterThrowsInRead`, `RegisterThrowsInResolve` | `registerTable`, `database.cpp:152-171`, one action per way in which `readFromDb` and `resolveForeignKeys` end |
| `OpenDatabase` | `open` and `initializeTables`, `database.cpp:196-226` |
| `BeginTx`, `CommitTx`, `RollbackTx`, `ProcessEnds` | `Transaction` and `~Database`, as far as the catalog sees them |
| `OthersCreate`, `OthersDrop` | other processes |

A call that throws before it has changed anything is a stuttering step and has
no action. `loaded`, `stale` and `careful` are history: which tables came from
the file and were not changed since, which changed there behind the object's
back, and whether the program has kept the order that foreign keys need.
`Known(n)` combines them into what a program may rely on.

## Runs

| Run | Instance | Shows |
|---|---|---|
| `transactions_safety` | 3 connections, 2 objects, 2 changes, no nesting | types, `OpenTxIsOwned`, `Durability`, `RolledBackStaysOut`, `RepeatableRead`, `StuckReachesNothing`, `ImplementsStore` |
| `transactions_liveness` | 2 connections, 2 objects, 1 change, nesting | `TransactionEnds` |
| `connections_lifetimes` | 2 objects and 2 handles of each kind | types, `OneOwner`, `NothingElseLost`, `CreatedAsTold` |
| `select_statements` | 1 iterator, 2 parameter values, up to 3 rows each; loops and single-row calls on the same statement | types, `IteratorOnItsRow`, `OnlyEarlyExitKeepsCursor`, `IterationComplete`, `LoopTerminates`, `ExactFromReady`, `ReadyUnlessUnread` |
| `binding_slots` | 1 value; selects with one comparison per clause and one union; writes with up to 2 columns and 2 comparisons | types, `ParametersAsBound`, `ColumnsAsGiven` |
| `query_answers` | 3 tables, two of one type, with NULLs; up to 3 clauses, joins included; one filter of each kind and nested ones | types, `AnswersAsMeant`, `OnlyItsTables` |
| `table_contents` | a `uint32` and an `int8` column; an insert statement beside one of update, delete or count; up to 2 rows | types, `Implements` |
| `catalog_tables` | 2 tables with one column, references between them, other processes | types, `KnownTablesMatch`, `FileStaysOpenable`, `NoDanglingReference` |
| `catalog_keys` | 1 table with two columns, all kinds of keys, other processes | `KnownTablesMatch` |

Three runs end in a violation on purpose, each a disagreement of the code with
its own documentation or tests (`findings`):

| Run | What happens |
|---|---|
| `transactions_scope_exit` | a `commit()` that threw, here for a deferred foreign key, leaves the SQLite transaction open beyond its object; one that threw `SQLITE_BUSY` does the same |
| `transactions_noexcept` | after an automatic rollback the destructor throws and the process terminates |
| `binding_unions` | with two unions the parameters of the first are never bound |

Further disagreements came up while modelling. The models contain the
behaviour; no run is kept for them:

- After an automatic rollback a second `Transaction` starts while the first
  object is unfinished, which the test of `beginTransaction` means to exclude
  (`transactions_liveness` covers this behaviour).
- A loop over a `SelectStatement` after a `break` continues in the middle,
  while the readme says that resetting is automatic (`IterationComplete` says
  that it then sees exactly the rows that were left).
- `Table::commit` inside a `Transaction` that is rolled back leaves
  `committed = true`, and no call can make the table usable under its name
  before the database is opened again.
- `resolveForeignKeys` (`table.cpp:245`) returns before `committed = true` when
  a table has no foreign keys: the setters of such a table work after `open`.
- `initializeTables` (`database.cpp:203`) takes a failed step for the end of
  the list: opened at the wrong moment, a database has no tables and no error.
- `registerTable` loses foreign keys in the same way (`table.cpp:230`).
- A table that is committed before the one it refers to leaves a file that
  `open` refuses, if the program ends there (`table.cpp:256`;
  `FileStaysOpenable` is about programs that keep the order).
- After a call of a `SelectOneStatement` whose columns could not be read, the
  next call goes on from that row and may return one although several match
  (`select_one_statement.h:88`; `ReadyUnlessUnread` excepts this case).
- `ColumnComparisonExpression::containsTables` and that of several ORDER BY
  terms combine with `||`: a foreign table of the same type passes the check of
  the builder and only `sqlite3_prepare_v2` refuses the query. An ON condition
  may likewise name a table that is joined later. (`OnlyItsTables` excepts
  comparisons of two columns and several terms.)
- A query in a union that has unions itself is written without parentheses, so
  that SQLite groups the chain from the left; `usings()` writes only the name
  of the column, which SQLite looks up in the leftmost table that has it.
  (`Faithful` in `Queries` is the condition under which text and query agree.)
- `column<T>` of a NULL, also of an aggregate over no rows, is 0 or the empty
  text unless the type is optional; `toText("")` binds NULL.
- Unsigned values of the upper half of their range are ordered below the lower
  half by `<`, `>` and ORDER BY (theorem `OrderOfUnsigned`).
- `toBlob` of a vector or array copies `size()` bytes, whatever the size of an
  element (`binding.h:122`, `137`).
- UPDATE and DELETE with ORDER BY or LIMIT compile only if SQLite was built
  with SQLITE_ENABLE_UPDATE_DELETE_LIMIT (`UpdateDeleteLimit` in `TypedTable`).

Why the bounds are enough: a lock conflict takes two connections, a third one
lets a bystander read while two others compete; two changes are needed to see
half a transaction, and two objects for one that starts while another one's
failed COMMIT is still open. None, one, two and three rows tell "exactly one"
from its neighbours and give the loop a first, an inner and a last row; two
parameter values tell a stale binding from a fresh one. In a slot, NULL and one
value tell "bound" from "not bound" and old from new, and two parameters and
two columns are enough for indices to collide. Two tables are what a reference
needs, with cycles and drops in either order; keys concern the columns of one
table, and two columns tell single keys from composite ones. Two Databases, two
statements and two handles of each are what it takes for one to be destroyed,
moved over or opened while the other is there. Three tables, two of them of one
type, are needed for a filter about a foreign table that has the right type and
for a join whose left side is a join; with three clauses every pair of clauses
meets beside a join or a filter, and each MC definition holds at least one
expression of every kind. The numbers of values in `MCTypedTable` are small but
reach above the half of the unsigned type and below zero of the signed one.
`MaxTables`, `MaxClauses` and `MaxRows` are the bounds of those modules; in
`Connections` the handles are the bound on opening and preparing. Symmetry is used
for connections, objects, handles, changes, tables and columns in
safety runs only; no specification distinguishes them. Deadlock is checked
everywhere except in `query_answers`, where a query that `sqlite3_prepare_v2`
refuses goes nowhere.

Fairness: `TransactionEnds` assumes weak fairness of `Destroy(t)`, because C++
destroys a `Transaction` at the end of its scope whatever path leaves it. No
other action is fair; in particular nothing assumes that a COMMIT ever
succeeds or a lock is ever released. `LoopTerminates` assumes weak fairness of
`++` on an iterator whose loop is not left.

## Proofs

The theorems hold for any sets of connections, objects, changes, tables, columns,
queries and handles, and any number of rows. Those of `TransactionsProofs` assume `NoConn \notin Conn` and hold for either value of
`Nesting`; `Durable`, `StaysOut` and `StuckIsolated` assume `Nesting = FALSE` besides.

| Theorem | States | Module |
|---|---|---|
| `TypeCorrect` | `[]TypeOK` | `TransactionsProofs` |
| `Ownership` | `[]OpenTxIsOwned` | `TransactionsProofs` |
| `Locking` | `[]LockInv` | `TransactionsProofs` |
| `ReadsRepeat` | `RepeatableRead` | `TransactionsProofs` |
| `Implementation` | `ImplementsStore` | `TransactionsProofs` |
| `Durable` | `[]Durability` | `TransactionsProofs` |
| `StaysOut` | `[]RolledBackStaysOut` | `TransactionsProofs` |
| `StuckIsolated` | `StuckReachesNothing` | `TransactionsProofs` |
| `TypeCorrect`, `SingleOwner`, `NothingElse`, `ToldTheTruth` | `TypeOK`, `OneOwner`, `NothingElseLost`, `CreatedAsTold` | `ConnectionsProofs` |
| `TypeCorrect`, `OnItsRow`, `EarlyExit`, `EveryRow`, `Exact`, `Ready` | `TypeOK`, `IteratorOnItsRow`, `OnlyEarlyExitKeepsCursor`, `IterationComplete`, `ExactFromReady`, `ReadyUnlessUnread` | `SelectStatementProofs` |
| `TypeCorrect`, `AsBound`, `AsGiven` | `TypeOK`, `ParametersAsBound`, `ColumnsAsGiven` | `ParameterBindingProofs` |
| `NumbersDistinct`, `BindsEachParameter`, `SqlIsHolds`, `FilterAsMeant`, `OnlyTheTablesAskedFor` | what `generateIndices`, `bind`, `toString` and `containsTables` do for a filter of any depth | `ExpressionsProofs` |
| `RoundTrip`, `EqualityKept`, `OrderKept`, `OrderOfUnsigned` | what `Values` keeps of an integer | `TypedTableProofs` |
| `TablesChecked`, `TypeCorrect`, `AnswersMeant` | `OnlyItsTables`, `TypeOK` of `Queries`, `AnswersAsMeant` | `QueriesProofs` |
| `TypeCorrect`, `Refinement` | `TypeOK` of `TypedTable`, `Implements` | `TypedTableProofs` |
| `CatalogTypes` | `[]TypeOK` of `Catalog` | `CatalogProofs` |
| `KnownIsTrue` | `[]KnownTablesMatch` | `CatalogProofs` |
| `FilesOpen` | `[]FileStaysOpenable` | `CatalogProofs` |
| `ReferencesResolve` | `[]NoDanglingReference` | `CatalogProofs` |

`OpenTxIsOwned` is inductive given the types. The other two are not: that a
reader sees no foreign change and that a commit is alone with its changes
follow from who holds which lock. `LockInv` says it: pending changes are behind
a RESERVED lock, only one connection holds one and only in a SQLite
transaction, a cursor keeps SHARED, a dead process nothing. `LockStepOf` reduces
its preservation to the connection that moves. Then `ChangerIsAlone` (whoever
changes the file has the only lock) gives `RepeatableRead`, and `StoreStep`
maps every step to one of `AtomicStore` or to a stutter: a write to `Write`, a
successful COMMIT, also one whose process dies, to `Commit`, any other end of a
transaction with changes to `Abort`.

`Durability` and `RolledBackStaysOut` speak of what the program was told, and a
COMMIT moves the changes of a connection while the program is told about those
of an object. Their inductive invariant is `TypeOK`, `LockInv`, `ObjectInv`
(only unfinished objects of living processes have changes to their credit),
`AccountInv` and the two properties themselves. `AccountInv` ties the credit of
the one unfinished object of a connection to the pending changes there, and
keeps pending changes apart from the file and from what was reported as
dropped, except on a connection that a failed `commit()` has left in its
transaction. `LockInv` gives `OnlyOneWrites`; with it `BystanderAccount` reduces
each step to the connection that moves, and `AccountAfterEnd`,
`AccountAfterFailure`, `AccountUntouched`, `AccountAfterBegin` and
`AccountAfterWrite` cover what can happen there.

`CatalogProofs` assumes the three assumptions of `Catalog`: "none" is a key,
`Freed` is no name of a table, the flags are Booleans. Types come first, with a
lemma per constructor of tables (`ReadPartType`, `GeneratedType`, which needs
`Validate`, `WithoutPointeeType`). `KnownTablesMatch` is inductive with them
and `DownInv`: without a process there is no map and the schema is the file's.
`MatchOthers` reduces it to the table that moves. `FileStaysOpenable` and
`NoDanglingReference` need each other and the schema that the connection sees:
`RefInv` says of all three that every reference resolves. The step that matters
is `CommitTableRefs`: a reference that resolves in the map and names a known
table resolves in the schema, because `KnownTablesMatch` holds.

`StuckIsolated` follows from the same invariant: on a connection that a failed
`commit()` has left in its transaction no unfinished object exists, and only
`commit()` of one, or a write in autocommit mode, takes changes to the file.

`ConnectionsProofs` starts from `TypeInv`, the types with `DatabaseThere`: a
`Statement` that points to a `Database` points to one that is there. `FileKnown` (what `exists` returned is still so unless `raced`) is
inductive with it and gives `CreatedAsTold`. The other properties are about programs that have moved
nothing, and need each other: `Owns` says that a statement owns its handle
(`StmtOwns`), that every handle has an owner and a connection (`HandleOwned`),
that Databases own open connections (`DbOwns`), and that every connection that
is not `lost` has a closer (`CloserInv`). There is one lemma per action.

`OnItsRow` and `EveryRow` assume that the statement has at most one iterator
(`OneIterator`): two iterators take rows from each other's cursor. `LoopInv`
joins the cursor (`CursorInv`), the loop that is on it (`InLoop`) and the rows
it has seen (`Counted`, which says that they are those from where `begin()`
found the cursor, in order).
`EarlyExit` needs none of this and holds for any number of iterators.
`ExactFromReady` and `ReadyUnlessUnread` are inductive together (`CallInv`),
given the types.

`ParameterBindingProofs` assumes that a query has at most one other in its
union (`OneUnionEach`): with two, `binding_unions` shows that the filters of the
first are lost. `EveryComparisonKept` says that then the statement keeps all of
them; `IndexGrows` and `IndexOwn` that indices are distinct, which makes
`BoundByOwn` (a slot is written by its own comparison) and the two properties
inductive. They rest on the library's facts about cardinalities.

Filters are trees of any depth up to `MaxDepth`, so `ExpressionsProofs` first
needs induction (`ExprInduction`) and one equation per recursive definition
(`ComparisonsInEquation`, `BindingsEquation`, ...). The prover cannot apply the
library's theorems on recursion, whose parameters are operators. `Body` therefore
lists the right-hand sides of all the recursive functions, each under a name, and
`Recursive` proves once, by induction over a measure, that a function
whose value depends on smaller elements only (`Local`) satisfies its equation.
`NumbersDistinct` and `BindsEachParameter` are inductions over the filter.
`SqlIsHolds` is the one about precedence: the evaluator of the text looks for
the operators of a sequence, and `SqlOfTwo` shows what it finds between
parentheses. With the parameters bound it becomes `FilterAsMeant`.

`QueriesProofs` assumes what the constants of `Queries` say of themselves:
columns have names, copied values are not variables of the program, and the
builder is called with expressions and queries of the library about columns that
there are (`ArgumentsAssumption`; which tables they are about is what the
builder checks). `Built` is inductive: every clause has passed its check, for the
tables of the query as they were then and therefore for those of today, to which
joins only add. `OnlyItsTables` follows with `OnlyTheTablesAskedFor`.

`AnswersAsMeant` is not inductive: it says nothing of the parameters. Its
inductive invariant is `IInv`, that is `Built` with `Compiled`: once the query is
compiled, the statement has the text and the filters of the numbered query, and
each comparison in those filters has in its parameter what `bound` says of its
operand. `Bind` preserves it because no two comparisons of the filters share a
number, within a filter (`NumbersDistinct`), within a SELECT and across SELECTs
(`OneComparison`, with sums that grow), so that `BindAll` gives a parameter the
value of its own operand (`BindAllGives`). If the query is `Faithful`, every
condition with a parameter is among the filters; then `ConditionMeant` says, by
`FilterAsMeant`, that the text of a condition and the condition are true on the
same groups, and `LeftmostIsLast` that `USING` takes the column it was given.
Two SELECTs with the same clauses (`SameClauses`) and the same reading of their
conditions (`SameMeaning`) have the same rows: `SameFrom`, by induction over the
joins, `SameRows` and `ResultMeant`. The theorem says nothing about a query that
is not `Faithful`. There the text does mean something else (`binding_unions` is one
case).

`TypedTableProofs` assumes the named assumptions of `Values`, `Expressions` and
`TypedTable`: a wider type has at least twice as many values, the queries are about columns that
there are, and copied values are not variables of the program. `IInv` is
inductive: `TypeInv`; `StoredInv`, every stored value is one that the program
gave to its column; `UnmadeInv`, nothing was bound before `compile()`;
`StmtInv`, the filter and text are those of the query, and every parameter of
the filter holds what was bound for its operand last; `AnswerInv`. The
refinement needs `StmtInv` (the parameters are those that `TableContents` calls
`given`, so `FilterAsMeant` applies) and `Comparable`: the program does not
compare unsigned numbers of 32 and 64 bits by order, and no empty text, which
is stored as NULL. Without it the statement is false (`OrderOfUnsigned`). Under
it `Sql` on stored values and `Holds` on C++ values pick the same rows in the
same order, and every call maps to one of `TableContents`.

Model-checked only: `TransactionEnds` and `LoopTerminates`, because liveness
under fairness is out of the prover's reach. Every invariant and action property
of the runs that pass is a theorem, with the restrictions named above. The
abstract parts of the theorems are taken as the models define them: that SQLite
reads text, joins and compound SELECTs as `Sql` and `Result` say is modelled from
SQLite's documented behaviour and neither checked nor proved here.

## Not modelled

The spelling of SQL and of error messages; floating-point values, which pass
unchanged; blobs; `Result::operator|`, which selects the codes of an exception;
`TypedTable::validate`, which compares column types when a table is opened;
type computations such as `getRowT`. INNER JOIN whose ON names a table that is
joined later: SQLite takes it into WHERE, the model refuses it. WAL mode and
busy handlers: the library sets neither. Threads inside a process: the library
has no synchronisation and does not claim to support them. Two live iterators
of one statement: nothing holds of them.

What remains to be done:

1. The composition of `Catalog` with `Transactions`: whether the transaction
   that a statement of the catalog runs in ends as the program was told.
2. SQLite's schema cache in `Catalog`: `readFromDb` takes columns from the
   cached schema and foreign keys from the file.
3. Blobs in `Values`, with the lifetimes of static texts and blobs.
