------------------------------- MODULE Catalog -------------------------------
(***************************************************************************)
(* The tables of a sql::Database, their columns and foreign keys, against  *)
(* the schema in the file.                                                 *)
(*                                                                         *)
(* One process has the file open through cppql.  It creates, registers and *)
(* drops tables, inside Transactions or outside; other processes change    *)
(* the schema with any tool.  A call that throws before it has changed     *)
(* anything is a stuttering step and has no action.                        *)
(*                                                                         *)
(* Types, conflict clauses and the text of expressions are abstracted; a   *)
(* column has a key and at most one reference, and extra says whether a    *)
(* table has a property that readFromDb does not read back: UNIQUE, CHECK, *)
(* DEFAULT, COLLATE, STRICT, WITHOUT ROWID or an action of a foreign key.  *)
(***************************************************************************)
EXTENDS Naturals, FiniteSets

CONSTANTS Name,     \* names of tables
          Col,      \* names of columns
          Key,      \* primary key settings in use: "none", "plain", "auto"
          Freed,    \* the table of a column that no longer exists
          Extra,    \* do tables have properties that are not read back?
          Foreign   \* do other processes change the schema?

ASSUME KeyAssumption     == "none" \in Key /\ Key \subseteq {"none", "plain", "auto"}
ASSUME FreedAssumption   == Freed \notin Name
ASSUME FlagAssumption    == {Extra, Foreign} \subseteq BOOLEAN

VARIABLES
    up,      \* is there a Database object?
    tables,  \* Database::tables, a function of the names in the map
    tx,      \* SQLite transaction: "none", "open", or "writing" the schema
    file,    \* the schema in the file
    schema,  \* the schema that the connection sees
    \* History, read by the properties only.
    loaded,  \* tables that were read from the file and not changed since
    stale,   \* tables that changed in the file behind the object's back
    careful  \* has the program committed only tables whose references it
             \* knew to be in the file, and dropped none that is referred to,
             \* and the other processes likewise?

vars == <<up, tables, tx, file, schema, loaded, stale, careful>>

-----------------------------------------------------------------------------
(* Tables and columns.  A reference is a set of at most one pair of a table *)
(* and a column: the Column that foreignKeyConstraint points to.            *)

Partial(S, T)      == UNION {[D -> T] : D \in SUBSET S}
IsPartial(f, S, T) == DOMAIN f \subseteq S /\ f \in [DOMAIN f -> T]

With(f, x, v)  == [y \in DOMAIN f \cup {x} |-> IF y = x THEN v ELSE f[y]]
Without(f, x)  == [y \in DOMAIN f \ {x} |-> f[y]]

References(N)  == {{}} \cup {{r} : r \in N \X Col}
Columns(N)     == Partial(Col, [key : Key, ref : References(N)])

\* A table of the schema and a sql::Table.
FileTable == [cols : Columns(Name), extra : BOOLEAN]
Table     == [committed : BOOLEAN, cols : Columns(Name \cup {Freed}), extra : BOOLEAN]

NewTable  == [committed |-> FALSE, cols |-> [c \in {} |-> {}], extra |-> FALSE]

RefsOf(cols) == UNION {cols[c].ref : c \in DOMAIN cols}

\* Is the reference r of table n one that resolveForeignKeys accepts, with
\* the tables of map?
Resolves(r, n, map) ==
    /\ r[1] # n
    /\ r[1] \in DOMAIN map
    /\ r[2] \in DOMAIN map[r[1]].cols

ResolvesAll(n, cols, map) == \A r \in RefsOf(cols) : Resolves(r, n, map)

Init ==
    /\ up = TRUE
    /\ tables = [n \in {} |-> NewTable]
    /\ tx = "none"
    /\ file = [n \in {} |-> NewTable]
    /\ schema = file
    /\ loaded = {}
    /\ stale = {}
    /\ careful = TRUE

\* The connection runs a statement that changes the schema.
WriteSchema(new) ==
    /\ schema' = new
    /\ tx' = IF tx = "none" THEN tx ELSE "writing"
    /\ file' = IF tx = "none" THEN new ELSE file

\* The program knows that table n is in the file as the object says.
Known(n) == /\ n \in DOMAIN tables \ stale
            /\ tables[n].committed \/ n \in loaded

-----------------------------------------------------------------------------
(* Setters of Table and Column: all of them begin with requireNotCommitted. *)

RequireNotCommitted_Forgotten(n) == up /\ n \in DOMAIN tables

RequireNotCommitted(n) == up /\ n \in DOMAIN tables /\ ~tables[n].committed

Change(n, cols, extra) ==
    /\ tables' = With(tables, n, [committed |-> tables[n].committed, cols |-> cols,
                                  extra |-> extra])
    /\ loaded' = loaded \ {n}
    /\ UNCHANGED <<up, tx, file, schema, stale, careful>>

ChangeColumn(n, c, key, ref) ==
    Change(n, With(tables[n].cols, c, [key |-> key, ref |-> ref]), tables[n].extra)

CreateColumn(n, c) ==
    /\ RequireNotCommitted(n)
    /\ c \notin DOMAIN tables[n].cols
    /\ ChangeColumn(n, c, "none", {})

PrimaryKey(n, c, key) ==
    /\ RequireNotCommitted(n)
    /\ c \in DOMAIN tables[n].cols
    /\ ChangeColumn(n, c, key, tables[n].cols[c].ref)

SetExtra(n) ==
    /\ Extra
    /\ RequireNotCommitted(n)
    /\ Change(n, tables[n].cols, TRUE)

\* Column::foreignKey to column d of table m.
ForeignKey(n, c, m, d) ==
    /\ RequireNotCommitted(n)
    /\ c \in DOMAIN tables[n].cols
    /\ m \in DOMAIN tables \ {n}
    /\ d \in DOMAIN tables[m].cols
    /\ ChangeColumn(n, c, tables[n].cols[c].key, {<<m, d>>})

-----------------------------------------------------------------------------
(* Table::commit.                                                          *)

KeyColumns(cols)  == {c \in DOMAIN cols : cols[c].key # "none"}

Validate_Never(cols) == TRUE

Validate(cols) ==
    Cardinality(KeyColumns(cols)) > 1 => \A c \in DOMAIN cols : cols[c].key # "auto"

\* The text is written through pointers to columns that were freed.
Generated_Stale(t, anything) == [cols |-> t.cols, extra |-> t.extra]

\* The table that the text of generateSql describes.  AUTOINCREMENT goes with
\* a single key only; names of a column that was freed read as anything.
Generated(t, anything) ==
    [cols |-> [c \in DOMAIN t.cols |->
        [key |-> IF Cardinality(KeyColumns(t.cols)) > 1 /\ t.cols[c].key = "auto"
                 THEN "plain" ELSE t.cols[c].key,
         ref |-> {IF r[1] = Freed THEN anything ELSE r : r \in t.cols[c].ref}]],
     extra |-> t.extra]

CommittedTable(t) == [committed |-> TRUE, cols |-> t.cols, extra |-> t.extra]

\* Nobody checks what the step returned.
CommitTable_Unchecked(n) ==
    /\ RequireNotCommitted(n)
    /\ Validate(tables[n].cols)
    /\ \/ UNCHANGED <<tx, file, schema>>
       \/ /\ DOMAIN tables[n].cols # {}
          /\ n \notin DOMAIN schema
          /\ \E anything \in Name \X Col :
                 WriteSchema(With(schema, n, Generated(tables[n], anything)))
    /\ tables' = With(tables, n, CommittedTable(tables[n]))
    /\ stale' = stale \ {n}
    /\ careful' = (careful /\ \A r \in RefsOf(tables[n].cols) : Known(r[1]))
    /\ UNCHANGED <<up, loaded>>

\* CREATE TABLE fails for a table without columns and for one that exists.
CommitTable(n) ==
    /\ RequireNotCommitted(n)
    /\ Validate(tables[n].cols)
    /\ DOMAIN tables[n].cols # {}
    /\ n \notin DOMAIN schema
    /\ \E anything \in Name \X Col :
           WriteSchema(With(schema, n, Generated(tables[n], anything)))
    /\ tables' = With(tables, n, CommittedTable(tables[n]))
    /\ stale' = stale \ {n}
    /\ careful' = (careful /\ \A r \in RefsOf(tables[n].cols) : Known(r[1]))
    /\ UNCHANGED <<up, loaded>>

-----------------------------------------------------------------------------
(* The map of the Database.                                                *)

CreateTable(n) ==
    /\ up /\ n \notin DOMAIN tables
    /\ tables' = With(tables, n, NewTable)
    /\ loaded' = loaded \ {n}
    /\ UNCHANGED <<up, tx, file, schema, stale, careful>>

\* readFromDb and a resolveForeignKeys that returned: it marks tables with
\* foreign keys as committed, and no others.
Read(t) == [committed |-> RefsOf(t.cols) # {}, cols |-> t.cols, extra |-> FALSE]

\* References are set while the columns are being read.
ReadPart_WithReferences(t, D, R) ==
    [committed |-> FALSE, cols |-> [c \in D |-> t.cols[c]], extra |-> FALSE]

\* The table with the columns D that were read, those of R with their references.
ReadPart(t, D, R) ==
    [committed |-> FALSE,
     cols |-> [c \in D |-> [key |-> t.cols[c].key,
                           ref |-> IF c \in R THEN t.cols[c].ref ELSE {}]],
     extra |-> FALSE]

Registers(n, t, read) ==
    /\ up /\ n \notin DOMAIN tables
    /\ tables' = With(tables, n, t)
    /\ loaded' = IF read THEN loaded \cup {n} ELSE loaded \ {n}
    /\ stale' = stale \ {n}
    /\ UNCHANGED <<up, tx, file, schema, careful>>

RegisterTable(n) ==
    /\ n \in DOMAIN schema
    /\ ResolvesAll(n, schema[n].cols, With(tables, n, Read(schema[n])))
    /\ Registers(n, Read(schema[n]), TRUE)

\* The file has no such table: the SELECT is not prepared and has no columns.
RegisterNothing(n) ==
    /\ n \notin DOMAIN schema
    /\ Registers(n, NewTable, FALSE)

\* PRAGMA foreign_key_list returns SQLITE_BUSY, which ends the loop over it.
RegisterWithoutReferences(n) ==
    /\ Foreign /\ tx # "writing"
    /\ n \in DOMAIN schema /\ RefsOf(schema[n].cols) # {}
    /\ Registers(n, ReadPart(schema[n], DOMAIN schema[n].cols, {}), FALSE)

\* A column cannot be read: the ones before it stay in the map.
RegisterThrowsInRead(n) ==
    /\ n \in DOMAIN schema
    /\ \E D \in SUBSET DOMAIN schema[n].cols :
           D # DOMAIN schema[n].cols /\ Registers(n, ReadPart(schema[n], D, {}), FALSE)

\* A reference cannot be resolved: the ones that SQLite listed before it are
\* set, and the table stays in the map.
RegisterThrowsInResolve(n) ==
    /\ n \in DOMAIN schema
    /\ LET cols == schema[n].cols
           map  == With(tables, n, ReadPart(schema[n], DOMAIN cols, {}))
       IN  /\ ~ResolvesAll(n, cols, map)
           /\ \E R \in SUBSET {c \in DOMAIN cols : \A r \in cols[c].ref : Resolves(r, n, map)} :
                  Registers(n, ReadPart(schema[n], DOMAIN cols, R), FALSE)

\* The Table and its Columns are destroyed, pointers to them are left.
WithoutPointee(t, n) ==
    [committed |-> t.committed,
     cols |-> [c \in DOMAIN t.cols |->
         [key |-> t.cols[c].key,
          ref |-> {IF r[1] = n THEN <<Freed, r[2]>> ELSE r : r \in t.cols[c].ref}]],
     extra |-> t.extra]

FreeTable(n) == [m \in DOMAIN tables \ {n} |-> WithoutPointee(tables[m], n)]

IsReferredTo(n, map) == \E m \in DOMAIN map \ {n} : \E r \in RefsOf(map[m].cols) : r[1] = n

\* DROP TABLE fails for a table that is in the map only.
DropTable(n) ==
    /\ up /\ n \in DOMAIN tables /\ n \in DOMAIN schema
    /\ WriteSchema(Without(schema, n))
    /\ tables' = FreeTable(n)
    /\ loaded' = loaded \ {n}
    /\ stale' = stale \ {n}
    /\ careful' = (careful /\ ~IsReferredTo(n, tables) /\ ~IsReferredTo(n, schema))
    /\ UNCHANGED up

-----------------------------------------------------------------------------
(* Transactions, the end of the process and Database::open.                *)

Changed(new) == {n \in Name : \/ (n \in DOMAIN schema) # (n \in DOMAIN new)
                              \/ n \in DOMAIN schema /\ schema[n] # new[n]}

BeginTx ==
    /\ up /\ tx = "none"
    /\ tx' = "open"
    /\ UNCHANGED <<up, tables, file, schema, loaded, stale, careful>>

CommitTx ==
    /\ up /\ tx # "none"
    /\ tx' = "none"
    /\ file' = schema
    /\ UNCHANGED <<up, tables, schema, loaded, stale, careful>>

\* Transaction::rollback, its destructor, or SQLite on its own.
RollbackTx ==
    /\ up /\ tx # "none"
    /\ tx' = "none"
    /\ schema' = file
    /\ stale' = stale \cup Changed(file)
    /\ UNCHANGED <<up, tables, file, loaded, careful>>

\* ~Database or a crash.
ProcessEnds ==
    /\ up
    /\ up' = FALSE
    /\ tables' = [n \in {} |-> NewTable]
    /\ tx' = "none"
    /\ schema' = file
    /\ loaded' = {} /\ stale' = {}
    /\ UNCHANGED <<file, careful>>

\* The constructor reads the tables until a step does not return a row, which
\* may be an error: SQLITE_BUSY at the first one, SQLITE_IOERR at any.  It
\* throws, and there is no Database, when a reference does not resolve.
OpenDatabase(read) ==
    /\ ~up
    /\ up' = TRUE
    /\ tables' = [n \in read |-> Read(file[n])]
    /\ \A n \in read : ResolvesAll(n, file[n].cols, tables')
    /\ loaded' = read
    /\ UNCHANGED <<tx, file, schema, stale, careful>>

\* A reference of the schema to a column that is there.
Openable(s) == \A n \in DOMAIN s : ResolvesAll(n, s[n].cols, s)

OthersWrite(new) ==
    /\ Foreign /\ tx # "writing"
    /\ file' = new /\ schema' = new
    /\ stale' = IF up THEN stale \cup Changed(new) ELSE stale
    /\ careful' = (careful /\ Openable(new))
    /\ UNCHANGED <<up, tables, tx, loaded>>

OthersCreate(n) ==
    /\ n \notin DOMAIN schema
    /\ \E t \in FileTable :
           /\ DOMAIN t.cols # {} /\ (t.extra => Extra)
           /\ Cardinality(KeyColumns(t.cols)) > 1 => \A c \in DOMAIN t.cols : t.cols[c].key # "auto"
           /\ OthersWrite(With(schema, n, t))

OthersDrop(n) == n \in DOMAIN schema /\ OthersWrite(Without(schema, n))

-----------------------------------------------------------------------------
Setter(n) ==
    \/ SetExtra(n)
    \/ \E c \in Col : \/ CreateColumn(n, c)
                      \/ \E key \in Key \ {"none"} : PrimaryKey(n, c, key)
                      \/ \E m \in Name, d \in Col : ForeignKey(n, c, m, d)

Register(n) ==
    \/ RegisterTable(n)
    \/ RegisterNothing(n)
    \/ RegisterWithoutReferences(n)
    \/ RegisterThrowsInRead(n)
    \/ RegisterThrowsInResolve(n)

Next ==
    \/ \E n \in Name : \/ CreateTable(n) \/ Setter(n) \/ CommitTable(n)
                       \/ Register(n) \/ DropTable(n)
                       \/ OthersCreate(n) \/ OthersDrop(n)
    \/ BeginTx \/ CommitTx \/ RollbackTx
    \/ ProcessEnds
    \/ \E read \in SUBSET DOMAIN file : OpenDatabase(read)

Spec == Init /\ [][Next]_vars

-----------------------------------------------------------------------------
(* Properties.                                                             *)

TypeOK ==
    /\ up \in BOOLEAN
    /\ IsPartial(tables, Name, Table)
    /\ tx \in {"none", "open", "writing"}
    /\ IsPartial(file, Name, FileTable)
    /\ IsPartial(schema, Name, FileTable)
    /\ loaded \in SUBSET Name
    /\ stale \in SUBSET Name
    /\ careful \in BOOLEAN

\* The object t describes the table s of the schema, references to columns
\* that were freed and properties that were not read back excepted.
Describes(t, s) ==
    /\ DOMAIN t.cols = DOMAIN s.cols
    /\ \A c \in DOMAIN t.cols :
           /\ t.cols[c].key = s.cols[c].key
           /\ \/ t.cols[c].ref = s.cols[c].ref
              \/ \E d \in Col : t.cols[c].ref = {<<Freed, d>>}
    /\ t.extra => s.extra

\* A Table that was committed (isCommitted) or read from the file and not
\* changed since is in the schema with the same columns, keys and references,
\* through any setters, failed calls and transactions, unless the table
\* itself was rolled back or changed by another process.
KnownTablesMatch ==
    \A n \in DOMAIN tables :
        Known(n) => n \in DOMAIN schema /\ Describes(tables[n], schema[n])

\* Programs that refer to tables they know and drop only what nobody refers
\* to never leave a file that resolveForeignKeys refuses, in whatever order
\* they commit, drop, roll back, reopen and die.
FileStaysOpenable == careful => Openable(file)

\* No column of their tables then refers to a column that is not there, also
\* after registerTable has thrown or a file was read in part.
NoDanglingReference ==
    careful => \A n \in DOMAIN tables : ResolvesAll(n, tables[n].cols, tables)
=============================================================================
