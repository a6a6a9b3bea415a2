---------------------------- MODULE CatalogProofs ----------------------------
(***************************************************************************)
(* What a program knows about its tables is true, and careful programs     *)
(* keep files that can be opened: theorems about Catalog for every set of  *)
(* names of tables and columns.                                            *)
(***************************************************************************)
EXTENDS Catalog, TLAPS

-----------------------------------------------------------------------------
(* Types.                                                                  *)

\* Owner is what a reference may name: Name in the file, and a table that
\* was freed besides in the map.
Owner         == Name \cup {Freed}
ColumnType(N) == [key : Key, ref : References(N)]

LEMMA PartialIs ==
    ASSUME NEW S, NEW T, NEW f
    PROVE  f \in Partial(S, T) <=> IsPartial(f, S, T)
  BY DEF Partial, IsPartial

LEMMA ColumnsAre ==
    ASSUME NEW N, NEW cols
    PROVE  cols \in Columns(N) <=> IsPartial(cols, Col, ColumnType(N))
  BY PartialIs DEF Columns, ColumnType

LEMMA WithPartial ==
    ASSUME NEW S, NEW T, NEW f, IsPartial(f, S, T), NEW x \in S, NEW v \in T
    PROVE  IsPartial(With(f, x, v), S, T)
  BY DEF IsPartial, With

LEMMA WithoutPartial ==
    ASSUME NEW S, NEW T, NEW f, IsPartial(f, S, T), NEW x
    PROVE  IsPartial(Without(f, x), S, T)
  BY DEF IsPartial, Without

\* What is known of the columns of a table.
LEMMA ColumnOf ==
    ASSUME NEW N, NEW cols \in Columns(N)
    PROVE  /\ DOMAIN cols \subseteq Col
           /\ cols = [c \in DOMAIN cols |-> cols[c]]
           /\ \A c \in DOMAIN cols : /\ cols[c] \in ColumnType(N)
                                     /\ cols[c].key \in Key
                                     /\ cols[c].ref \in References(N)
                                     /\ cols[c] = [key |-> cols[c].key, ref |-> cols[c].ref]
<1>1. IsPartial(cols, Col, ColumnType(N))
  BY ColumnsAre
<1> QED
  BY <1>1 DEF IsPartial, ColumnType

LEMMA MoreOwners == References(Name) \subseteq References(Owner)
  BY DEF References, Owner

LEMMA NoReference ==
    ASSUME NEW N
    PROVE  {} \in References(N)
  BY DEF References

LEMMA NewTableType == NewTable \in Table
<1>1. NewTable.cols \in Columns(Owner)
  BY ColumnsAre DEF NewTable, IsPartial
<1> QED
  BY <1>1 DEF NewTable, Table, Owner

\* Columns of the file as columns of an object.
LEMMA FileColumns ==
    ASSUME NEW cols \in Columns(Name)
    PROVE  cols \in Columns(Owner)
<1>1. \A c \in DOMAIN cols : cols[c] \in ColumnType(Owner)
  <2> TAKE c \in DOMAIN cols
  <2>1. /\ cols[c].key \in Key
        /\ cols[c].ref \in References(Name)
        /\ cols[c] = [key |-> cols[c].key, ref |-> cols[c].ref]
    BY ColumnOf
  <2> HIDE DEF References
  <2>2. cols[c].ref \in References(Owner)
    BY <2>1, MoreOwners
  <2> DEFINE k == cols[c].key
             r == cols[c].ref
  <2>3. [key |-> k, ref |-> r] \in ColumnType(Owner)
    BY <2>1, <2>2 DEF ColumnType
  <2> QED
    BY <2>1, <2>3
<1>2. IsPartial(cols, Col, ColumnType(Name))
  BY ColumnsAre
<1>3. IsPartial(cols, Col, ColumnType(Owner))
  BY <1>1, <1>2 DEF IsPartial
<1> QED
  BY <1>3, ColumnsAre

\* A table of the file as an object.
LEMMA ReadType ==
    ASSUME NEW t \in FileTable
    PROVE  Read(t) \in Table
<1>1. t.cols \in Columns(Name)
  BY DEF FileTable
<1>2. t.cols \in Columns(Owner)
  BY <1>1, FileColumns
<1> QED
  BY <1>2 DEF Read, Table, Owner

\* Columns made one by one.
LEMMA MakeColumns ==
    ASSUME NEW N, NEW D \in SUBSET Col, NEW k, NEW r,
           \A c \in D : k[c] \in Key /\ r[c] \in References(N)
    PROVE  [c \in D |-> [key |-> k[c], ref |-> r[c]]] \in Columns(N)
<1>1. \A c \in D : [key |-> k[c], ref |-> r[c]] \in ColumnType(N)
  BY DEF ColumnType
<1>2. IsPartial([c \in D |-> [key |-> k[c], ref |-> r[c]]], Col, ColumnType(N))
  <2> HIDE DEF ColumnType
  <2> QED
    BY <1>1 DEF IsPartial
<1> QED
  BY <1>2, ColumnsAre

LEMMA ReadPartType ==
    ASSUME NEW t \in FileTable, NEW D \in SUBSET DOMAIN t.cols, NEW R
    PROVE  ReadPart(t, D, R) \in Table
<1> DEFINE k == [c \in D |-> t.cols[c].key]
           r == [c \in D |-> IF c \in R THEN t.cols[c].ref ELSE {}]
<1>1. t.cols \in Columns(Owner)
  BY FileColumns DEF FileTable
<1>2. D \subseteq Col
  BY <1>1, ColumnOf
<1>3. \A c \in D : k[c] \in Key /\ r[c] \in References(Owner)
  BY <1>1, ColumnOf, NoReference
<1>4. [c \in D |-> [key |-> k[c], ref |-> r[c]]] \in Columns(Owner)
  <2> HIDE DEF k, r
  <2> QED
    BY <1>2, <1>3, MakeColumns
<1> QED
  BY <1>4 DEF ReadPart, Table, Owner

\* The table that CREATE TABLE makes is a table of the file: validate() has
\* seen to it that no composite key is left with AUTOINCREMENT.
LEMMA GeneratedType ==
    ASSUME NEW t \in Table, Validate(t.cols), NEW anything \in Name \X Col
    PROVE  Generated(t, anything) \in FileTable
<1> DEFINE k == [c \in DOMAIN t.cols |->
                     IF Cardinality(KeyColumns(t.cols)) > 1 /\ t.cols[c].key = "auto"
                     THEN "plain" ELSE t.cols[c].key]
           r == [c \in DOMAIN t.cols |->
                     {IF p[1] = Freed THEN anything ELSE p : p \in t.cols[c].ref}]
<1>1. t.cols \in Columns(Owner)
  BY DEF Table, Owner
<1>2. \A c \in DOMAIN t.cols : k[c] \in Key
  BY <1>1, ColumnOf DEF Validate
<1>3. \A c \in DOMAIN t.cols : r[c] \in References(Name)
  <2> TAKE c \in DOMAIN t.cols
  <2>1. t.cols[c].ref \in References(Owner)
    BY <1>1, ColumnOf
  <2>2. CASE t.cols[c].ref = {}
    BY <2>2 DEF References
  <2>3. ASSUME NEW p \in Owner \X Col, t.cols[c].ref = {p}
        PROVE  r[c] \in References(Name)
    <3>1. r[c] = {IF p[1] = Freed THEN anything ELSE p}
      BY <2>3
    <3>2. (IF p[1] = Freed THEN anything ELSE p) \in Name \X Col
      BY DEF Owner
    <3> QED
      BY <3>1, <3>2 DEF References
  <2> QED
    BY <2>1, <2>2, <2>3 DEF References
<1>4. [c \in DOMAIN t.cols |-> [key |-> k[c], ref |-> r[c]]] \in Columns(Name)
  <2>1. DOMAIN t.cols \subseteq Col
    BY <1>1, ColumnOf
  <2> HIDE DEF k, r
  <2> QED
    BY <1>2, <1>3, <2>1, MakeColumns
<1>5. t.extra \in BOOLEAN
  BY DEF Table
<1>6. [c \in DOMAIN t.cols |-> [key |-> k[c], ref |-> r[c]]] =
      [c \in DOMAIN t.cols |->
          [key |-> IF Cardinality(KeyColumns(t.cols)) > 1 /\ t.cols[c].key = "auto"
                   THEN "plain" ELSE t.cols[c].key,
           ref |-> {IF p[1] = Freed THEN anything ELSE p : p \in t.cols[c].ref}]]
  OBVIOUS
<1> HIDE DEF k, r
<1> DEFINE cols == [c \in DOMAIN t.cols |-> [key |-> k[c], ref |-> r[c]]]
<1>7. Generated(t, anything) = [cols |-> cols, extra |-> t.extra]
  BY <1>6 DEF Generated
<1> HIDE DEF cols
<1> QED
  BY <1>4, <1>5, <1>7 DEF FileTable, cols

LEMMA WithoutPointeeType ==
    ASSUME NEW t \in Table, NEW n
    PROVE  WithoutPointee(t, n) \in Table
<1> DEFINE k == [c \in DOMAIN t.cols |-> t.cols[c].key]
           r == [c \in DOMAIN t.cols |->
                     {IF p[1] = n THEN <<Freed, p[2]>> ELSE p : p \in t.cols[c].ref}]
<1>1. t.cols \in Columns(Owner)
  BY DEF Table, Owner
<1>2. \A c \in DOMAIN t.cols : k[c] \in Key
  BY <1>1, ColumnOf
<1>3. \A c \in DOMAIN t.cols : r[c] \in References(Owner)
  <2> TAKE c \in DOMAIN t.cols
  <2>1. t.cols[c].ref \in References(Owner)
    BY <1>1, ColumnOf
  <2>2. CASE t.cols[c].ref = {}
    BY <2>2 DEF References
  <2>3. ASSUME NEW p \in Owner \X Col, t.cols[c].ref = {p}
        PROVE  r[c] \in References(Owner)
    <3>1. r[c] = {IF p[1] = n THEN <<Freed, p[2]>> ELSE p}
      BY <2>3
    <3>2. (IF p[1] = n THEN <<Freed, p[2]>> ELSE p) \in Owner \X Col
      BY DEF Owner
    <3> QED
      BY <3>1, <3>2 DEF References
  <2> QED
    BY <2>1, <2>2, <2>3 DEF References
<1>4. [c \in DOMAIN t.cols |-> [key |-> k[c], ref |-> r[c]]] \in Columns(Owner)
  <2>1. DOMAIN t.cols \subseteq Col
    BY <1>1, ColumnOf
  <2> HIDE DEF k, r
  <2> QED
    BY <1>2, <1>3, <2>1, MakeColumns
<1> QED
  BY <1>4 DEF WithoutPointee, Table, Owner
LEMMA TableOf ==
    ASSUME TypeOK, NEW n \in DOMAIN tables
    PROVE  /\ n \in Name
           /\ tables[n] \in Table
           /\ tables[n].cols \in Columns(Owner)
           /\ tables[n].committed \in BOOLEAN
           /\ tables[n].extra \in BOOLEAN
           /\ tables[n] = [committed |-> tables[n].committed, cols |-> tables[n].cols,
                           extra |-> tables[n].extra]
  BY DEF TypeOK, IsPartial, Table, Owner

LEMMA SchemaTableOf ==
    ASSUME TypeOK, NEW n \in DOMAIN schema
    PROVE  /\ n \in Name
           /\ schema[n] \in FileTable
           /\ schema[n].cols \in Columns(Name)
           /\ schema[n].extra \in BOOLEAN
  BY DEF TypeOK, IsPartial, FileTable

LEMMA WriteSchemaType ==
    ASSUME TypeOK, NEW new, IsPartial(new, Name, FileTable), WriteSchema(new)
    PROVE  /\ IsPartial(file', Name, FileTable)
           /\ IsPartial(schema', Name, FileTable)
           /\ tx' \in {"none", "open", "writing"}
  BY DEF TypeOK, WriteSchema

LEMMA ChangeType ==
    ASSUME TypeOK, NEW n \in DOMAIN tables, NEW cols \in Columns(Owner), NEW extra \in BOOLEAN,
           Change(n, cols, extra)
    PROVE  TypeOK'
<1>1. [committed |-> tables[n].committed, cols |-> cols, extra |-> extra] \in Table
  BY TableOf DEF Table, Owner
<1>2. IsPartial(tables', Name, Table)
  BY <1>1, TableOf, WithPartial DEF Change, TypeOK
<1> QED
  BY <1>2 DEF Change, TypeOK

LEMMA ChangeColumnType ==
    ASSUME TypeOK, NEW n \in DOMAIN tables, NEW c \in Col, NEW key \in Key,
           NEW ref \in References(Owner), ChangeColumn(n, c, key, ref)
    PROVE  TypeOK'
<1>1. [key |-> key, ref |-> ref] \in ColumnType(Owner)
  BY DEF ColumnType
<1>2. With(tables[n].cols, c, [key |-> key, ref |-> ref]) \in Columns(Owner)
  BY <1>1, TableOf, ColumnsAre, WithPartial
<1> QED
  BY <1>2, TableOf, ChangeType DEF ChangeColumn

LEMMA RegistersType ==
    ASSUME TypeOK, NEW n \in Name, NEW t \in Table, NEW read, Registers(n, t, read)
    PROVE  TypeOK'
<1>1. IsPartial(tables', Name, Table)
  BY WithPartial DEF Registers, TypeOK
<1> QED
  BY <1>1 DEF Registers, TypeOK

LEMMA OthersWriteType ==
    ASSUME TypeOK, NEW new, IsPartial(new, Name, FileTable), OthersWrite(new)
    PROVE  TypeOK'
<1>1. stale' \in SUBSET Name
  BY DEF OthersWrite, TypeOK, Changed
<1>2. careful' \in BOOLEAN
  BY DEF OthersWrite, TypeOK
<1> QED
  BY <1>1, <1>2 DEF OthersWrite, TypeOK

LEMMA InitType == Init => TypeOK
  BY DEF Init, TypeOK, IsPartial

LEMMA SetterType ==
    ASSUME TypeOK, NEW n \in Name, Setter(n)
    PROVE  TypeOK'
<1>1. ASSUME SetExtra(n)
      PROVE  TypeOK'
  BY <1>1, TableOf, ChangeType DEF SetExtra, RequireNotCommitted
<1>2. ASSUME NEW c \in Col, CreateColumn(n, c)
      PROVE  TypeOK'
  BY <1>2, ChangeColumnType, NoReference, KeyAssumption DEF CreateColumn, RequireNotCommitted
<1>3. ASSUME NEW c \in Col, NEW key \in Key, PrimaryKey(n, c, key)
      PROVE  TypeOK'
  <2>1. n \in DOMAIN tables
    BY <1>3 DEF PrimaryKey, RequireNotCommitted
  <2>2. tables[n].cols[c].ref \in References(Owner)
    BY <1>3, <2>1, TableOf, ColumnOf DEF PrimaryKey
  <2> QED
    BY <1>3, <2>1, <2>2, ChangeColumnType DEF PrimaryKey
<1>4. ASSUME NEW c \in Col, NEW m \in Name, NEW d \in Col, ForeignKey(n, c, m, d)
      PROVE  TypeOK'
  <2>1. n \in DOMAIN tables
    BY <1>4 DEF ForeignKey, RequireNotCommitted
  <2>2. tables[n].cols[c].key \in Key
    BY <1>4, <2>1, TableOf, ColumnOf DEF ForeignKey
  <2>3. {<<m, d>>} \in References(Owner)
    BY DEF References, Owner
  <2> QED
    BY <1>4, <2>1, <2>2, <2>3, ChangeColumnType DEF ForeignKey
<1> QED
  BY <1>1, <1>2, <1>3, <1>4 DEF Setter

LEMMA RegisterType ==
    ASSUME TypeOK, NEW n \in Name, Register(n)
    PROVE  TypeOK'
<1>1. CASE RegisterTable(n)
  BY <1>1, SchemaTableOf, ReadType, RegistersType DEF RegisterTable
<1>2. CASE RegisterNothing(n)
  BY <1>2, NewTableType, RegistersType DEF RegisterNothing
<1>3. CASE RegisterWithoutReferences(n)
  BY <1>3, SchemaTableOf, ReadPartType, RegistersType DEF RegisterWithoutReferences
<1>4. CASE RegisterThrowsInRead(n)
  BY <1>4, SchemaTableOf, ReadPartType, RegistersType DEF RegisterThrowsInRead
<1>5. CASE RegisterThrowsInResolve(n)
  BY <1>5, SchemaTableOf, ReadPartType, RegistersType DEF RegisterThrowsInResolve
<1> QED
  BY <1>1, <1>2, <1>3, <1>4, <1>5 DEF Register

LEMMA CommitTableType ==
    ASSUME TypeOK, NEW n \in Name, CommitTable(n)
    PROVE  TypeOK'
<1>1. n \in DOMAIN tables
  BY DEF CommitTable, RequireNotCommitted
<1>2. PICK anything \in Name \X Col : WriteSchema(With(schema, n, Generated(tables[n], anything)))
  BY DEF CommitTable
<1>3. Generated(tables[n], anything) \in FileTable
  BY <1>1, TableOf, GeneratedType DEF CommitTable
<1>4. IsPartial(With(schema, n, Generated(tables[n], anything)), Name, FileTable)
  BY <1>3, WithPartial DEF TypeOK
<1>5. IsPartial(tables', Name, Table)
  <2>1. [committed |-> TRUE, cols |-> tables[n].cols, extra |-> tables[n].extra] \in Table
    BY <1>1, TableOf DEF Table, Owner
  <2> QED
    BY <2>1, WithPartial DEF CommitTable, CommittedTable, TypeOK
<1>6. /\ up' = up /\ loaded' = loaded
      /\ stale' = stale \ {n}
      /\ careful' \in BOOLEAN
  BY DEF CommitTable, TypeOK
<1> QED
  BY <1>2, <1>4, <1>5, <1>6, WriteSchemaType DEF TypeOK

LEMMA DropTableType ==
    ASSUME TypeOK, NEW n \in Name, DropTable(n)
    PROVE  TypeOK'
<1>1. IsPartial(Without(schema, n), Name, FileTable)
  BY WithoutPartial DEF TypeOK
<1>2. IsPartial(tables', Name, Table)
  <2>1. \A m \in DOMAIN tables : m \in Name /\ WithoutPointee(tables[m], n) \in Table
    BY TableOf, WithoutPointeeType
  <2> QED
    BY <2>1 DEF DropTable, FreeTable, IsPartial
<1>3. /\ up' = up
      /\ loaded' = loaded \ {n} /\ stale' = stale \ {n}
      /\ careful' \in BOOLEAN
  BY DEF DropTable, TypeOK
<1> QED
  BY <1>1, <1>2, <1>3, WriteSchemaType DEF DropTable, TypeOK

LEMMA TypeStep == TypeOK /\ [Next]_vars => TypeOK'
<1> SUFFICES ASSUME TypeOK, [Next]_vars
             PROVE  TypeOK'
  OBVIOUS
<1>1. ASSUME NEW n \in Name, CreateTable(n)
      PROVE  TypeOK'
  BY <1>1, NewTableType, WithPartial DEF CreateTable, TypeOK
<1>2. ASSUME NEW n \in Name, OthersCreate(n)
      PROVE  TypeOK'
  BY <1>2, WithPartial, OthersWriteType DEF OthersCreate, TypeOK
<1>3. ASSUME NEW n \in Name, OthersDrop(n)
      PROVE  TypeOK'
  BY <1>3, WithoutPartial, OthersWriteType DEF OthersDrop, TypeOK
<1>4. CASE BeginTx
  BY <1>4 DEF BeginTx, TypeOK
<1>5. CASE CommitTx
  BY <1>5 DEF CommitTx, TypeOK
<1>6. CASE RollbackTx
  BY <1>6 DEF RollbackTx, TypeOK, Changed
<1>7. CASE ProcessEnds
  <2>1. IsPartial(tables', Name, Table)
    BY <1>7 DEF ProcessEnds, IsPartial
  <2> QED
    BY <1>7, <2>1 DEF ProcessEnds, TypeOK
<1>8. ASSUME NEW read \in SUBSET DOMAIN file, OpenDatabase(read)
      PROVE  TypeOK'
  <2>1. \A n \in read : n \in Name /\ file[n] \in FileTable
    BY DEF TypeOK, IsPartial
  <2>2. \A n \in read : Read(file[n]) \in Table
    BY <2>1, ReadType
  <2>3. IsPartial(tables', Name, Table)
    BY <1>8, <2>1, <2>2 DEF OpenDatabase, IsPartial
  <2> QED
    BY <1>8, <2>1, <2>3 DEF OpenDatabase, TypeOK
<1>9. CASE UNCHANGED vars
  BY <1>9 DEF vars, TypeOK
<1> QED
  BY <1>1, <1>2, <1>3, <1>4, <1>5, <1>6, <1>7, <1>8, <1>9,
     SetterType, CommitTableType, RegisterType, DropTableType DEF Next

\* The variables keep their types; in particular every CREATE TABLE that
\* Table::commit writes describes a table that SQLite takes.
THEOREM CatalogTypes == Spec => []TypeOK
  BY InitType, TypeStep, PTL DEF Spec

-----------------------------------------------------------------------------
(* What the program knows.                                                 *)

\* Without a process nobody sees more than the file.
DownInv == ~up => schema = file /\ DOMAIN tables = {}

KnownInv == TypeOK /\ DownInv /\ KnownTablesMatch

\* Only table n moves.
LEMMA MatchOthers ==
    ASSUME KnownTablesMatch, NEW n,
           \A m \in DOMAIN tables' \ {n} :
               Known(m)' => m \in DOMAIN tables /\ Known(m) /\ tables'[m] = tables[m],
           \A m \in DOMAIN schema \ {n} : m \in DOMAIN schema' /\ schema'[m] = schema[m],
           n \in DOMAIN tables' /\ Known(n)'
               => n \in DOMAIN schema' /\ Describes(tables'[n], schema'[n])
    PROVE  KnownTablesMatch'
  BY DEF KnownTablesMatch

LEMMA ReadDescribes ==
    ASSUME NEW s
    PROVE  Describes(Read(s), s)
  BY DEF Read, Describes

LEMMA GeneratedDescribes ==
    ASSUME NEW t \in Table, Validate(t.cols), NEW anything
    PROVE  Describes(CommittedTable(t), Generated(t, anything))
<1> DEFINE g == Generated(t, anything)
<1>1. /\ DOMAIN g.cols = DOMAIN t.cols
      /\ g.extra = t.extra
  BY DEF Generated
<1>2. ASSUME NEW c \in DOMAIN t.cols
      PROVE  /\ t.cols[c].key = g.cols[c].key
             /\ \/ t.cols[c].ref = g.cols[c].ref
                \/ \E d \in Col : t.cols[c].ref = {<<Freed, d>>}
  <2>1. g.cols[c].key = t.cols[c].key
    BY DEF Generated, Validate
  <2>2. g.cols[c].ref = {IF r[1] = Freed THEN anything ELSE r : r \in t.cols[c].ref}
    BY DEF Generated
  <2>3. t.cols[c].ref \in References(Owner)
    BY ColumnOf DEF Table, Owner
  <2>4. CASE t.cols[c].ref = {}
    BY <2>2, <2>4
  <2>5. ASSUME NEW r \in Owner \X Col, t.cols[c].ref = {r}
        PROVE  \/ t.cols[c].ref = g.cols[c].ref
               \/ \E d \in Col : t.cols[c].ref = {<<Freed, d>>}
    <3>1. CASE r[1] = Freed
      BY <2>5, <3>1
    <3>2. CASE r[1] # Freed
      BY <2>2, <2>5, <3>2
    <3> QED
      BY <3>1, <3>2
  <2> QED
    BY <2>1, <2>3, <2>4, <2>5 DEF References
<1> QED
  BY <1>1, <1>2 DEF Describes, CommittedTable

LEMMA WithoutPointeeDescribes ==
    ASSUME NEW t \in Table, NEW n, NEW s, Describes(t, s)
    PROVE  Describes(WithoutPointee(t, n), s)
<1> DEFINE f == WithoutPointee(t, n)
<1>1. /\ DOMAIN f.cols = DOMAIN t.cols
      /\ f.extra = t.extra
      /\ \A c \in DOMAIN t.cols : f.cols[c].key = t.cols[c].key
  BY DEF WithoutPointee
<1>2. ASSUME NEW c \in DOMAIN t.cols
      PROVE  f.cols[c].ref = t.cols[c].ref \/ \E d \in Col : f.cols[c].ref = {<<Freed, d>>}
  <2>1. f.cols[c].ref = {IF r[1] = n THEN <<Freed, r[2]>> ELSE r : r \in t.cols[c].ref}
    BY DEF WithoutPointee
  <2>2. t.cols[c].ref \in References(Owner)
    BY ColumnOf DEF Table, Owner
  <2>3. CASE t.cols[c].ref = {}
    BY <2>1, <2>3
  <2>4. ASSUME NEW r \in Owner \X Col, t.cols[c].ref = {r}
        PROVE  f.cols[c].ref = t.cols[c].ref \/ \E d \in Col : f.cols[c].ref = {<<Freed, d>>}
    <3>1. CASE r[1] = n
      BY <2>1, <2>4, <3>1
    <3>2. CASE r[1] # n
      BY <2>1, <2>4, <3>2
    <3> QED
      BY <3>1, <3>2
  <2> QED
    BY <2>2, <2>3, <2>4 DEF References
<1>3. ASSUME NEW c \in DOMAIN t.cols
      PROVE  f.cols[c].ref = s.cols[c].ref \/ \E d \in Col : f.cols[c].ref = {<<Freed, d>>}
  <2>1. CASE t.cols[c].ref = s.cols[c].ref
    BY <1>2, <2>1
  <2>2. CASE \E d \in Col : t.cols[c].ref = {<<Freed, d>>}
    BY <1>2, <2>2
  <2> QED
    BY <2>1, <2>2 DEF Describes
<1> QED
  BY <1>1, <1>3 DEF Describes

LEMMA ChangeMatches ==
    ASSUME KnownInv, NEW n \in DOMAIN tables, ~tables[n].committed,
           NEW cols, NEW extra, Change(n, cols, extra)
    PROVE  KnownTablesMatch'
<1>1. ~tables'[n].committed
  BY DEF Change, With
<1>2. ~Known(n)'
  BY <1>1 DEF Known, Change
<1>3. \A m \in DOMAIN tables' \ {n} :
          Known(m)' => m \in DOMAIN tables /\ Known(m) /\ tables'[m] = tables[m]
  BY DEF Change, With, Known
<1>4. schema' = schema
  BY DEF Change
<1> QED
  BY <1>2, <1>3, <1>4, MatchOthers DEF KnownInv

LEMMA SetterMatches ==
    ASSUME KnownInv, NEW n \in Name, Setter(n)
    PROVE  KnownTablesMatch'
<1>1. PICK cols, extra : Change(n, cols, extra)
  BY DEF Setter, SetExtra, CreateColumn, PrimaryKey, ForeignKey, ChangeColumn
<1>2. n \in DOMAIN tables /\ ~tables[n].committed
  BY DEF Setter, SetExtra, CreateColumn, PrimaryKey, ForeignKey, RequireNotCommitted
<1> QED
  BY <1>1, <1>2, ChangeMatches

LEMMA RegistersMatches ==
    ASSUME KnownInv, NEW n \in Name, NEW t, NEW read, Registers(n, t, read),
           IF read THEN n \in DOMAIN schema /\ Describes(t, schema[n]) ELSE t.committed = FALSE
    PROVE  KnownTablesMatch'
<1>1. tables'[n] = t
  BY DEF Registers, With
<1>2. \A m \in DOMAIN tables' \ {n} :
          Known(m)' => m \in DOMAIN tables /\ Known(m) /\ tables'[m] = tables[m]
  BY DEF Registers, With, Known
<1>3. schema' = schema
  BY DEF Registers
<1>4. ASSUME Known(n)'
      PROVE  n \in DOMAIN schema /\ Describes(t, schema[n])
  <2>1. CASE read
    BY <2>1
  <2>2. CASE ~read
    BY <1>1, <1>4, <2>2 DEF Registers, Known
  <2> QED
    BY <2>1, <2>2
<1> QED
  BY <1>1, <1>2, <1>3, <1>4, MatchOthers DEF KnownInv

LEMMA RegisterMatches ==
    ASSUME KnownInv, NEW n \in Name, Register(n)
    PROVE  KnownTablesMatch'
<1>1. CASE RegisterTable(n)
  BY <1>1, ReadDescribes, RegistersMatches DEF RegisterTable
<1>2. CASE RegisterNothing(n)
  BY <1>2, RegistersMatches DEF RegisterNothing, NewTable
<1>3. ASSUME NEW D, NEW R, Registers(n, ReadPart(schema[n], D, R), FALSE)
      PROVE  KnownTablesMatch'
  <2>1. ReadPart(schema[n], D, R).committed = FALSE
    BY DEF ReadPart
  <2> QED
    BY <1>3, <2>1, RegistersMatches
<1> QED
  BY <1>1, <1>2, <1>3
  DEF Register, RegisterWithoutReferences, RegisterThrowsInRead, RegisterThrowsInResolve

LEMMA CommitTableMatches ==
    ASSUME KnownInv, NEW n \in Name, CommitTable(n)
    PROVE  KnownTablesMatch'
<1>1. n \in DOMAIN tables /\ n \notin DOMAIN schema /\ Validate(tables[n].cols)
  BY DEF CommitTable, RequireNotCommitted
<1>2. PICK anything \in Name \X Col : WriteSchema(With(schema, n, Generated(tables[n], anything)))
  BY DEF CommitTable
<1>3. schema' = With(schema, n, Generated(tables[n], anything))
  BY <1>2 DEF WriteSchema
<1>4. tables' = With(tables, n, CommittedTable(tables[n]))
  BY DEF CommitTable
<1>5. Describes(tables'[n], schema'[n])
  <2>1. Describes(CommittedTable(tables[n]), Generated(tables[n], anything))
    BY <1>1, TableOf, GeneratedDescribes DEF KnownInv
  <2> QED
    BY <1>3, <1>4, <2>1 DEF With
<1>6. \A m \in DOMAIN tables' \ {n} :
          Known(m)' => m \in DOMAIN tables /\ Known(m) /\ tables'[m] = tables[m]
  BY <1>4 DEF CommitTable, With, Known
<1>7. \A m \in DOMAIN schema \ {n} : m \in DOMAIN schema' /\ schema'[m] = schema[m]
  BY <1>3 DEF With
<1>8. n \in DOMAIN schema'
  BY <1>3 DEF With
<1> QED
  BY <1>5, <1>6, <1>7, <1>8, MatchOthers DEF KnownInv

LEMMA DropTableMatches ==
    ASSUME KnownInv, NEW n \in Name, DropTable(n)
    PROVE  KnownTablesMatch'
<1>1. schema' = Without(schema, n) /\ tables' = FreeTable(n)
  BY DEF DropTable, WriteSchema
<1> SUFFICES ASSUME NEW m \in DOMAIN tables', Known(m)'
             PROVE  m \in DOMAIN schema' /\ Describes(tables'[m], schema'[m])
  BY DEF KnownTablesMatch
<1>2. m \in DOMAIN tables \ {n} /\ tables'[m] = WithoutPointee(tables[m], n)
  BY <1>1 DEF FreeTable
<1>3. tables'[m].committed = tables[m].committed
  BY <1>2 DEF WithoutPointee
<1>4. Known(m)
  BY <1>2, <1>3 DEF Known, DropTable
<1>5. m \in DOMAIN schema /\ Describes(tables[m], schema[m])
  BY <1>2, <1>4 DEF KnownInv, KnownTablesMatch
<1>6. Describes(WithoutPointee(tables[m], n), schema[m])
  BY <1>2, <1>5, TableOf, WithoutPointeeDescribes DEF KnownInv
<1>7. m \in DOMAIN schema' /\ schema'[m] = schema[m]
  BY <1>1, <1>2, <1>5 DEF Without
<1> QED
  BY <1>2, <1>6, <1>7

\* The schema turns into another one, and the tables that changed are stale.
LEMMA NewSchemaMatches ==
    ASSUME KnownInv, NEW new, schema' = new, tables' = tables, loaded' = loaded,
           stale' = stale \cup Changed(new)
    PROVE  KnownTablesMatch'
<1> SUFFICES ASSUME NEW n \in DOMAIN tables, Known(n)'
             PROVE  n \in DOMAIN new /\ Describes(tables[n], new[n])
  BY DEF KnownTablesMatch
<1>1. Known(n) /\ n \notin Changed(new)
  BY DEF Known
<1>2. n \in Name
  BY TableOf DEF KnownInv
<1>3. n \in DOMAIN schema /\ Describes(tables[n], schema[n])
  BY <1>1 DEF KnownInv, KnownTablesMatch
<1> QED
  BY <1>1, <1>2, <1>3 DEF Changed

LEMMA KnownStep == KnownInv /\ [Next]_vars => KnownInv'
<1> SUFFICES ASSUME KnownInv, [Next]_vars
             PROVE  KnownInv'
  OBVIOUS
<1>1. TypeOK'
  BY TypeStep DEF KnownInv
<1>2. DownInv'
  <2>1. CASE UNCHANGED vars
    BY <2>1 DEF KnownInv, DownInv, vars
  <2>2. CASE ProcessEnds
    BY <2>2 DEF ProcessEnds, DownInv
  <2>3. ASSUME NEW new, OthersWrite(new)
        PROVE  DownInv'
    BY <2>3 DEF OthersWrite, KnownInv, DownInv
  <2>4. CASE up /\ up' = up
    BY <2>4 DEF DownInv
  <2>5. ASSUME NEW read, OpenDatabase(read)
        PROVE  DownInv'
    BY <2>5 DEF OpenDatabase, DownInv
  <2>6. ASSUME NEW n \in Name, Setter(n)
        PROVE  up /\ up' = up
    BY <2>6 DEF Setter, SetExtra, CreateColumn, PrimaryKey, ForeignKey, ChangeColumn, Change,
       RequireNotCommitted
  <2>7. ASSUME NEW n \in Name, Register(n)
        PROVE  up /\ up' = up
    BY <2>7 DEF Register, RegisterTable, RegisterNothing, RegisterWithoutReferences,
       RegisterThrowsInRead, RegisterThrowsInResolve, Registers
  <2>8. ASSUME NEW n \in Name, CreateTable(n) \/ CommitTable(n) \/ DropTable(n)
        PROVE  up /\ up' = up
    BY <2>8 DEF CreateTable, CommitTable, RequireNotCommitted, DropTable
  <2>9. ASSUME BeginTx \/ CommitTx \/ RollbackTx
        PROVE  up /\ up' = up
    BY <2>9 DEF BeginTx, CommitTx, RollbackTx
  <2> QED
    BY <2>1, <2>2, <2>3, <2>4, <2>5, <2>6, <2>7, <2>8, <2>9 DEF Next, OthersCreate, OthersDrop
<1>3. KnownTablesMatch'
  <2>1. ASSUME NEW n \in Name, CreateTable(n)
        PROVE  KnownTablesMatch'
    <3>1. ~Known(n)'
      BY <2>1 DEF CreateTable, With, NewTable, Known
    <3>2. \A m \in DOMAIN tables' \ {n} :
              Known(m)' => m \in DOMAIN tables /\ Known(m) /\ tables'[m] = tables[m]
      BY <2>1 DEF CreateTable, With, Known
    <3>3. schema' = schema
      BY <2>1 DEF CreateTable
    <3> QED
      BY <3>1, <3>2, <3>3, MatchOthers DEF KnownInv
  <2>2. ASSUME NEW new, OthersWrite(new)
        PROVE  KnownTablesMatch'
    <3>1. CASE up
      BY <2>2, <3>1, NewSchemaMatches DEF OthersWrite
    <3>2. CASE ~up
      BY <2>2, <3>2 DEF OthersWrite, KnownInv, DownInv, KnownTablesMatch
    <3> QED
      BY <3>1, <3>2
  <2>3. CASE RollbackTx
    BY <2>3, NewSchemaMatches DEF RollbackTx
  <2>4. CASE BeginTx \/ CommitTx
    BY <2>4 DEF BeginTx, CommitTx, KnownInv, KnownTablesMatch, Known
  <2>5. CASE ProcessEnds
    BY <2>5 DEF ProcessEnds, KnownTablesMatch
  <2>6. ASSUME NEW read \in SUBSET DOMAIN file, OpenDatabase(read)
        PROVE  KnownTablesMatch'
    <3>1. schema' = file
      BY <2>6 DEF OpenDatabase, KnownInv, DownInv
    <3>2. \A n \in DOMAIN tables' : n \in DOMAIN file /\ tables'[n] = Read(file[n])
      BY <2>6 DEF OpenDatabase
    <3> QED
      BY <3>1, <3>2, ReadDescribes DEF KnownTablesMatch
  <2>7. CASE UNCHANGED vars
    BY <2>7 DEF vars, KnownInv, KnownTablesMatch, Known
  <2> QED
    BY <2>1, <2>2, <2>3, <2>4, <2>5, <2>6, <2>7,
       SetterMatches, RegisterMatches, CommitTableMatches, DropTableMatches
    DEF Next, OthersCreate, OthersDrop
<1> QED
  BY <1>1, <1>2, <1>3 DEF KnownInv

LEMMA KnownInit == Init => KnownInv
  BY InitType DEF Init, KnownInv, DownInv, KnownTablesMatch

\* A table that the program committed or read is in the schema as the object
\* says, through everything that happens to other tables, unless a rollback
\* or another process changed it.
THEOREM KnownIsTrue == Spec => []KnownTablesMatch
<1>1. KnownInv => KnownTablesMatch
  BY DEF KnownInv
<1> QED
  BY <1>1, KnownInit, KnownStep, PTL DEF Spec

-----------------------------------------------------------------------------
(* References.  Openable says of the map what NoDanglingReference says.    *)

RefInv == careful => Openable(file) /\ Openable(schema) /\ Openable(tables)

LEMMA ResolvesMore ==
    ASSUME NEW r, NEW n, NEW f, NEW g, Resolves(r, n, f),
           \A m \in DOMAIN f : m \in DOMAIN g /\ DOMAIN f[m].cols \subseteq DOMAIN g[m].cols
    PROVE  Resolves(r, n, g)
  BY DEF Resolves

\* A table is added, or replaced by one with more columns.
LEMMA OpenableWith ==
    ASSUME NEW f, Openable(f), NEW n, NEW t, ResolvesAll(n, t.cols, With(f, n, t)),
           n \in DOMAIN f => DOMAIN f[n].cols \subseteq DOMAIN t.cols
    PROVE  Openable(With(f, n, t))
<1> DEFINE g == With(f, n, t)
<1>1. \A m \in DOMAIN f : m \in DOMAIN g /\ DOMAIN f[m].cols \subseteq DOMAIN g[m].cols
  BY DEF With
<1>2. ASSUME NEW m \in DOMAIN f \ {n}
      PROVE  ResolvesAll(m, g[m].cols, g)
  <2>1. g[m] = f[m]
    BY DEF With
  <2>2. \A r \in RefsOf(f[m].cols) : Resolves(r, m, f)
    BY DEF Openable, ResolvesAll
  <2>3. \A r \in RefsOf(f[m].cols) : Resolves(r, m, g)
    <3> HIDE DEF g
    <3> QED
      BY <1>1, <2>2, ResolvesMore
  <2> QED
    BY <2>1, <2>3 DEF ResolvesAll
<1>3. g[n] = t /\ DOMAIN g = DOMAIN f \cup {n}
  BY DEF With
<1> HIDE DEF g
<1>4. ResolvesAll(n, t.cols, g)
  BY DEF g
<1>5. Openable(g)
  BY <1>2, <1>3, <1>4 DEF Openable
<1> QED
  BY <1>5 DEF g

\* The references of the new table are found in the old map.
LEMMA OpenableWithOld ==
    ASSUME NEW f, Openable(f), NEW n, NEW t, ResolvesAll(n, t.cols, f),
           n \in DOMAIN f => DOMAIN f[n].cols \subseteq DOMAIN t.cols
    PROVE  Openable(With(f, n, t))
<1> DEFINE g == With(f, n, t)
<1>1. \A m \in DOMAIN f : m \in DOMAIN g /\ DOMAIN f[m].cols \subseteq DOMAIN g[m].cols
  BY DEF With
<1>2. ResolvesAll(n, t.cols, g)
  <2> HIDE DEF g
  <2> QED
    BY <1>1, ResolvesMore DEF ResolvesAll
<1> QED
  BY <1>2, OpenableWith

LEMMA OpenableWithout ==
    ASSUME NEW f, Openable(f), NEW n, ~IsReferredTo(n, f)
    PROVE  Openable(Without(f, n))
<1> DEFINE g == Without(f, n)
<1>1. DOMAIN g = DOMAIN f \ {n} /\ \A m \in DOMAIN g : g[m] = f[m]
  BY DEF Without
<1> HIDE DEF g
<1>2. ASSUME NEW m \in DOMAIN g, NEW r \in RefsOf(g[m].cols)
      PROVE  Resolves(r, m, g)
  <2>1. Resolves(r, m, f)
    BY <1>1 DEF Openable, ResolvesAll
  <2>2. r[1] # n
    BY <1>1 DEF IsReferredTo
  <2> QED
    BY <1>1, <2>1, <2>2 DEF Resolves
<1>3. Openable(g)
  BY <1>2 DEF Openable, ResolvesAll
<1> QED
  BY <1>3 DEF g

LEMMA EmptyOpenable ==
    ASSUME NEW f, DOMAIN f = {}
    PROVE  Openable(f)
  BY DEF Openable

LEMMA RefsOfWith ==
    ASSUME NEW cols, NEW c, NEW key, NEW ref
    PROVE  RefsOf(With(cols, c, [key |-> key, ref |-> ref])) \subseteq RefsOf(cols) \cup ref
<1> DEFINE new == With(cols, c, [key |-> key, ref |-> ref])
<1>1. \A d \in DOMAIN new : new[d].ref = ref \/ (d \in DOMAIN cols /\ new[d].ref = cols[d].ref)
  BY DEF With
<1> QED
  BY <1>1 DEF RefsOf

LEMMA WriteSchemaRefs ==
    ASSUME NEW new, WriteSchema(new), Openable(file), Openable(new)
    PROVE  Openable(file') /\ Openable(schema')
  BY DEF WriteSchema

LEMMA ChangeColumnRefs ==
    ASSUME KnownInv, RefInv, careful, NEW n \in DOMAIN tables, NEW c, NEW key, NEW ref,
           \A r \in ref : Resolves(r, n, tables), ChangeColumn(n, c, key, ref)
    PROVE  RefInv'
<1> DEFINE cols == With(tables[n].cols, c, [key |-> key, ref |-> ref])
           t == [committed |-> tables[n].committed, cols |-> cols, extra |-> tables[n].extra]
<1>1. ResolvesAll(n, tables[n].cols, tables)
  BY DEF RefInv, Openable
<1>2. RefsOf(cols) \subseteq RefsOf(tables[n].cols) \cup ref
  BY RefsOfWith
<1>3. DOMAIN tables[n].cols \subseteq DOMAIN cols
  BY DEF With
<1> HIDE DEF cols
<1>4. ResolvesAll(n, t.cols, tables)
  BY <1>1, <1>2 DEF ResolvesAll
<1>5. Openable(With(tables, n, t))
  <2>1. DOMAIN tables[n].cols \subseteq DOMAIN t.cols
    BY <1>3
  <2> HIDE DEF t
  <2> QED
    BY <1>4, <2>1, OpenableWithOld DEF RefInv
<1>6. tables' = With(tables, n, t) /\ file' = file /\ schema' = schema
  BY DEF ChangeColumn, Change, cols
<1> HIDE DEF t
<1> QED
  BY <1>5, <1>6 DEF RefInv

LEMMA SetterRefs ==
    ASSUME KnownInv, RefInv, careful, NEW n \in Name, Setter(n)
    PROVE  RefInv'
<1>1. ASSUME SetExtra(n)
      PROVE  RefInv'
  <2> DEFINE t == [committed |-> tables[n].committed, cols |-> tables[n].cols, extra |-> TRUE]
  <2>1. n \in DOMAIN tables
    BY <1>1 DEF SetExtra, RequireNotCommitted
  <2>2. t.cols = tables[n].cols
    OBVIOUS
  <2>3. tables' = With(tables, n, t) /\ file' = file /\ schema' = schema
    BY <1>1 DEF SetExtra, Change
  <2> HIDE DEF t
  <2>4. Openable(With(tables, n, t))
    BY <2>1, <2>2, OpenableWithOld DEF RefInv, Openable
  <2> QED
    BY <2>3, <2>4 DEF RefInv
<1>2. ASSUME NEW c \in Col, CreateColumn(n, c)
      PROVE  RefInv'
  BY <1>2, ChangeColumnRefs DEF CreateColumn, RequireNotCommitted
<1>3. ASSUME NEW c \in Col, NEW key, PrimaryKey(n, c, key)
      PROVE  RefInv'
  <2>1. n \in DOMAIN tables /\ c \in DOMAIN tables[n].cols
    BY <1>3 DEF PrimaryKey, RequireNotCommitted
  <2>2. \A r \in tables[n].cols[c].ref : Resolves(r, n, tables)
    BY <2>1 DEF RefInv, Openable, ResolvesAll, RefsOf
  <2> QED
    BY <1>3, <2>1, <2>2, ChangeColumnRefs DEF PrimaryKey
<1>4. ASSUME NEW c \in Col, NEW m \in Name, NEW d \in Col, ForeignKey(n, c, m, d)
      PROVE  RefInv'
  <2>1. Resolves(<<m, d>>, n, tables)
    BY <1>4 DEF ForeignKey, Resolves
  <2> QED
    BY <1>4, <2>1, ChangeColumnRefs DEF ForeignKey, RequireNotCommitted
<1> QED
  BY <1>1, <1>2, <1>3, <1>4 DEF Setter

\* The table that a call of registerTable leaves in the map refers to columns
\* that are there, whether it returned or threw.
LEMMA RegistersRefs ==
    ASSUME RefInv, careful, NEW n, NEW t, NEW read, Registers(n, t, read),
           ResolvesAll(n, t.cols, With(tables, n, t))
    PROVE  RefInv'
<1>1. n \notin DOMAIN tables
  BY DEF Registers
<1>2. Openable(With(tables, n, t))
  BY <1>1, OpenableWith DEF RefInv
<1> QED
  BY <1>2 DEF Registers, RefInv

LEMMA RefsOfReadPart ==
    ASSUME NEW t, NEW D, NEW R, NEW r \in RefsOf(ReadPart(t, D, R).cols)
    PROVE  \E c \in D \cap R : r \in t.cols[c].ref
<1> DEFINE cols == ReadPart(t, D, R).cols
<1>1. DOMAIN cols = D
  BY DEF ReadPart
<1>2. \A c \in D : cols[c].ref = IF c \in R THEN t.cols[c].ref ELSE {}
  BY DEF ReadPart
<1> HIDE DEF cols
<1>3. PICK c \in D : r \in cols[c].ref
  BY <1>1 DEF RefsOf, cols
<1> QED
  BY <1>2, <1>3

LEMMA RegisterRefs ==
    ASSUME KnownInv, RefInv, careful, NEW n \in Name, Register(n)
    PROVE  RefInv'
<1>1. CASE RegisterTable(n)
  <2>1. Read(schema[n]).cols = schema[n].cols
    BY DEF Read
  <2> QED
    BY <1>1, <2>1, RegistersRefs DEF RegisterTable
<1>2. CASE RegisterNothing(n)
  <2>1. RefsOf(NewTable.cols) = {}
    BY DEF RefsOf, NewTable
  <2> QED
    BY <1>2, <2>1, RegistersRefs DEF RegisterNothing, ResolvesAll
<1>3. ASSUME NEW D, Registers(n, ReadPart(schema[n], D, {}), FALSE)
      PROVE  RefInv'
  <2>1. RefsOf(ReadPart(schema[n], D, {}).cols) = {}
    <3> SUFFICES ASSUME NEW r \in RefsOf(ReadPart(schema[n], D, {}).cols)
                 PROVE  FALSE
      OBVIOUS
    <3>1. \E c \in D \cap {} : r \in schema[n].cols[c].ref
      BY RefsOfReadPart
    <3> QED
      BY <3>1
  <2> QED
    BY <1>3, <2>1, RegistersRefs DEF ResolvesAll
<1>4. CASE RegisterThrowsInResolve(n)
  <2> DEFINE cols == schema[n].cols
             all  == ReadPart(schema[n], DOMAIN cols, {})
             map  == With(tables, n, all)
  <2>1. PICK R \in SUBSET {c \in DOMAIN cols : \A r \in cols[c].ref : Resolves(r, n, map)} :
            Registers(n, ReadPart(schema[n], DOMAIN cols, R), FALSE)
    BY <1>4 DEF RegisterThrowsInResolve
  <2> DEFINE t == ReadPart(schema[n], DOMAIN cols, R)
             new == With(tables, n, t)
  <2>2. \A r \in RefsOf(t.cols) : Resolves(r, n, map)
    BY <2>1, RefsOfReadPart
  <2>3. \A m \in DOMAIN map : m \in DOMAIN new /\ DOMAIN map[m].cols \subseteq DOMAIN new[m].cols
    BY DEF With, ReadPart
  <2>4. ResolvesAll(n, t.cols, new)
    <3> HIDE DEF t, map, new
    <3> QED
      BY <2>2, <2>3, ResolvesMore DEF ResolvesAll
  <2> HIDE DEF t
  <2> QED
    BY <2>1, <2>4, RegistersRefs DEF t
<1> QED
  BY <1>1, <1>2, <1>3, <1>4 DEF Register, RegisterWithoutReferences, RegisterThrowsInRead

\* A table that is committed refers to tables that the program knows, and
\* these are in the schema with the columns that it refers to.
LEMMA CommitTableRefs ==
    ASSUME KnownInv, RefInv, careful', NEW n \in Name, CommitTable(n)
    PROVE  RefInv'
<1>1. /\ n \in DOMAIN tables /\ n \notin DOMAIN schema /\ careful
      /\ \A r \in RefsOf(tables[n].cols) : Known(r[1])
  BY DEF CommitTable, RequireNotCommitted
<1>2. PICK anything \in Name \X Col : WriteSchema(With(schema, n, Generated(tables[n], anything)))
  BY DEF CommitTable
<1> DEFINE g == Generated(tables[n], anything)
<1>3. ASSUME NEW r \in RefsOf(tables[n].cols)
      PROVE  Resolves(r, n, schema) /\ r[1] # Freed
  <2>1. Resolves(r, n, tables)
    BY <1>1 DEF RefInv, Openable, ResolvesAll
  <2>2. Known(r[1]) /\ r[1] \in DOMAIN tables
    BY <1>1, <2>1 DEF Resolves
  <2>3. r[1] \in DOMAIN schema /\ DOMAIN tables[r[1]].cols = DOMAIN schema[r[1]].cols
    BY <2>2 DEF KnownInv, KnownTablesMatch, Describes
  <2>4. r[1] \in Name
    BY <2>2, TableOf DEF KnownInv
  <2> QED
    BY <2>1, <2>3, <2>4, FreedAssumption DEF Resolves
<1>4. RefsOf(g.cols) \subseteq RefsOf(tables[n].cols)
  <2>1. DOMAIN g.cols = DOMAIN tables[n].cols
    BY DEF Generated
  <2>2. ASSUME NEW c \in DOMAIN tables[n].cols
        PROVE  g.cols[c].ref = tables[n].cols[c].ref
    <3>1. g.cols[c].ref = {IF r[1] = Freed THEN anything ELSE r : r \in tables[n].cols[c].ref}
      BY DEF Generated
    <3>2. \A r \in tables[n].cols[c].ref : r[1] # Freed
      BY <1>3 DEF RefsOf
    <3> QED
      BY <3>1, <3>2
  <2> HIDE DEF g
  <2> QED
    BY <2>1, <2>2 DEF RefsOf
<1>5. Openable(With(schema, n, g))
  <2> HIDE DEF g
  <2>1. ResolvesAll(n, g.cols, schema)
    BY <1>3, <1>4 DEF ResolvesAll
  <2> QED
    BY <1>1, <2>1, OpenableWithOld DEF RefInv
<1>6. Openable(file') /\ Openable(schema')
  BY <1>1, <1>2, <1>5, WriteSchemaRefs DEF RefInv
<1>7. Openable(tables')
  <2> DEFINE t == CommittedTable(tables[n])
  <2>1. t.cols = tables[n].cols
    BY DEF CommittedTable
  <2>2. tables' = With(tables, n, t)
    BY DEF CommitTable
  <2> HIDE DEF t
  <2> QED
    BY <1>1, <2>1, <2>2, OpenableWithOld DEF RefInv, Openable
<1> QED
  BY <1>6, <1>7 DEF RefInv

LEMMA DropTableRefs ==
    ASSUME KnownInv, RefInv, careful', NEW n \in Name, DropTable(n)
    PROVE  RefInv'
<1>1. careful /\ ~IsReferredTo(n, tables) /\ ~IsReferredTo(n, schema)
  BY DEF DropTable
<1>2. Openable(file') /\ Openable(schema')
  <2>1. Openable(Without(schema, n))
    BY <1>1, OpenableWithout DEF RefInv
  <2> QED
    BY <1>1, <2>1, WriteSchemaRefs DEF RefInv, DropTable
<1>3. \A m \in DOMAIN tables' :
          /\ m \in DOMAIN tables \ {n}
          /\ DOMAIN tables'[m].cols = DOMAIN tables[m].cols
          /\ RefsOf(tables'[m].cols) \subseteq RefsOf(tables[m].cols)
  <2> TAKE m \in DOMAIN tables'
  <2>1. m \in DOMAIN tables \ {n} /\ tables'[m] = WithoutPointee(tables[m], n)
    BY DEF DropTable, FreeTable
  <2> DEFINE f == WithoutPointee(tables[m], n)
  <2>2. DOMAIN f.cols = DOMAIN tables[m].cols
    BY DEF WithoutPointee
  <2>3. ASSUME NEW c \in DOMAIN tables[m].cols
        PROVE  f.cols[c].ref = tables[m].cols[c].ref
    <3>1. f.cols[c].ref = {IF r[1] = n THEN <<Freed, r[2]>> ELSE r : r \in tables[m].cols[c].ref}
      BY DEF WithoutPointee
    <3>2. \A r \in tables[m].cols[c].ref : r[1] # n
      BY <1>1, <2>1 DEF IsReferredTo, RefsOf
    <3> QED
      BY <3>1, <3>2
  <2> HIDE DEF f
  <2>4. RefsOf(f.cols) \subseteq RefsOf(tables[m].cols)
    BY <2>2, <2>3 DEF RefsOf
  <2> QED
    BY <2>1, <2>2, <2>4 DEF f
<1>4. DOMAIN tables' = DOMAIN tables \ {n}
  BY DEF DropTable, FreeTable
<1>5. ASSUME NEW m \in DOMAIN tables', NEW r \in RefsOf(tables'[m].cols)
      PROVE  Resolves(r, m, tables')
  <2>1. m \in DOMAIN tables \ {n} /\ r \in RefsOf(tables[m].cols)
    BY <1>3
  <2>2. Resolves(r, m, tables)
    BY <1>1, <2>1 DEF RefInv, Openable, ResolvesAll
  <2>3. r[1] # n
    BY <1>1, <2>1 DEF IsReferredTo
  <2> QED
    BY <1>3, <1>4, <2>2, <2>3 DEF Resolves
<1>6. Openable(tables')
  BY <1>5 DEF Openable, ResolvesAll
<1> QED
  BY <1>2, <1>6 DEF RefInv

LEMMA RefStep == KnownInv /\ RefInv /\ [Next]_vars => RefInv'
<1> SUFFICES ASSUME KnownInv, RefInv, [Next]_vars, careful'
             PROVE  RefInv'
  BY DEF RefInv
<1>1. CASE UNCHANGED vars
  BY <1>1 DEF vars, RefInv, Openable, ResolvesAll
<1>2. ASSUME NEW n \in Name, CreateTable(n)
      PROVE  RefInv'
  <2>1. RefsOf(NewTable.cols) = {}
    BY DEF RefsOf, NewTable
  <2>2. careful /\ n \notin DOMAIN tables
    BY <1>2 DEF CreateTable
  <2>3. Openable(With(tables, n, NewTable))
    BY <2>1, <2>2, OpenableWith DEF RefInv, ResolvesAll
  <2> QED
    BY <1>2, <2>2, <2>3 DEF CreateTable, RefInv
<1>3. ASSUME NEW n \in Name, Setter(n)
      PROVE  RefInv'
  <2>1. careful
    BY <1>3 DEF Setter, SetExtra, CreateColumn, PrimaryKey, ForeignKey, ChangeColumn, Change
  <2> QED
    BY <1>3, <2>1, SetterRefs
<1>4. ASSUME NEW n \in Name, Register(n)
      PROVE  RefInv'
  <2>1. careful
    BY <1>4 DEF Register, RegisterTable, RegisterNothing, RegisterWithoutReferences,
       RegisterThrowsInRead, RegisterThrowsInResolve, Registers
  <2> QED
    BY <1>4, <2>1, RegisterRefs
<1>5. ASSUME NEW new, OthersWrite(new)
      PROVE  RefInv'
  BY <1>5 DEF OthersWrite, RefInv
<1>6. CASE BeginTx \/ CommitTx \/ RollbackTx
  BY <1>6 DEF BeginTx, CommitTx, RollbackTx, RefInv
<1>7. CASE ProcessEnds
  <2>1. Openable(tables')
    BY <1>7, EmptyOpenable DEF ProcessEnds
  <2> QED
    BY <1>7, <2>1 DEF ProcessEnds, RefInv
<1>8. ASSUME NEW read \in SUBSET DOMAIN file, OpenDatabase(read)
      PROVE  RefInv'
  <2>1. \A n \in read : tables'[n].cols = file[n].cols
    BY <1>8 DEF OpenDatabase, Read
  <2>2. Openable(tables')
    BY <1>8, <2>1 DEF OpenDatabase, Openable
  <2> QED
    BY <1>8, <2>2 DEF OpenDatabase, RefInv
<1> QED
  BY <1>1, <1>2, <1>3, <1>4, <1>5, <1>6, <1>7, <1>8, CommitTableRefs, DropTableRefs
  DEF Next, OthersCreate, OthersDrop

LEMMA RefInit == Init => RefInv
<1> SUFFICES ASSUME Init
             PROVE  RefInv
  OBVIOUS
<1>1. DOMAIN file = {} /\ DOMAIN schema = {} /\ DOMAIN tables = {}
  BY DEF Init
<1> QED
  BY <1>1, EmptyOpenable DEF RefInv

LEMMA ReferencesInv == Spec => [](KnownInv /\ RefInv)
  BY KnownInit, KnownStep, RefInit, RefStep, PTL DEF Spec

\* Programs that refer to tables they know and drop only what nobody refers
\* to leave a file that can be opened, wherever they or others stop.
THEOREM FilesOpen == Spec => []FileStaysOpenable
<1>1. RefInv => FileStaysOpenable
  BY DEF RefInv, FileStaysOpenable
<1> QED
  BY <1>1, ReferencesInv, PTL

\* None of their columns refers to a column that is not there, also after
\* registerTable has thrown or a file was read in part.
THEOREM ReferencesResolve == Spec => []NoDanglingReference
<1>1. RefInv => NoDanglingReference
  BY DEF RefInv, NoDanglingReference, Openable
<1> QED
  BY <1>1, ReferencesInv, PTL
=============================================================================
