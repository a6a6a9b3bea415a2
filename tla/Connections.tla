----------------------------- MODULE Connections -----------------------------
(***************************************************************************)
(* The life of sql::Database and sql::Statement objects and of the         *)
(* sqlite3 and sqlite3_stmt handles behind them: opening a file that other *)
(* processes create and delete, preparing, finalizing, moving, closing and *)
(* shutting SQLite down.                                                   *)
(*                                                                         *)
(* Both classes hold a raw handle and have a defaulted move, which copies  *)
(* it.  Release builds: a CPPQL_ASSERT that fails is not noticed.  What    *)
(* SQLite does to the memory behind a handle that is released twice is     *)
(* undefined; here it does nothing more.  Nor does sqlite3_shutdown, whose *)
(* effect on connections that are still open is undefined.                 *)
(*                                                                         *)
(* A definition Name_Fault is Name with one fault put in; no action uses   *)
(* it.  It shows that a property depends on Name.                          *)
(***************************************************************************)
EXTENDS FiniteSets

CONSTANTS Db,        \* Database objects
          Stmt,      \* Statement objects
          Conn,      \* sqlite3 handles, the bound on how many are opened
          Handle,    \* sqlite3_stmt handles, the bound on how many are prepared
          None,      \* no object, no handle, a null pointer
          Gone       \* a pointer to a Database that is not there any more

\* A static method of Database, and whether its flags have SQLITE_OPEN_MEMORY.
Method   == {"create", "open", "openOrCreate"}
Call     == [method : Method, memory : BOOLEAN]
Close    == {"Off", "V1", "V2"}
Shutdown == {"Off", "On"}
NotLive  == {"unused", "finalized"}     \* of a sqlite3_stmt handle

ASSUME NoneAssumption == None \notin Db \cup Conn \cup Handle \cup Call
ASSUME GoneAssumption == Gone \notin Db \cup {None}
ASSUME LiveAssumption == NotLive \cap Conn = {}

VARIABLES
    file,        \* does the database file exist?
    call,        \* per Database, the call that is constructing it
    existed,     \* what exists() has returned in that call, FALSE if not asked
    db,          \* Database::db, or None: there is no object
    close,       \* Database::close
    shutdown,    \* Database::shutdown
    conn,        \* each sqlite3 handle: "unused", "open", "zombie" or "closed"
    built,       \* is there a Statement object?
    stmt,        \* Statement::statement, None if it is not prepared
    stmtDb,      \* Statement::db
    on,          \* per sqlite3_stmt: its connection, "unused" or "finalized"
    \* History, read by the properties only.
    raced,       \* has somebody else made or deleted the file during the call?
    moved,       \* has the program moved an object?
    lost         \* connections that no destructor will close: their Database
                 \* was never made, or left them with policy Off, or with V1
                 \* while a Statement was prepared on them

openVars == <<file, call, existed, raced>>
dbVars   == <<db, close, shutdown>>
stmtVars == <<built, stmt, stmtDb, on>>
vars     == <<openVars, dbVars, conn, stmtVars, moved, lost>>

Init ==
    /\ file \in BOOLEAN
    /\ call = [d \in Db |-> None] /\ existed = [d \in Db |-> FALSE]
    /\ db = [d \in Db |-> None]
    /\ close = [d \in Db |-> "V1"] /\ shutdown = [d \in Db |-> "On"]
    /\ conn = [c \in Conn |-> "unused"]
    /\ built = [s \in Stmt |-> FALSE]
    /\ stmt = [s \in Stmt |-> None] /\ stmtDb = [s \in Stmt |-> None]
    /\ on = [h \in Handle |-> "unused"]
    /\ raced = [d \in Db |-> FALSE]
    /\ moved = FALSE /\ lost = {}

-----------------------------------------------------------------------------
(* Opening a file.                                                         *)

\* SQLITE_OPEN_CREATE.
Creates(k) == k.method \in {"create", "openOrCreate"}

\* create() and open() do not look for the file of a database in memory.
Looks(k) == k.method = "openOrCreate" \/ ~k.memory

\* Otherwise the methods throw a CppqlError before they change anything.
MayCall(k) ==
    Looks(k) => /\ k.method = "create" => ~file
                /\ k.method = "open" => file

\* The static methods look for the file first.
LookForFile(d, k) ==
    /\ db[d] = None /\ call[d] = None
    /\ MayCall(k)
    /\ call' = [call EXCEPT ![d] = k]
    /\ existed' = [existed EXCEPT ![d] = Looks(k) /\ file]
    /\ UNCHANGED <<file, raced, dbVars, conn, stmtVars, moved, lost>>

\* Asks for the file after SQLite has opened it.
Created_Late(d) == FALSE

\* What the program is told: create() promises a new file, openOrCreate()
\* returns whether the file was new.
Created(d) == ~existed[d]

\* What exists() has returned stays for the next call.
CallEnds_Keeps(d) ==
    /\ call' = [call EXCEPT ![d] = None]
    /\ raced' = [e \in Db |-> e # d /\ call[e] # None /\ (raced[e] \/ file' # file)]
    /\ UNCHANGED existed

\* The call for d ends, and those of other objects may find the file changed.
CallEnds(d) ==
    /\ call' = [call EXCEPT ![d] = None]
    /\ existed' = [existed EXCEPT ![d] = FALSE]
    /\ raced' = [e \in Db |-> e # d /\ call[e] # None /\ (raced[e] \/ file' # file)]

ConnectTo(c) == conn[c] = "unused" /\ conn' = [conn EXCEPT ![c] = "open"]

\* sqlite3_open_v2 opens the file and the constructor of Database reads its
\* tables.
Open(d) ==
    /\ call[d] # None
    /\ file \/ Creates(call[d]) \/ call[d].memory
    /\ file' = (file \/ ~call[d].memory)
    /\ CallEnds(d)
    /\ \E c \in Conn : ConnectTo(c) /\ db' = [db EXCEPT ![d] = c]
    /\ UNCHANGED <<close, shutdown, stmtVars, moved, lost>>

\* sqlite3_open_v2 fails, or initializeTables throws in the constructor:
\* nobody closes the handle.
OpenThrows(d) ==
    /\ call[d] # None
    /\ file' \in {file, file \/ (Creates(call[d]) /\ ~call[d].memory)}
    /\ CallEnds(d)
    /\ \E c \in Conn : ConnectTo(c) /\ lost' = lost \cup {c}
    /\ UNCHANGED <<dbVars, stmtVars, moved>>

OthersChangeFile ==
    /\ file' = ~file
    /\ raced' = [d \in Db |-> call[d] # None]
    /\ UNCHANGED <<call, existed, dbVars, conn, stmtVars, moved, lost>>

SetClose(d, v) ==
    /\ db[d] # None
    /\ close' = [close EXCEPT ![d] = v]
    /\ UNCHANGED <<openVars, db, shutdown, conn, stmtVars, moved, lost>>

SetShutdown(d, v) ==
    /\ db[d] # None
    /\ shutdown' = [shutdown EXCEPT ![d] = v]
    /\ UNCHANGED <<openVars, db, close, conn, stmtVars, moved, lost>>

-----------------------------------------------------------------------------
(* Statements.                                                             *)

LiveOn(c) == {h \in Handle : on[h] = c}

\* The constructor of Statement, called by createStatement.
Construct(s, d) ==
    /\ ~built[s] /\ db[d] # None
    /\ built' = [built EXCEPT ![s] = TRUE]
    /\ stmtDb' = [stmtDb EXCEPT ![s] = d]
    /\ UNCHANGED <<openVars, dbVars, conn, stmt, on, moved, lost>>

\* Takes a new handle although there is one.
Prepare_Again(s) ==
    /\ built[s] /\ stmtDb[s] \in Db
    /\ conn[db[stmtDb[s]]] = "open"
    /\ \E h \in Handle :
        /\ on[h] = "unused"
        /\ on' = [on EXCEPT ![h] = db[stmtDb[s]]]
        /\ stmt' = [stmt EXCEPT ![s] = h]
    /\ UNCHANGED <<openVars, dbVars, conn, built, stmtDb, moved, lost>>

\* prepare() refuses a statement that is prepared; after a failure it may be
\* called again.
Prepare(s) ==
    /\ built[s] /\ stmt[s] = None /\ stmtDb[s] \in Db
    /\ conn[db[stmtDb[s]]] = "open"
    /\ \E h \in Handle :
        /\ on[h] = "unused"
        /\ on' = [on EXCEPT ![h] = db[stmtDb[s]]]
        /\ stmt' = [stmt EXCEPT ![s] = h]
    /\ UNCHANGED <<openVars, dbVars, conn, built, stmtDb, moved, lost>>

\* sqlite3_finalize; the last statement of a connection that
\* sqlite3_close_v2 has left to its statements takes it along.
FinalizeStmt(h) ==
    /\ on' = [on EXCEPT ![h] = "finalized"]
    /\ conn' = [c \in Conn |-> IF conn[c] = "zombie" /\ LiveOn(c) = {h} THEN "closed"
                               ELSE conn[c]]

DestroyStatement(s) ==
    /\ built[s]
    /\ built' = [built EXCEPT ![s] = FALSE]
    /\ stmt' = [stmt EXCEPT ![s] = None]
    /\ stmtDb' = [stmtDb EXCEPT ![s] = None]
    /\ IF stmt[s] # None THEN FinalizeStmt(stmt[s]) ELSE UNCHANGED <<on, conn>>
    /\ UNCHANGED <<openVars, dbVars, moved, lost>>

\* Constructs s from a moved t, or assigns a moved t to s: both hold the
\* handle of t afterwards, and nobody the one that s had.
MoveStatement(s, t) ==
    /\ s # t /\ built[t]
    /\ built' = [built EXCEPT ![s] = TRUE]
    /\ stmt' = [stmt EXCEPT ![s] = stmt[t]]
    /\ stmtDb' = [stmtDb EXCEPT ![s] = stmtDb[t]]
    /\ moved' = TRUE
    /\ UNCHANGED <<openVars, dbVars, conn, on, lost>>

-----------------------------------------------------------------------------
(* Closing.                                                                *)

\* Calls sqlite3_close for both policies.
CloseHandle_V1Only(c, v) ==
    conn' = [conn EXCEPT ![c] =
               IF v # "Off" /\ LiveOn(c) = {} THEN "closed" ELSE conn[c]]

\* sqlite3_close refuses while there are statements, sqlite3_close_v2 leaves
\* the connection to them.
CloseHandle(c, v) ==
    conn' = [conn EXCEPT ![c] =
               CASE v = "Off" -> conn[c]
                 [] v = "V1"  -> IF LiveOn(c) = {} THEN "closed" ELSE conn[c]
                 [] v = "V2"  -> IF LiveOn(c) = {} THEN "closed" ELSE "zombie"]

\* Is a Statement object of d prepared?
InUse(d) == \E s \in Stmt : stmtDb[s] = d /\ stmt[s] # None

\* The destructor; its object is None from then on, in its initial state.
DestroyDatabase(d) ==
    /\ db[d] # None
    /\ db' = [db EXCEPT ![d] = None]
    /\ close' = [close EXCEPT ![d] = "V1"]
    /\ shutdown' = [shutdown EXCEPT ![d] = "On"]
    /\ CloseHandle(db[d], close[d])
    /\ stmtDb' = [s \in Stmt |-> IF stmtDb[s] = d THEN Gone ELSE stmtDb[s]]
    /\ lost' = IF close[d] = "Off" \/ (close[d] = "V1" /\ InUse(d)) THEN lost \cup {db[d]}
                                                                 ELSE lost
    /\ UNCHANGED <<openVars, built, stmt, on, moved>>

\* Constructs d from a moved e, or assigns a moved e to d.
MoveDatabase(d, e) ==
    /\ d # e /\ db[e] # None /\ call[d] = None
    /\ db' = [db EXCEPT ![d] = db[e]]
    /\ close' = [close EXCEPT ![d] = close[e]]
    /\ shutdown' = [shutdown EXCEPT ![d] = shutdown[e]]
    /\ moved' = TRUE
    /\ UNCHANGED <<openVars, conn, stmtVars, lost>>

Next ==
    \/ \E d \in Db :
        \/ \E k \in Call : LookForFile(d, k)
        \/ Open(d)
        \/ OpenThrows(d)
        \/ \E v \in Close : SetClose(d, v)
        \/ \E v \in Shutdown : SetShutdown(d, v)
        \/ DestroyDatabase(d)
        \/ \E e \in Db : MoveDatabase(d, e)
    \/ OthersChangeFile
    \/ \E s \in Stmt :
        \/ \E d \in Db : Construct(s, d)
        \/ Prepare(s)
        \/ DestroyStatement(s)
        \/ \E t \in Stmt : MoveStatement(s, t)

Spec == Init /\ [][Next]_vars

-----------------------------------------------------------------------------
(* Properties.                                                             *)

\* Objects, pointers and handles are what their declarations say, and a
\* Database that no static method is constructing has no outcome of exists().
TypeOK ==
    /\ file \in BOOLEAN
    /\ call \in [Db -> Call \cup {None}]
    /\ existed \in [Db -> BOOLEAN]
    /\ \A d \in Db : call[d] = None => ~existed[d] /\ ~raced[d]
    /\ db \in [Db -> Conn \cup {None}]
    /\ close \in [Db -> Close]
    /\ shutdown \in [Db -> Shutdown]
    /\ conn \in [Conn -> {"unused", "open", "zombie", "closed"}]
    /\ built \in [Stmt -> BOOLEAN]
    /\ stmt \in [Stmt -> Handle \cup {None}]
    /\ stmtDb \in [Stmt -> Db \cup {None, Gone}]
    /\ on \in [Handle -> Conn \cup NotLive]
    /\ raced \in [Db -> BOOLEAN]
    /\ moved \in BOOLEAN
    /\ lost \in SUBSET Conn

\* Every Statement and every Database is the only owner of a handle that was
\* not released, so that its destructor releases it once and no call uses it
\* after that; a statement that was not finalized has such an owner.  This is
\* so until the program moves an object.
OneOwner ==
    ~moved =>
        /\ \A s \in Stmt : stmt[s] # None =>
             /\ built[s] /\ on[stmt[s]] \in Conn
             /\ \A t \in Stmt \ {s} : stmt[t] # stmt[s]
        /\ \A h \in Handle : on[h] \in Conn => \E s \in Stmt : stmt[s] = h
        /\ \A d \in Db : db[d] # None =>
             /\ conn[db[d]] = "open"
             /\ \A e \in Db \ {d} : db[e] # db[d]

\* There is a Database, or a Statement after a sqlite3_close_v2, whose
\* destructor closes connection c.
HasCloser(c) ==
    \/ \E d \in Db : db[d] = c
    \/ conn[c] = "zombie" /\ \E s \in Stmt : stmt[s] # None /\ on[stmt[s]] = c

\* Every connection is closed in the end: as long as it is not, there is an
\* object whose destructor will close it, its Database or, once that is gone
\* with policy V2, a Statement that is prepared on it.  This holds for several
\* Databases and statements that are destroyed in any order, except for the
\* connections that the code gives up (lost): the constructor of the Database
\* threw, its policy was Off, or it was V1 and a Statement outlived it.
NothingElseLost ==
    ~moved =>
        \A c \in Conn : conn[c] \in {"open", "zombie"} => c \in lost \/ HasCloser(c)

\* create() opens a file that is there, or openOrCreate() is wrong about
\* whether it made the file, only if somebody else makes or deletes it between
\* exists() and sqlite3_open_v2.  A database in memory has no file.
CreatedAsTold ==
    [][\A d \in Db : call[d] # None /\ db'[d] # None =>
         call[d].memory \/ raced[d] \/ Created(d) = ~file]_vars
=============================================================================
