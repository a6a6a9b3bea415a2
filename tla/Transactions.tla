---------------------------- MODULE Transactions ----------------------------
(***************************************************************************)
(* sql::Transaction objects on several connections to one database file.   *)
(*                                                                         *)
(* Each connection belongs to a process of its own that holds one          *)
(* sql::Database.  A step of a process is one call of the library: cppql   *)
(* runs each of them as one sqlite3_step (BEGIN, COMMIT, ROLLBACK, INSERT) *)
(* or as one step of a SelectStatement iterator.                           *)
(*                                                                         *)
(* What SQLite does (autocommit flag, file locks of the rollback journal,  *)
(* automatic rollback, hot journal) is external and is modelled as far as  *)
(* the library's calls can observe it.  The data is abstracted to the set  *)
(* of changes that write statements have made.                             *)
(*                                                                         *)
(* A definition Name_Fault is Name with one fault put in; no action uses   *)
(* it.  It shows that a property depends on Name.                          *)
(***************************************************************************)
EXTENDS Naturals

CONSTANTS Conn,      \* connections, one process each
          Txn,       \* sql::Transaction objects
          Change,    \* effects of write statements
          NoConn,    \* Transaction::database of an object that does not exist
          Nesting    \* may a process construct a Transaction while another
                     \* one on its connection is neither committed nor rolled back?

ASSUME NoConnAssumption == NoConn \notin Conn
ASSUME NestingAssumption == Nesting \in BOOLEAN

VARIABLES
    \* The system.
    file,        \* changes in the database file
    up,          \* is the Database object of the connection alive?
    sqlTx,       \* is SQLite out of autocommit mode on the connection?
    pending,     \* changes of the open SQLite transaction
    lock,        \* file lock that the connection holds
    cursor,      \* is a SelectStatement of the connection between two rows?
    conn,        \* Transaction::database
    committed,   \* Transaction::committed
    \* History, read by the properties only.
    writes,      \* changes acknowledged while this object was unfinished
    promised,    \* changes that the program was told are in the file
    discarded,   \* changes that the program was told are not in the file
    stuck,       \* did a commit() throw and leave the SQLite transaction open?
    terminated,  \* did an exception leave ~Transaction and end the process?
    committer    \* the connection that changed the file last

dbVars  == <<file, up, sqlTx, pending, lock, cursor>>
objVars == <<conn, committed>>
history == <<writes, promised, discarded, stuck, terminated, committer>>
vars    == <<dbVars, objVars, history>>

-----------------------------------------------------------------------------
(* SQLite's file locks.                                                    *)

Unlocked  == 0
Shared    == 1
Reserved  == 2
Pending   == 3
Exclusive == 4
Locks     == Unlocked .. Exclusive

Others(c) == Conn \ {c}

AtLeast_Adds(c, l) == lock[c] + l

AtLeast(c, l) == IF lock[c] < l THEN l ELSE lock[c]

\* Can connection c hold a SHARED, RESERVED or EXCLUSIVE lock now?
CanShare(c)   == lock[c] >= Shared \/ \A d \in Others(c) : lock[d] < Pending
CanReserve(c) == CanShare(c) /\ \A d \in Others(c) : lock[d] < Reserved
CanExclude(c) == \A d \in Others(c) : lock[d] = Unlocked

\* The lock that stays with a connection that has no SQLite transaction.
IdleLock(c) == IF cursor[c] THEN Shared ELSE Unlocked

\* The SQLite transaction of c is over, without its changes unless a
\* conjunct next to this one puts them into the file.
EndSqlTx(c) ==
    /\ sqlTx'   = [sqlTx EXCEPT ![c] = FALSE]
    /\ pending' = [pending EXCEPT ![c] = {}]
    /\ lock'    = [lock EXCEPT ![c] = IdleLock(c)]
    /\ stuck'   = [stuck EXCEPT ![c] = FALSE]

-----------------------------------------------------------------------------
(* Transaction objects.                                                    *)

Exists(t)     == conn[t] # NoConn
Unfinished(t) == Exists(t) /\ ~committed[t]

UnfinishedOn(c) == {t \in Txn : conn[t] = c /\ ~committed[t]}

Init ==
    /\ file = {}
    /\ up = [c \in Conn |-> TRUE]
    /\ sqlTx = [c \in Conn |-> FALSE]
    /\ pending = [c \in Conn |-> {}]
    /\ lock = [c \in Conn |-> Unlocked]
    /\ cursor = [c \in Conn |-> FALSE]
    /\ conn = [t \in Txn |-> NoConn]
    /\ committed = [t \in Txn |-> FALSE]
    /\ writes = [t \in Txn |-> {}]
    /\ promised = {}
    /\ discarded = {}
    /\ stuck = [c \in Conn |-> FALSE]
    /\ terminated = [c \in Conn |-> FALSE]
    /\ committer = NoConn

\* BEGIN takes no lock when deferred, RESERVED when immediate and EXCLUSIVE
\* when exclusive.
BeginLock == [Deferred |-> Unlocked, Immediate |-> Reserved, Exclusive |-> Exclusive]
Type == DOMAIN BeginLock

CanBegin(c, type) ==
    /\ ~sqlTx[c]
    /\ type # "Deferred" => CanReserve(c)
    /\ type = "Exclusive" => CanExclude(c)

\* The constructor does not look at what BEGIN returned.
Begin_Unchecked(c, t, type) ==
    /\ up[c]
    /\ ~Exists(t)
    /\ Nesting \/ UnfinishedOn(c) = {}
    /\ sqlTx' = [sqlTx EXCEPT ![c] = @ \/ CanBegin(c, type)]
    /\ lock' = [lock EXCEPT ![c] = IF CanBegin(c, type) THEN AtLeast(c, BeginLock[type]) ELSE @]
    /\ conn' = [conn EXCEPT ![t] = c]
    /\ committed' = [committed EXCEPT ![t] = FALSE]
    /\ UNCHANGED <<file, up, pending, cursor, history>>

\* Database::beginTransaction.
Begin(c, t, type) ==
    /\ up[c]
    /\ ~Exists(t)
    /\ Nesting \/ UnfinishedOn(c) = {}
    /\ CanBegin(c, type)
    /\ sqlTx' = [sqlTx EXCEPT ![c] = TRUE]
    /\ lock' = [lock EXCEPT ![c] = AtLeast(c, BeginLock[type])]
    /\ conn' = [conn EXCEPT ![t] = c]
    /\ committed' = [committed EXCEPT ![t] = FALSE]
    /\ UNCHANGED <<file, up, pending, cursor, history>>

\* BEGIN fails: the constructor throws and there is no object.
BeginThrows(c, type) ==
    /\ up[c]
    /\ ~CanBegin(c, type)
    /\ UNCHANGED vars

-----------------------------------------------------------------------------
(* Transaction::commit.  The object counts as committed from the first     *)
(* assignment on, whatever COMMIT returns.                                 *)

\* The check of what the step returned is the wrong way round.
CommitSucceeds_Throws(c, t) ==
    /\ sqlTx[c]
    /\ pending[c] # {} => CanExclude(c)
    /\ file' = file \cup pending[c]
    /\ EndSqlTx(c)
    /\ discarded' = discarded \cup writes[t]
    /\ committer' = IF pending[c] = {} THEN committer ELSE c
    /\ UNCHANGED promised

CommitSucceeds(c, t) ==
    /\ sqlTx[c]
    /\ pending[c] # {} => CanExclude(c)
    /\ file' = file \cup pending[c]
    /\ EndSqlTx(c)
    /\ promised' = promised \cup writes[t]
    /\ committer' = IF pending[c] = {} THEN committer ELSE c
    /\ UNCHANGED discarded

\* Nobody checks what the step returned.
CommitBusy_Unchecked(c, t) ==
    /\ sqlTx[c]
    /\ pending[c] # {} /\ ~CanExclude(c)
    /\ lock' = [lock EXCEPT ![c] = AtLeast(c, Pending)]
    /\ stuck' = [stuck EXCEPT ![c] = TRUE]
    /\ promised' = promised \cup writes[t]
    /\ UNCHANGED <<file, sqlTx, pending, discarded, committer>>

\* Another connection holds a lock: SQLITE_BUSY.  The SQLite transaction
\* stays open and keeps the PENDING lock it got on the way to EXCLUSIVE.
CommitBusy(c, t) ==
    /\ sqlTx[c]
    /\ pending[c] # {} /\ ~CanExclude(c)
    /\ lock' = [lock EXCEPT ![c] = AtLeast(c, Pending)]
    /\ stuck' = [stuck EXCEPT ![c] = TRUE]
    /\ discarded' = discarded \cup writes[t]
    /\ UNCHANGED <<file, sqlTx, pending, promised, committer>>

\* A deferred foreign key is violated: SQLITE_CONSTRAINT, transaction open.
CommitViolatesKey(c, t) ==
    /\ sqlTx[c]
    /\ pending[c] # {}
    /\ stuck' = [stuck EXCEPT ![c] = TRUE]
    /\ discarded' = discarded \cup writes[t]
    /\ UNCHANGED <<file, sqlTx, pending, lock, promised, committer>>

\* SQLITE_FULL, SQLITE_IOERR or SQLITE_NOMEM: SQLite rolls back.
CommitRolledBack(c, t) ==
    /\ sqlTx[c]
    /\ pending[c] # {}
    /\ EndSqlTx(c)
    /\ discarded' = discarded \cup writes[t]
    /\ UNCHANGED <<file, promised, committer>>

\* SQLite has no open transaction any more: SQLITE_ERROR.
CommitWithoutTx(c) ==
    /\ ~sqlTx[c]
    /\ UNCHANGED <<file, sqlTx, pending, lock, promised, discarded, stuck, committer>>

Commit(t) ==
    /\ Unfinished(t)
    /\ committed' = [committed EXCEPT ![t] = TRUE]
    /\ writes' = [writes EXCEPT ![t] = {}]
    /\ \/ CommitSucceeds(conn[t], t)
       \/ CommitBusy(conn[t], t)
       \/ CommitViolatesKey(conn[t], t)
       \/ CommitRolledBack(conn[t], t)
       \/ CommitWithoutTx(conn[t])
    /\ UNCHANGED <<up, cursor, conn, terminated>>

-----------------------------------------------------------------------------
(* Transaction::rollback and the destructor.                               *)

\* ROLLBACK on connection c, for object t.
SqlRollback(c, t) ==
    /\ sqlTx[c]
    /\ EndSqlTx(c)
    /\ discarded' = discarded \cup writes[t]

Rollback(t) ==
    /\ Unfinished(t)
    /\ committed' = [committed EXCEPT ![t] = TRUE]
    /\ writes' = [writes EXCEPT ![t] = {}]
    /\ \/ SqlRollback(conn[t], t)
       \/ /\ ~sqlTx[conn[t]]          \* throws: no transaction is active
          /\ UNCHANGED <<sqlTx, pending, lock, stuck, discarded>>
    /\ UNCHANGED <<file, up, cursor, conn, promised, terminated, committer>>

Forget(t) ==
    /\ conn' = [conn EXCEPT ![t] = NoConn]
    /\ committed' = [committed EXCEPT ![t] = FALSE]
    /\ writes' = [writes EXCEPT ![t] = {}]

\* The process of c is gone with every object in it; the operating system
\* drops its file lock and the next reader rolls the hot journal back.
ProcessEnds(c) ==
    /\ up' = [up EXCEPT ![c] = FALSE]
    /\ sqlTx' = [sqlTx EXCEPT ![c] = FALSE]
    /\ pending' = [pending EXCEPT ![c] = {}]
    /\ lock' = [lock EXCEPT ![c] = Unlocked]
    /\ cursor' = [cursor EXCEPT ![c] = FALSE]
    /\ stuck' = [stuck EXCEPT ![c] = FALSE]
    /\ conn' = [t \in Txn |-> IF conn[t] = c THEN NoConn ELSE conn[t]]
    /\ committed' = [t \in Txn |-> IF conn[t] = c THEN FALSE ELSE committed[t]]
    /\ writes' = [t \in Txn |-> IF conn[t] = c THEN {} ELSE writes[t]]

\* ~Transaction of an object that was committed or rolled back.
DestroyFinished(t) ==
    /\ Exists(t) /\ committed[t]
    /\ Forget(t)
    /\ UNCHANGED <<dbVars, promised, discarded, stuck, terminated, committer>>

\* The destructor does nothing.
DestroyUnfinished_NoRollback(t) ==
    /\ Unfinished(t)
    /\ Forget(t)
    /\ UNCHANGED <<dbVars, promised, discarded, stuck, terminated, committer>>

\* ~Transaction rolls an unfinished object back.
DestroyUnfinished(t) ==
    /\ Unfinished(t)
    /\ SqlRollback(conn[t], t)
    /\ Forget(t)
    /\ UNCHANGED <<file, up, cursor, promised, terminated, committer>>

\* ~Transaction is noexcept and rollback() throws: std::terminate.
DestroyTerminates(t) ==
    /\ Unfinished(t)
    /\ ~sqlTx[conn[t]]
    /\ ProcessEnds(conn[t])
    /\ terminated' = [terminated EXCEPT ![conn[t]] = TRUE]
    /\ UNCHANGED <<file, promised, discarded, committer>>

Destroy(t) == DestroyFinished(t) \/ DestroyUnfinished(t) \/ DestroyTerminates(t)

-----------------------------------------------------------------------------
(* Write statements (InsertStatement::operator() and its siblings).        *)

View(c) == file \cup pending[c]

\* The program has seen x succeed while these objects were unfinished.
Credit(c, x) ==
    writes' = [t \in Txn |-> IF t \in UnfinishedOn(c) THEN writes[t] \cup {x}
                                                       ELSE writes[t]]

\* Inside a SQLite transaction: the change waits for COMMIT.
WriteInTx(c, x) ==
    /\ up[c] /\ sqlTx[c]
    /\ CanReserve(c)
    /\ x \notin View(c)
    /\ pending' = [pending EXCEPT ![c] = @ \cup {x}]
    /\ lock' = [lock EXCEPT ![c] = AtLeast(c, Reserved)]
    /\ discarded' = discarded \ {x}
    /\ Credit(c, x)
    /\ UNCHANGED <<file, up, sqlTx, cursor, objVars, promised, stuck, terminated, committer>>

\* In autocommit mode: the statement is its own transaction.
WriteThrough(c, x) ==
    /\ up[c] /\ ~sqlTx[c]
    /\ CanReserve(c) /\ CanExclude(c)
    /\ x \notin View(c)
    /\ file' = file \cup {x}
    /\ discarded' = discarded \ {x}
    /\ promised' = promised \cup (IF UnfinishedOn(c) = {} THEN {x} ELSE {})
    /\ committer' = c
    /\ Credit(c, x)
    /\ UNCHANGED <<up, sqlTx, pending, lock, cursor, objVars, stuck, terminated>>

\* A constraint is violated: with ABORT or FAIL the statement throws, with
\* IGNORE it returns; either way the SQLite transaction goes on.
WriteConflict(c, x) ==
    /\ up[c]
    /\ CanReserve(c)
    /\ x \in View(c)
    /\ lock' = [lock EXCEPT ![c] = IF sqlTx[c] THEN AtLeast(c, Reserved) ELSE @]
    /\ UNCHANGED <<file, up, sqlTx, pending, cursor, objVars, history>>

\* ROLLBACK as the conflict clause, SQLITE_FULL, SQLITE_IOERR, SQLITE_NOMEM:
\* the statement throws and SQLite has rolled the whole transaction back.
WriteRollsBack(c) ==
    /\ up[c] /\ sqlTx[c]
    /\ CanReserve(c)
    /\ EndSqlTx(c)
    /\ writes' = [t \in Txn |-> IF t \in UnfinishedOn(c) THEN {} ELSE writes[t]]
    /\ discarded' = discarded \cup UNION {writes[t] : t \in UnfinishedOn(c)}
    /\ UNCHANGED <<file, up, cursor, objVars, promised, terminated, committer>>

\* A lock is missing: SQLITE_BUSY, the statement throws and changes nothing.
WriteBusy(c) ==
    /\ up[c]
    /\ ~CanReserve(c) \/ (~sqlTx[c] /\ ~CanExclude(c))
    /\ UNCHANGED vars

-----------------------------------------------------------------------------
(* SelectStatement: between begin() and the step that returns SQLITE_DONE  *)
(* (or an explicit reset()) the connection keeps a SHARED lock.            *)

\* The statement is reset as soon as a row has been read.
SelectBegins_Resets(c) ==
    /\ up[c] /\ ~cursor[c]
    /\ CanShare(c)
    /\ cursor' = [cursor EXCEPT ![c] = TRUE]
    /\ UNCHANGED <<file, up, sqlTx, pending, lock, objVars, history>>

SelectBegins(c) ==
    /\ up[c] /\ ~cursor[c]
    /\ CanShare(c)
    /\ cursor' = [cursor EXCEPT ![c] = TRUE]
    /\ lock' = [lock EXCEPT ![c] = AtLeast(c, Shared)]
    /\ UNCHANGED <<file, up, sqlTx, pending, objVars, history>>

\* The lock is missing: SQLITE_BUSY, begin() throws after a reset.
SelectBusy(c) ==
    /\ up[c] /\ ~cursor[c]
    /\ ~CanShare(c)
    /\ UNCHANGED vars

SelectEnds(c) ==
    /\ up[c] /\ cursor[c]
    /\ cursor' = [cursor EXCEPT ![c] = FALSE]
    /\ lock' = [lock EXCEPT ![c] = IF sqlTx[c] THEN @ ELSE Unlocked]
    /\ UNCHANGED <<file, up, sqlTx, pending, objVars, history>>

-----------------------------------------------------------------------------
(* ~Database, a crash and Database::open.                                  *)

\* The Transaction objects and statements of the connection are destroyed
\* first; sqlite3_close rolls back what is still open.
CloseDatabase(c) ==
    /\ up[c] /\ ~cursor[c]
    /\ \A t \in Txn : conn[t] # c
    /\ ProcessEnds(c)
    /\ UNCHANGED <<file, promised, discarded, terminated, committer>>

Crash(c) ==
    /\ up[c]
    /\ ProcessEnds(c)
    /\ UNCHANGED <<file, promised, discarded, terminated, committer>>

\* COMMIT takes effect change by change.
CrashInCommit_Torn(t) ==
    /\ Unfinished(t)
    /\ LET c == conn[t] IN
       /\ sqlTx[c] /\ pending[c] # {}
       /\ CanExclude(c)
       /\ \E part \in SUBSET pending[c] : file' = file \cup part
       /\ ProcessEnds(c)
       /\ committer' = c
    /\ UNCHANGED <<promised, discarded, terminated>>

\* The process dies after COMMIT took effect and before commit() returned.
CrashInCommit(t) ==
    /\ Unfinished(t)
    /\ LET c == conn[t] IN
       /\ sqlTx[c] /\ pending[c] # {}
       /\ CanExclude(c)
       /\ file' = file \cup pending[c]
       /\ ProcessEnds(c)
       /\ committer' = c
    /\ UNCHANGED <<promised, discarded, terminated>>

OpenDatabase(c) ==
    /\ ~up[c]
    /\ up' = [up EXCEPT ![c] = TRUE]
    /\ terminated' = [terminated EXCEPT ![c] = FALSE]
    /\ UNCHANGED <<file, sqlTx, pending, lock, cursor, objVars, writes, promised,
                   discarded, stuck, committer>>

-----------------------------------------------------------------------------
TransactionCall(t) ==
    \/ Commit(t)
    \/ Rollback(t)
    \/ Destroy(t)
    \/ CrashInCommit(t)
    \/ \E c \in Conn, type \in Type : Begin(c, t, type)

WriteCall(c) ==
    \/ WriteRollsBack(c)
    \/ WriteBusy(c)
    \/ \E x \in Change : WriteInTx(c, x) \/ WriteThrough(c, x) \/ WriteConflict(c, x)

DatabaseCall(c) ==
    \/ \E type \in Type : BeginThrows(c, type)
    \/ SelectBegins(c)
    \/ SelectBusy(c)
    \/ SelectEnds(c)
    \/ CloseDatabase(c)
    \/ Crash(c)
    \/ OpenDatabase(c)

Next == \/ \E t \in Txn : TransactionCall(t)
        \/ \E c \in Conn : WriteCall(c) \/ DatabaseCall(c)

Spec == Init /\ [][Next]_vars

\* C++ destroys a Transaction at the end of its scope: a process that keeps
\* running leaves every scope it has entered.
Fairness == \A t \in Txn : WF_vars(Destroy(t))

FairSpec == Spec /\ Fairness

-----------------------------------------------------------------------------
(* Properties.                                                             *)

TypeOK ==
    /\ file \in SUBSET Change
    /\ up \in [Conn -> BOOLEAN]
    /\ sqlTx \in [Conn -> BOOLEAN]
    /\ pending \in [Conn -> SUBSET Change]
    /\ lock \in [Conn -> Locks]
    /\ cursor \in [Conn -> BOOLEAN]
    /\ conn \in [Txn -> Conn \cup {NoConn}]
    /\ committed \in [Txn -> BOOLEAN]
    /\ writes \in [Txn -> SUBSET Change]
    /\ promised \in SUBSET Change
    /\ discarded \in SUBSET Change
    /\ stuck \in [Conn -> BOOLEAN]
    /\ terminated \in [Conn -> BOOLEAN]
    /\ committer \in Conn \cup {NoConn}

\* An open SQLite transaction always belongs to somebody: to a Transaction
\* object that can still commit it or roll it back (transaction.cpp, commit,
\* rollback and the destructor), unless a commit() on it has thrown.
OpenTxIsOwned ==
    \A c \in Conn : sqlTx[c] => stuck[c] \/ UnfinishedOn(c) # {}

\* What a commit() that returned has written, and what a write statement that
\* returned outside of every Transaction has written (on a connection that no
\* failed commit() has left inside one), is in the file and survives every
\* later failure, rollback, termination and crash of any process.
Durability == promised \subseteq file

\* What rollback(), ~Transaction, a commit() that threw or an automatic
\* rollback has thrown away is never in the file unless it is written again.
RolledBackStaysOut == discarded \cap file = {}

\* A program that iterates over a SelectStatement sees no change of another
\* connection between two rows, however the iteration interleaves with
\* transactions and crashes there.
RepeatableRead ==
    [][\A c \in Conn : cursor[c] /\ cursor'[c] /\ file' # file => committer' = c]_vars

\* After a commit() that threw and left its SQLite transaction open, nothing
\* that the connection writes reaches the file: what looks like an autocommitted
\* write (insert_statement.h, InsertStatement::operator()) only joins the
\* abandoned transaction, and no later Transaction of the connection gets it or
\* the rest of that transaction into the file.  This is about programs with one
\* unfinished Transaction per connection (Nesting = FALSE): an older object that
\* is still unfinished after an automatic rollback can commit them.
StuckReachesNothing ==
    [][\A c \in Conn : stuck[c] /\ file' # file => committer' # c]_vars

\* The file changes by whole transactions, one at a time.
Store == INSTANCE AtomicStore WITH store <- file, tx <- pending
ImplementsStore == Store!Spec

\* The scope of a Transaction ends its SQLite transaction: no connection keeps
\* one open for ever unless a commit() on it has thrown.
TransactionEnds == \A c \in Conn : sqlTx[c] ~> ~sqlTx[c] \/ stuck[c]

-----------------------------------------------------------------------------
(* What makes the properties inductive (see TransactionsProofs).           *)

\* Uncommitted changes are behind a RESERVED lock, which one connection at a
\* time holds; a cursor keeps at least a SHARED lock; a process that is not
\* there holds nothing.
LockInv ==
    \A c \in Conn :
        /\ pending[c] # {} => lock[c] >= Reserved
        /\ lock[c] >= Reserved => sqlTx[c]
        /\ lock[c] >= Reserved => \A d \in Others(c) : lock[d] < Reserved
        /\ cursor[c] => lock[c] >= Shared
        /\ ~up[c] => ~sqlTx[c] /\ ~cursor[c] /\ lock[c] = Unlocked

\* Only an unfinished object of a living process has changes to its credit.
ObjectInv ==
    \A t \in Txn :
        /\ writes[t] # {} => Unfinished(t)
        /\ committed[t] => Exists(t)
        /\ Exists(t) => up[conn[t]]

\* With one unfinished object per connection: what it has to its credit is what
\* its SQLite transaction will commit or drop, a connection that a failed
\* commit() left in a transaction has no unfinished object, and changes that
\* are still pending are neither in the file nor, but for such a connection,
\* known to be dropped.
AccountInv ==
    /\ \A t, u \in Txn : Unfinished(t) /\ Unfinished(u) /\ conn[t] = conn[u] => t = u
    /\ \A c \in Conn :
        /\ stuck[c] => sqlTx[c] /\ UnfinishedOn(c) = {}
        /\ sqlTx[c] => \A t \in UnfinishedOn(c) : writes[t] \subseteq pending[c]
        /\ ~stuck[c] => pending[c] \cap discarded = {}
        /\ pending[c] \cap file = {}

-----------------------------------------------------------------------------
(* What a reader of the code expects and the code does not keep.           *)

\* No exception leaves the destructor that transaction.h declares noexcept.
DestructorReturns == \A c \in Conn : ~terminated[c]

\* Once every Transaction of a connection is out of scope, the connection is
\* in autocommit mode again.
ScopeExitEndsTransaction ==
    \A c \in Conn : (\A t \in Txn : conn[t] # c) => ~sqlTx[c]
=============================================================================
