-------------------------- MODULE TransactionsProofs --------------------------
(***************************************************************************)
(* What Transactions keeps for every set of connections, objects and       *)
(* changes: its locks, the steps of the file and what a program was told.  *)
(***************************************************************************)
EXTENDS Transactions, TLAPS

USE DEF Unlocked, Shared, Reserved, Pending, Exclusive

LEMMA BeginLockType == \A type \in Type : BeginLock[type] \in Locks
  BY DEF BeginLock, Type, Locks

LEMMA AtLeastType ==
    ASSUME TypeOK, NEW c \in Conn, NEW l \in Locks
    PROVE  AtLeast(c, l) \in Locks /\ AtLeast(c, l) >= lock[c] /\ AtLeast(c, l) >= l
  BY DEF TypeOK, AtLeast, Locks

LEMMA IdleLockType ==
    \A c \in Conn : IdleLock(c) \in Locks
  BY DEF IdleLock, Locks

-----------------------------------------------------------------------------
(* Types.                                                                  *)

LEMMA EndSqlTxType ==
    ASSUME TypeOK, NEW c \in Conn, EndSqlTx(c)
    PROVE  /\ sqlTx' \in [Conn -> BOOLEAN]
           /\ pending' \in [Conn -> SUBSET Change]
           /\ lock' \in [Conn -> Locks]
           /\ stuck' \in [Conn -> BOOLEAN]
  BY IdleLockType DEF TypeOK, EndSqlTx

LEMMA ProcessEndsType ==
    ASSUME TypeOK, NEW c \in Conn, ProcessEnds(c)
    PROVE  /\ up' \in [Conn -> BOOLEAN]
           /\ sqlTx' \in [Conn -> BOOLEAN]
           /\ pending' \in [Conn -> SUBSET Change]
           /\ lock' \in [Conn -> Locks]
           /\ cursor' \in [Conn -> BOOLEAN]
           /\ stuck' \in [Conn -> BOOLEAN]
           /\ conn' \in [Txn -> Conn \cup {NoConn}]
           /\ committed' \in [Txn -> BOOLEAN]
           /\ writes' \in [Txn -> SUBSET Change]
<1>1. /\ up' \in [Conn -> BOOLEAN]
      /\ sqlTx' \in [Conn -> BOOLEAN]
      /\ cursor' \in [Conn -> BOOLEAN]
      /\ stuck' \in [Conn -> BOOLEAN]
  BY DEF TypeOK, ProcessEnds
<1>2. pending' \in [Conn -> SUBSET Change] /\ lock' \in [Conn -> Locks]
  BY DEF TypeOK, ProcessEnds, Locks
<1>3. conn' \in [Txn -> Conn \cup {NoConn}]
  BY DEF TypeOK, ProcessEnds
<1>4. committed' \in [Txn -> BOOLEAN]
  BY DEF TypeOK, ProcessEnds
<1>5. writes' \in [Txn -> SUBSET Change]
  BY DEF TypeOK, ProcessEnds
<1> QED
  BY <1>1, <1>2, <1>3, <1>4, <1>5

LEMMA ForgetType ==
    ASSUME TypeOK, NEW t \in Txn, Forget(t)
    PROVE  /\ conn' \in [Txn -> Conn \cup {NoConn}]
           /\ committed' \in [Txn -> BOOLEAN]
           /\ writes' \in [Txn -> SUBSET Change]
  BY DEF TypeOK, Forget

\* Every step keeps the types.
LEMMA TypeStep == TypeOK /\ [Next]_vars => TypeOK'
<1> SUFFICES ASSUME TypeOK, [Next]_vars PROVE TypeOK'
  OBVIOUS
<1> USE DEF dbVars, objVars, history
<1>1. ASSUME NEW c \in Conn, NEW t \in Txn, NEW type \in Type, Begin(c, t, type)
      PROVE  TypeOK'
  BY <1>1, BeginLockType, AtLeastType DEF TypeOK, Begin
<1>2. ASSUME NEW t \in Txn, Commit(t)
      PROVE  TypeOK'
  <2> DEFINE c == conn[t]
  <2>1. c \in Conn
    BY <1>2 DEF TypeOK, Commit, Unfinished, Exists
  <2>2. writes' \in [Txn -> SUBSET Change] /\ committed' \in [Txn -> BOOLEAN]
    BY <1>2 DEF TypeOK, Commit
  <2>3. CASE CommitSucceeds(c, t)
    BY <1>2, <2>1, <2>2, <2>3, EndSqlTxType DEF TypeOK, Commit, CommitSucceeds
  <2>4. CASE CommitBusy(c, t)
    BY <1>2, <2>1, <2>2, <2>4, AtLeastType DEF TypeOK, Commit, CommitBusy, Locks
  <2>5. CASE CommitViolatesKey(c, t)
    BY <1>2, <2>1, <2>2, <2>5 DEF TypeOK, Commit, CommitViolatesKey
  <2>6. CASE CommitRolledBack(c, t)
    BY <1>2, <2>1, <2>2, <2>6, EndSqlTxType DEF TypeOK, Commit, CommitRolledBack
  <2>7. CASE CommitWithoutTx(c)
    BY <1>2, <2>1, <2>2, <2>7 DEF TypeOK, Commit, CommitWithoutTx
  <2> QED
    BY <1>2, <2>3, <2>4, <2>5, <2>6, <2>7 DEF Commit
<1>3. ASSUME NEW t \in Txn, Rollback(t)
      PROVE  TypeOK'
  <2>1. conn[t] \in Conn
    BY <1>3 DEF TypeOK, Rollback, Unfinished, Exists
  <2>2. CASE SqlRollback(conn[t], t)
    BY <1>3, <2>1, <2>2, EndSqlTxType DEF TypeOK, Rollback, SqlRollback
  <2>3. CASE ~sqlTx[conn[t]]
    BY <1>3, <2>1, <2>3 DEF TypeOK, Rollback, SqlRollback
  <2> QED
    BY <1>3, <2>2, <2>3 DEF Rollback
<1>4. ASSUME NEW t \in Txn, Destroy(t)
      PROVE  TypeOK'
  <2>1. CASE DestroyFinished(t)
    BY <2>1, ForgetType DEF TypeOK, DestroyFinished
  <2>2. CASE DestroyUnfinished(t)
    <3>1. conn[t] \in Conn
      BY <2>2 DEF TypeOK, DestroyUnfinished, Unfinished, Exists
    <3> QED
      BY <2>2, <3>1, ForgetType, EndSqlTxType DEF TypeOK, DestroyUnfinished, SqlRollback
  <2>3. CASE DestroyTerminates(t)
    <3>1. conn[t] \in Conn
      BY <2>3 DEF TypeOK, DestroyTerminates, Unfinished, Exists
    <3> QED
      BY <2>3, <3>1, ProcessEndsType DEF TypeOK, DestroyTerminates
  <2> QED
    BY <1>4, <2>1, <2>2, <2>3 DEF Destroy
<1>5. ASSUME NEW t \in Txn, CrashInCommit(t)
      PROVE  TypeOK'
  <2>1. conn[t] \in Conn
    BY <1>5 DEF TypeOK, CrashInCommit, Unfinished, Exists
  <2> QED
    BY <1>5, <2>1, ProcessEndsType DEF TypeOK, CrashInCommit
<1>6. ASSUME NEW c \in Conn, WriteRollsBack(c)
      PROVE  TypeOK'
  BY <1>6, EndSqlTxType DEF TypeOK, WriteRollsBack, UnfinishedOn
<1>7. ASSUME NEW c \in Conn, NEW x \in Change, WriteInTx(c, x)
      PROVE  TypeOK'
  BY <1>7, AtLeastType DEF TypeOK, WriteInTx, Credit, Locks
<1>8. ASSUME NEW c \in Conn, NEW x \in Change, WriteThrough(c, x)
      PROVE  TypeOK'
  BY <1>8 DEF TypeOK, WriteThrough, Credit
<1>9. ASSUME NEW c \in Conn, NEW x \in Change, WriteConflict(c, x)
      PROVE  TypeOK'
  BY <1>9, AtLeastType DEF TypeOK, WriteConflict, Locks
<1>10. ASSUME NEW c \in Conn, SelectBegins(c)
       PROVE  TypeOK'
  BY <1>10, AtLeastType DEF TypeOK, SelectBegins, Locks
<1>11. ASSUME NEW c \in Conn, SelectEnds(c)
       PROVE  TypeOK'
  BY <1>11 DEF TypeOK, SelectEnds, Locks
<1>12. ASSUME NEW c \in Conn, CloseDatabase(c) \/ Crash(c)
       PROVE  TypeOK'
  BY <1>12, ProcessEndsType DEF TypeOK, CloseDatabase, Crash
<1>13. ASSUME NEW c \in Conn, OpenDatabase(c)
       PROVE  TypeOK'
  BY <1>13 DEF TypeOK, OpenDatabase
<1>14. CASE UNCHANGED vars
  BY <1>14 DEF TypeOK, vars
<1> QED
  BY <1>1, <1>2, <1>3, <1>4, <1>5, <1>6, <1>7, <1>8, <1>9, <1>10, <1>11, <1>12, <1>13, <1>14
  DEF Next, TransactionCall, WriteCall, DatabaseCall, BeginThrows, WriteBusy, SelectBusy

\* The variables of Transactions keep their types: what the program sees is
\* never outside of the values listed in TypeOK.
THEOREM TypeCorrect == Spec => []TypeOK
<1>1. Init => TypeOK
  BY DEF Init, TypeOK, Locks
<1> QED
  BY <1>1, TypeStep, PTL DEF Spec

-----------------------------------------------------------------------------
(* Ownership.                                                              *)

LEMMA OwnedStep == TypeOK /\ OpenTxIsOwned /\ [Next]_vars => OpenTxIsOwned'
<1> SUFFICES ASSUME TypeOK, OpenTxIsOwned, [Next]_vars PROVE OpenTxIsOwned'
  OBVIOUS
<1> USE DEF dbVars, objVars, history
<1>1. ASSUME NEW c \in Conn, NEW t \in Txn, NEW type \in Type, Begin(c, t, type)
      PROVE  OpenTxIsOwned'
  BY <1>1, NoConnAssumption DEF TypeOK, OpenTxIsOwned, Begin, UnfinishedOn, Exists
\* A call on object t changes what its own connection has, and nothing else.
<1>2. ASSUME NEW t \in Txn, Unfinished(t),
             conn'[t] \in {conn[t], NoConn},
             \A u \in Txn \ {t} : conn'[u] = conn[u] /\ committed'[u] = committed[u],
             \A d \in Others(conn[t]) : sqlTx'[d] = sqlTx[d] /\ stuck'[d] = stuck[d],
             sqlTx'[conn[t]] => stuck'[conn[t]]
      PROVE  OpenTxIsOwned'
  BY <1>2, NoConnAssumption
  DEF TypeOK, OpenTxIsOwned, UnfinishedOn, Unfinished, Exists, Others
<1>3. ASSUME NEW t \in Txn, Commit(t)
      PROVE  OpenTxIsOwned'
  <2> DEFINE c == conn[t]
  <2>1. c \in Conn /\ Unfinished(t)
    BY <1>3 DEF TypeOK, Commit, Unfinished, Exists
  <2>2. conn' = conn /\ \A u \in Txn \ {t} : committed'[u] = committed[u]
    BY <1>3 DEF TypeOK, Commit
  <2>3. /\ \A d \in Others(c) : sqlTx'[d] = sqlTx[d] /\ stuck'[d] = stuck[d]
        /\ sqlTx'[c] => stuck'[c]
    BY <1>3, <2>1 DEF TypeOK, Commit, CommitSucceeds, CommitBusy, CommitViolatesKey,
          CommitRolledBack, CommitWithoutTx, EndSqlTx, Others
  <2> QED
    BY <1>2, <2>1, <2>2, <2>3
<1>4. ASSUME NEW t \in Txn, Rollback(t)
      PROVE  OpenTxIsOwned'
  <2> DEFINE c == conn[t]
  <2>1. c \in Conn /\ Unfinished(t)
    BY <1>4 DEF TypeOK, Rollback, Unfinished, Exists
  <2>2. conn' = conn /\ \A u \in Txn \ {t} : committed'[u] = committed[u]
    BY <1>4 DEF TypeOK, Rollback
  <2>3. /\ \A d \in Others(c) : sqlTx'[d] = sqlTx[d] /\ stuck'[d] = stuck[d]
        /\ ~sqlTx'[c]
    BY <1>4, <2>1 DEF TypeOK, Rollback, SqlRollback, EndSqlTx, Others
  <2> QED
    BY <1>2, <2>1, <2>2, <2>3
<1>5. ASSUME NEW t \in Txn, DestroyFinished(t)
      PROVE  OpenTxIsOwned'
  BY <1>5 DEF TypeOK, OpenTxIsOwned, DestroyFinished, Forget, UnfinishedOn
<1>6. ASSUME NEW t \in Txn, DestroyUnfinished(t)
      PROVE  OpenTxIsOwned'
  <2> DEFINE c == conn[t]
  <2>1. c \in Conn /\ Unfinished(t)
    BY <1>6 DEF TypeOK, DestroyUnfinished, Unfinished, Exists
  <2>2. /\ conn'[t] = NoConn
        /\ \A u \in Txn \ {t} : conn'[u] = conn[u] /\ committed'[u] = committed[u]
    BY <1>6 DEF TypeOK, DestroyUnfinished, Forget
  <2>3. /\ \A d \in Others(c) : sqlTx'[d] = sqlTx[d] /\ stuck'[d] = stuck[d]
        /\ ~sqlTx'[c]
    BY <1>6, <2>1 DEF TypeOK, DestroyUnfinished, SqlRollback, EndSqlTx, Others
  <2> QED
    BY <1>2, <2>1, <2>2, <2>3
\* The end of a process takes its SQLite transaction with it.
<1>7. ASSUME NEW c \in Conn, ProcessEnds(c)
      PROVE  OpenTxIsOwned'
  <2> SUFFICES ASSUME NEW d \in Conn, sqlTx'[d]
               PROVE  stuck'[d] \/ UnfinishedOn(d)' # {}
    BY DEF OpenTxIsOwned
  <2>1. d # c /\ sqlTx[d] /\ stuck'[d] = stuck[d]
    BY <1>7 DEF TypeOK, ProcessEnds
  <2>2. \A u \in UnfinishedOn(d) : u \in UnfinishedOn(d)'
    BY <1>7, <2>1 DEF TypeOK, ProcessEnds, UnfinishedOn
  <2> QED
    BY <2>1, <2>2 DEF OpenTxIsOwned
<1>8. ASSUME NEW t \in Txn, DestroyTerminates(t) \/ CrashInCommit(t)
      PROVE  OpenTxIsOwned'
  BY <1>7, <1>8 DEF TypeOK, DestroyTerminates, CrashInCommit, Unfinished, Exists
<1>9. ASSUME NEW c \in Conn, CloseDatabase(c) \/ Crash(c)
      PROVE  OpenTxIsOwned'
  BY <1>7, <1>9 DEF CloseDatabase, Crash
<1>10. ASSUME NEW c \in Conn, WriteRollsBack(c)
       PROVE  OpenTxIsOwned'
  BY <1>10 DEF TypeOK, OpenTxIsOwned, WriteRollsBack, EndSqlTx, UnfinishedOn
<1>11. ASSUME UNCHANGED <<sqlTx, stuck, conn, committed>>
       PROVE  OpenTxIsOwned'
  BY <1>11 DEF OpenTxIsOwned, UnfinishedOn
<1>12. ASSUME NEW c \in Conn,
              \/ SelectBegins(c) \/ SelectEnds(c) \/ OpenDatabase(c)
              \/ \E x \in Change : WriteInTx(c, x) \/ WriteThrough(c, x) \/ WriteConflict(c, x)
       PROVE  OpenTxIsOwned'
  BY <1>11, <1>12
  DEF SelectBegins, SelectEnds, OpenDatabase, WriteInTx, WriteThrough, WriteConflict
<1>13. CASE UNCHANGED vars
  BY <1>11, <1>13 DEF vars
<1> QED
  BY <1>1, <1>3, <1>4, <1>5, <1>6, <1>8, <1>9, <1>10, <1>12, <1>13
  DEF Next, TransactionCall, WriteCall, DatabaseCall, Destroy, BeginThrows, WriteBusy, SelectBusy

\* A connection is in a SQLite transaction only while a Transaction object can
\* still end it, or after a commit() that threw: with any number of objects,
\* nested or not, and whatever SQLite rolls back on its own.
THEOREM Ownership == Spec => []OpenTxIsOwned
<1>1. Init => OpenTxIsOwned
  BY DEF Init, OpenTxIsOwned
<1> QED
  BY <1>1, OwnedStep, TypeCorrect, PTL DEF Spec

-----------------------------------------------------------------------------
(* Locks.                                                                  *)

\* What LockInv says of connection c alone.
LockedAsUsed(c) ==
    /\ pending[c] # {} => lock[c] >= Reserved
    /\ lock[c] >= Reserved => sqlTx[c]
    /\ cursor[c] => lock[c] >= Shared
    /\ ~up[c] => ~sqlTx[c] /\ ~cursor[c] /\ lock[c] = Unlocked

\* Nothing of connection d that LockInv speaks of changes.
Untouched(d) ==
    /\ pending'[d] = pending[d]
    /\ lock'[d] = lock[d]
    /\ sqlTx'[d] = sqlTx[d]
    /\ cursor'[d] = cursor[d]
    /\ up'[d] = up[d]

\* A step of connection c keeps LockInv if c locks what it uses afterwards and
\* holds RESERVED only while nobody else does.
LEMMA LockStepOf ==
    ASSUME TypeOK, TypeOK', LockInv, NEW c \in Conn,
           \A d \in Others(c) : Untouched(d),
           LockedAsUsed(c)',
           lock'[c] >= Reserved => \A d \in Others(c) : lock[d] < Reserved
    PROVE  LockInv'
<1> SUFFICES ASSUME NEW d \in Conn
             PROVE  /\ LockedAsUsed(d)'
                    /\ lock'[d] >= Reserved => \A e \in Others(d) : lock'[e] < Reserved
  BY DEF LockInv, LockedAsUsed, Others
<1>1. CASE d = c
  BY <1>1 DEF Others, Untouched
<1>2. CASE d # c
  <2>1. LockedAsUsed(d)'
    BY <1>2 DEF LockInv, LockedAsUsed, Others, Untouched
  <2>2. ASSUME lock'[d] >= Reserved, NEW e \in Others(d)
        PROVE  lock'[e] < Reserved
    <3>1. lock[d] >= Reserved /\ e \in Conn /\ e # d
      BY <1>2, <2>2 DEF Others, Untouched
    <3>2. CASE e = c
      BY <1>2, <3>1, <3>2 DEF TypeOK, Locks, Others
    <3>3. CASE e # c
      BY <3>1, <3>3 DEF LockInv, Others, Untouched
    <3> QED
      BY <3>2, <3>3
  <2> QED
    BY <2>1, <2>2
<1> QED
  BY <1>1, <1>2

LEMMA LockAfterEndSqlTx ==
    ASSUME TypeOK, TypeOK', LockInv, NEW c \in Conn, EndSqlTx(c), UNCHANGED <<cursor, up>>
    PROVE  LockInv'
<1>1. \A d \in Others(c) : Untouched(d)
  BY DEF TypeOK, EndSqlTx, Others, Untouched
<1>2. LockedAsUsed(c)' /\ ~(lock'[c] >= Reserved)
  BY DEF TypeOK, LockInv, LockedAsUsed, EndSqlTx, IdleLock
<1> QED
  BY <1>1, <1>2, LockStepOf

LEMMA LockAfterProcessEnds ==
    ASSUME TypeOK, TypeOK', LockInv, NEW c \in Conn, ProcessEnds(c)
    PROVE  LockInv'
<1>1. \A d \in Others(c) : Untouched(d)
  BY DEF TypeOK, ProcessEnds, Others, Untouched
<1>2. LockedAsUsed(c)' /\ ~(lock'[c] >= Reserved)
  BY DEF TypeOK, LockInv, LockedAsUsed, ProcessEnds
<1> QED
  BY <1>1, <1>2, LockStepOf

\* A COMMIT that is refused stops at PENDING, on top of the RESERVED lock.
LEMMA LockAfterBusy ==
    ASSUME TypeOK, TypeOK', LockInv, NEW c \in Conn, NEW t \in Txn,
           CommitBusy(c, t), UNCHANGED <<cursor, up>>
    PROVE  LockInv'
<1>1. \A d \in Others(c) : Untouched(d)
  BY DEF TypeOK, CommitBusy, Others, Untouched
<1>2. lock[c] >= Reserved /\ sqlTx[c] /\ up[c]
  BY DEF TypeOK, LockInv, CommitBusy
<1>3. lock'[c] = AtLeast(c, Pending)
  BY DEF TypeOK, CommitBusy
<1>4. LockedAsUsed(c)'
  BY <1>2, <1>3 DEF TypeOK, Locks, LockInv, LockedAsUsed, AtLeast, CommitBusy
<1> QED
  BY <1>1, <1>2, <1>4, LockStepOf DEF LockInv

LEMMA LockStep == TypeOK /\ LockInv /\ [Next]_vars => LockInv'
<1> SUFFICES ASSUME TypeOK, LockInv, [Next]_vars PROVE LockInv'
  OBVIOUS
<1> USE DEF dbVars, objVars, history
<1>0. TypeOK'
  BY TypeStep
<1>1. ASSUME NEW c \in Conn, NEW t \in Txn, NEW type \in Type, Begin(c, t, type)
      PROVE  LockInv'
  <2>1. \A d \in Others(c) : Untouched(d)
    BY <1>1 DEF TypeOK, Begin, Others, Untouched
  <2>2. lock'[c] = AtLeast(c, BeginLock[type]) /\ sqlTx'[c]
    BY <1>1 DEF TypeOK, Begin
  <2>3. LockedAsUsed(c)'
    BY <1>1, <2>2, BeginLockType, AtLeastType DEF TypeOK, LockInv, LockedAsUsed, Begin, CanBegin, Locks
  <2>4. BeginLock[type] >= Reserved => type # "Deferred"
    BY DEF BeginLock, Type
  <2>5. lock'[c] >= Reserved => \A d \in Others(c) : lock[d] < Reserved
    BY <1>1, <2>2, <2>4 DEF Begin, CanBegin, CanReserve, AtLeast, LockInv
  <2> QED
    BY <1>0, <2>1, <2>3, <2>5, LockStepOf
<1>2. ASSUME NEW t \in Txn, Commit(t)
      PROVE  LockInv'
  <2> DEFINE c == conn[t]
  <2>1. c \in Conn
    BY <1>2 DEF TypeOK, Commit, Unfinished, Exists
  <2>2. CASE CommitSucceeds(c, t) \/ CommitRolledBack(c, t)
    BY <1>0, <1>2, <2>1, <2>2, LockAfterEndSqlTx DEF Commit, CommitSucceeds, CommitRolledBack
  <2>3. CASE CommitBusy(c, t)
    BY <1>0, <1>2, <2>1, <2>3, LockAfterBusy DEF Commit
  <2>4. CASE CommitViolatesKey(c, t) \/ CommitWithoutTx(c)
    BY <1>2, <2>4 DEF LockInv, Others, Commit, CommitViolatesKey, CommitWithoutTx
  <2> QED
    BY <1>2, <2>2, <2>3, <2>4 DEF Commit
<1>3. ASSUME NEW t \in Txn, Rollback(t)
      PROVE  LockInv'
  <2>1. conn[t] \in Conn
    BY <1>3 DEF TypeOK, Rollback, Unfinished, Exists
  <2>2. CASE SqlRollback(conn[t], t)
    BY <1>0, <1>3, <2>1, <2>2, LockAfterEndSqlTx DEF Rollback, SqlRollback
  <2>3. CASE UNCHANGED <<sqlTx, pending, lock>>
    BY <1>3, <2>3 DEF LockInv, Others, Rollback
  <2> QED
    BY <1>3, <2>2, <2>3 DEF Rollback
<1>4. ASSUME NEW t \in Txn, Destroy(t)
      PROVE  LockInv'
  <2>1. CASE DestroyFinished(t)
    BY <2>1 DEF LockInv, Others, DestroyFinished
  <2>2. CASE DestroyUnfinished(t)
    <3>1. conn[t] \in Conn
      BY <2>2 DEF TypeOK, DestroyUnfinished, Unfinished, Exists
    <3> QED
      BY <1>0, <2>2, <3>1, LockAfterEndSqlTx DEF DestroyUnfinished, SqlRollback
  <2>3. CASE DestroyTerminates(t)
    <3>1. conn[t] \in Conn
      BY <2>3 DEF TypeOK, DestroyTerminates, Unfinished, Exists
    <3> QED
      BY <1>0, <2>3, <3>1, LockAfterProcessEnds DEF DestroyTerminates
  <2> QED
    BY <1>4, <2>1, <2>2, <2>3 DEF Destroy
<1>5. ASSUME NEW t \in Txn, CrashInCommit(t)
      PROVE  LockInv'
  <2>1. conn[t] \in Conn
    BY <1>5 DEF TypeOK, CrashInCommit, Unfinished, Exists
  <2> QED
    BY <1>0, <1>5, <2>1, LockAfterProcessEnds DEF CrashInCommit
<1>6. ASSUME NEW c \in Conn, WriteRollsBack(c)
      PROVE  LockInv'
  BY <1>0, <1>6, LockAfterEndSqlTx DEF WriteRollsBack
<1>7. ASSUME NEW c \in Conn, NEW x \in Change, WriteInTx(c, x) \/ WriteConflict(c, x)
      PROVE  LockInv'
  <2>1. \A d \in Others(c) : Untouched(d)
    BY <1>7 DEF TypeOK, WriteInTx, WriteConflict, Others, Untouched
  <2>2. /\ up'[c] /\ sqlTx'[c] = sqlTx[c] /\ cursor'[c] = cursor[c]
        /\ lock'[c] = IF sqlTx[c] THEN AtLeast(c, Reserved) ELSE lock[c]
        /\ ~sqlTx[c] => pending'[c] = pending[c]
    BY <1>7 DEF TypeOK, WriteInTx, WriteConflict
  <2>3. LockedAsUsed(c)'
    BY <2>2 DEF TypeOK, Locks, LockInv, LockedAsUsed, AtLeast
  <2>4. \A d \in Others(c) : lock[d] < Reserved
    BY <1>7 DEF WriteInTx, WriteConflict, CanReserve
  <2> QED
    BY <1>0, <2>1, <2>3, <2>4, LockStepOf
<1>8. ASSUME NEW c \in Conn, SelectBegins(c)
      PROVE  LockInv'
  <2>1. \A d \in Others(c) : Untouched(d)
    BY <1>8 DEF TypeOK, SelectBegins, Others, Untouched
  <2>2. up[c] /\ lock'[c] = AtLeast(c, Shared) /\ UNCHANGED <<up, sqlTx, pending>>
    BY <1>8 DEF TypeOK, SelectBegins
  <2>3. LockedAsUsed(c)'
    BY <2>2 DEF TypeOK, Locks, LockInv, LockedAsUsed, AtLeast
  <2>4. lock'[c] >= Reserved => \A d \in Others(c) : lock[d] < Reserved
    BY <2>2 DEF TypeOK, Locks, LockInv, AtLeast
  <2> QED
    BY <1>0, <2>1, <2>3, <2>4, LockStepOf
<1>9. ASSUME NEW c \in Conn, SelectEnds(c)
      PROVE  LockInv'
  <2>1. \A d \in Others(c) : Untouched(d)
    BY <1>9 DEF TypeOK, SelectEnds, Others, Untouched
  <2>2. /\ up[c] /\ UNCHANGED <<up, sqlTx, pending>> /\ ~cursor'[c]
        /\ lock'[c] = IF sqlTx[c] THEN lock[c] ELSE Unlocked
    BY <1>9 DEF TypeOK, SelectEnds
  <2>3. LockedAsUsed(c)'
    BY <2>2 DEF TypeOK, Locks, LockInv, LockedAsUsed
  <2>4. lock'[c] >= Reserved => \A d \in Others(c) : lock[d] < Reserved
    BY <2>2 DEF TypeOK, Locks, LockInv
  <2> QED
    BY <1>0, <2>1, <2>3, <2>4, LockStepOf
<1>10. ASSUME NEW c \in Conn, CloseDatabase(c) \/ Crash(c)
       PROVE  LockInv'
  BY <1>0, <1>10, LockAfterProcessEnds DEF CloseDatabase, Crash
<1>11. ASSUME NEW c \in Conn, OpenDatabase(c)
       PROVE  LockInv'
  BY <1>11 DEF TypeOK, LockInv, Others, OpenDatabase
<1>12. ASSUME NEW c \in Conn, NEW x \in Change, WriteThrough(c, x)
       PROVE  LockInv'
  BY <1>12 DEF LockInv, Others, WriteThrough
<1>13. CASE UNCHANGED vars
  BY <1>13 DEF LockInv, Others, vars
<1> QED
  BY <1>1, <1>2, <1>3, <1>4, <1>5, <1>6, <1>7, <1>8, <1>9, <1>10, <1>11, <1>12, <1>13
  DEF Next, TransactionCall, WriteCall, DatabaseCall, BeginThrows, WriteBusy, SelectBusy

\* Uncommitted changes are behind a RESERVED lock that one connection at a time
\* holds, and a SelectStatement between two rows keeps a SHARED lock, through
\* every failed COMMIT, automatic rollback, termination and crash.
THEOREM Locking == Spec => []LockInv
<1>1. Init => LockInv
  <2> SUFFICES ASSUME Init PROVE LockInv
    OBVIOUS
  <2>1. \A c \in Conn : pending[c] = {} /\ lock[c] = Unlocked /\ ~cursor[c] /\ up[c]
    BY DEF Init
  <2>2. ~(Unlocked >= Reserved) /\ ~(Unlocked >= Shared)
    OBVIOUS
  <2> QED
    BY <2>1, <2>2 DEF LockInv
<1> QED
  BY <1>1, LockStep, TypeCorrect, PTL DEF Spec

-----------------------------------------------------------------------------
(* Repeatable reads.                                                       *)

\* Whoever changes the file holds the only lock on it.
LEMMA ChangerIsAlone ==
    ASSUME TypeOK, LockInv, [Next]_vars, file' # file
    PROVE  \E c \in Conn : committer' = c /\ CanExclude(c)
<1> USE DEF dbVars, objVars, history
<1>1. ASSUME NEW t \in Txn, Commit(t)
      PROVE  committer' = conn[t] /\ CanExclude(conn[t]) /\ conn[t] \in Conn
  BY <1>1 DEF TypeOK, Commit, CommitSucceeds, CommitBusy, CommitViolatesKey, CommitRolledBack,
              CommitWithoutTx, Unfinished, Exists
<1>2. ASSUME NEW t \in Txn, CrashInCommit(t)
      PROVE  committer' = conn[t] /\ CanExclude(conn[t]) /\ conn[t] \in Conn
  BY <1>2 DEF TypeOK, CrashInCommit, Unfinished, Exists
<1>3. ASSUME NEW c \in Conn, NEW x \in Change, WriteThrough(c, x)
      PROVE  committer' = c /\ CanExclude(c)
  BY <1>3 DEF WriteThrough
<1> QED
  BY <1>1, <1>2, <1>3
  DEF Next, TransactionCall, WriteCall, DatabaseCall, vars, Begin, BeginThrows, Rollback, Destroy,
      DestroyFinished, DestroyUnfinished, DestroyTerminates, WriteRollsBack, WriteBusy, WriteInTx,
      WriteConflict, SelectBegins, SelectBusy, SelectEnds, CloseDatabase, Crash, OpenDatabase

LEMMA ReadStep ==
    ASSUME TypeOK, LockInv, [Next]_vars
    PROVE  \A c \in Conn : cursor[c] /\ cursor'[c] /\ file' # file => committer' = c
<1> SUFFICES ASSUME NEW c \in Conn, cursor[c], file' # file PROVE committer' = c
  OBVIOUS
<1>1. PICK d \in Conn : committer' = d /\ CanExclude(d)
  BY ChangerIsAlone
<1>2. lock[c] >= Shared
  BY DEF LockInv
<1>3. c # d => lock[c] = Unlocked
  BY <1>1 DEF CanExclude, Others
<1> QED
  BY <1>1, <1>2, <1>3

\* Between two rows of a SelectStatement nobody else changes the file.
THEOREM ReadsRepeat == Spec => RepeatableRead
<1>1. TypeOK /\ LockInv /\ [Next]_vars
      => [\A c \in Conn : cursor[c] /\ cursor'[c] /\ file' # file => committer' = c]_vars
  BY ReadStep
<1> QED
  BY <1>1, TypeCorrect, Locking, PTL DEF Spec, RepeatableRead

-----------------------------------------------------------------------------
(* Transactions implements AtomicStore.                                    *)

LEMMA AloneBehindReserved ==
    ASSUME LockInv, TypeOK, NEW c \in Conn, \A d \in Others(c) : lock[d] < Reserved
    PROVE  Store!Alone(c)
<1>1. ASSUME NEW d \in Others(c)
      PROVE  pending[d] = {}
  <2>1. d \in Conn /\ lock[d] \in 0 .. 4 /\ lock[d] < 2
    BY <1>1 DEF TypeOK, Locks, Others
  <2>2. ~(lock[d] >= 2)
    BY <2>1
  <2> QED
    BY <2>1, <2>2 DEF LockInv
<1> QED
  BY <1>1 DEF Others, Store!Alone

\* Who has changes under way holds RESERVED.
LEMMA AloneWithChanges ==
    ASSUME LockInv, TypeOK, NEW c \in Conn, pending[c] # {}
    PROVE  Store!Alone(c)
  BY AloneBehindReserved DEF LockInv

LEMMA StoreStep == TypeOK /\ LockInv /\ [Next]_vars => [Store!Next]_(Store!storeVars)
<1> SUFFICES ASSUME TypeOK, LockInv, [Next]_vars
             PROVE  Store!Next \/ UNCHANGED <<file, pending>>
  BY DEF Store!storeVars
<1> USE DEF dbVars, objVars, history
\* The changes that a connection drops.
<1>1. ASSUME NEW c \in Conn, EndSqlTx(c) \/ ProcessEnds(c), file' = file
      PROVE  Store!Next
  BY <1>1 DEF EndSqlTx, ProcessEnds, Store!Next, Store!Abort
\* The changes that a connection commits.
<1>2. ASSUME NEW c \in Conn, EndSqlTx(c) \/ ProcessEnds(c), file' = file \cup pending[c],
             pending[c] # {}
      PROVE  Store!Next
  <2>1. Store!Alone(c)
    BY <1>2, AloneWithChanges
  <2> QED
    BY <1>2, <2>1 DEF EndSqlTx, ProcessEnds, Store!Next, Store!Commit
<1>3. ASSUME NEW t \in Txn, Commit(t)
      PROVE  Store!Next \/ UNCHANGED <<file, pending>>
  <2>1. conn[t] \in Conn
    BY <1>3 DEF TypeOK, Commit, Unfinished, Exists
  <2>2. CASE CommitSucceeds(conn[t], t)
    <3>1. CASE pending[conn[t]] = {}
      BY <1>1, <2>1, <2>2, <3>1 DEF CommitSucceeds
    <3>2. CASE pending[conn[t]] # {}
      BY <1>2, <2>1, <2>2, <3>2 DEF CommitSucceeds
    <3> QED
      BY <3>1, <3>2
  <2>3. CASE CommitRolledBack(conn[t], t)
    BY <1>1, <2>1, <2>3 DEF CommitRolledBack
  <2> QED
    BY <1>3, <2>2, <2>3 DEF Commit, CommitBusy, CommitViolatesKey, CommitWithoutTx
<1>4. ASSUME NEW t \in Txn, Rollback(t) \/ Destroy(t)
      PROVE  Store!Next \/ UNCHANGED <<file, pending>>
  <2>1. conn[t] \in Conn
    BY <1>4 DEF TypeOK, Rollback, Destroy, DestroyFinished, DestroyUnfinished, DestroyTerminates,
                Unfinished, Exists
  <2> QED
    BY <1>1, <1>4, <2>1 DEF Rollback, SqlRollback, Destroy, DestroyFinished, DestroyUnfinished,
                            DestroyTerminates
<1>5. ASSUME NEW t \in Txn, CrashInCommit(t)
      PROVE  Store!Next
  <2>1. conn[t] \in Conn
    BY <1>5 DEF TypeOK, CrashInCommit, Unfinished, Exists
  <2> QED
    BY <1>2, <1>5, <2>1 DEF CrashInCommit
<1>6. ASSUME NEW c \in Conn, WriteRollsBack(c) \/ CloseDatabase(c) \/ Crash(c)
      PROVE  Store!Next
  BY <1>1, <1>6 DEF WriteRollsBack, CloseDatabase, Crash
<1>7. ASSUME NEW c \in Conn, NEW x \in Change, WriteInTx(c, x)
      PROVE  Store!Next
  <2>1. Store!Alone(c)
    BY <1>7, AloneBehindReserved DEF WriteInTx, CanReserve
  <2> QED
    BY <1>7, <2>1 DEF WriteInTx, View, Store!Next, Store!Write
<1>8. ASSUME NEW c \in Conn, NEW x \in Change, WriteThrough(c, x)
      PROVE  Store!Next
  <2>1. Store!Alone(c)
    BY <1>8, AloneBehindReserved DEF WriteThrough, CanReserve
  <2>2. pending[c] = {}
    BY <1>8 DEF WriteThrough, LockInv
  <2> QED
    BY <1>8, <2>1, <2>2 DEF WriteThrough, Store!Next, Store!WriteThrough
<1> QED
  BY <1>3, <1>4, <1>5, <1>6, <1>7, <1>8
  DEF Next, TransactionCall, WriteCall, DatabaseCall, vars, Begin, BeginThrows, WriteBusy,
      WriteConflict, SelectBegins, SelectBusy, SelectEnds, OpenDatabase

\* The file changes by whole transactions, one connection at a time, whatever
\* the objects, locks and crashes of any number of processes do.
THEOREM Implementation == Spec => ImplementsStore
<1>1. Init => Store!Init
  BY DEF Init, Store!Init
<1> QED
  BY <1>1, StoreStep, TypeCorrect, Locking, PTL DEF Spec, ImplementsStore, Store!Spec

-----------------------------------------------------------------------------
(***************************************************************************)
(* What a program was told about its transactions is true: Durability and  *)
(* RolledBackStaysOut, for every set of connections, objects and changes,  *)
(* when no connection nests Transaction objects.                           *)
(***************************************************************************)

(* Objects.                                                                *)

\* No Transaction object comes into being or is reopened.
Finishing ==
    \A u \in Txn : Unfinished(u)' => Unfinished(u) /\ conn'[u] = conn[u]

LEMMA ForgetObjects ==
    ASSUME TypeOK, ObjectInv, NEW t \in Txn, Forget(t), up' = up
    PROVE  ObjectInv' /\ Finishing
  BY NoConnAssumption DEF TypeOK, ObjectInv, Forget, Unfinished, Exists, Finishing

LEMMA ProcessEndsObjects ==
    ASSUME TypeOK, ObjectInv, NEW c \in Conn, ProcessEnds(c)
    PROVE  ObjectInv' /\ Finishing
<1>1. \A u \in Txn : /\ conn[u] = c => conn'[u] = NoConn /\ ~committed'[u] /\ writes'[u] = {}
                     /\ conn[u] # c => /\ conn'[u] = conn[u] /\ committed'[u] = committed[u]
                                       /\ writes'[u] = writes[u]
  BY DEF TypeOK, ProcessEnds
<1>2. \A d \in Conn : d # c => up'[d] = up[d]
  BY DEF TypeOK, ProcessEnds
<1> QED
  BY <1>1, <1>2, NoConnAssumption DEF TypeOK, ObjectInv, Unfinished, Exists, Finishing

\* An object that commit() or rollback() has been called on.
LEMMA FinishObject ==
    ASSUME TypeOK, ObjectInv, NEW t \in Txn, Unfinished(t),
           committed' = [committed EXCEPT ![t] = TRUE],
           writes' = [writes EXCEPT ![t] = {}],
           conn' = conn, up' = up
    PROVE  ObjectInv' /\ Finishing
  BY DEF TypeOK, ObjectInv, Unfinished, Exists, Finishing

LEMMA ObjectStep == TypeOK /\ ObjectInv /\ [Next]_vars => ObjectInv'
<1> SUFFICES ASSUME TypeOK, ObjectInv, [Next]_vars PROVE ObjectInv'
  OBVIOUS
<1> USE DEF dbVars, objVars, history
<1>1. ASSUME NEW c \in Conn, NEW t \in Txn, NEW type \in Type, Begin(c, t, type)
      PROVE  ObjectInv'
  BY <1>1, NoConnAssumption DEF TypeOK, ObjectInv, Begin, Unfinished, Exists
<1>2. ASSUME NEW t \in Txn, Commit(t) \/ Rollback(t)
      PROVE  ObjectInv'
  BY <1>2, FinishObject DEF Commit, Rollback
<1>3. ASSUME NEW t \in Txn, DestroyFinished(t) \/ DestroyUnfinished(t)
      PROVE  ObjectInv'
  BY <1>3, ForgetObjects DEF DestroyFinished, DestroyUnfinished
<1>4. ASSUME NEW t \in Txn, DestroyTerminates(t) \/ CrashInCommit(t)
      PROVE  ObjectInv'
  <2>1. conn[t] \in Conn
    BY <1>4 DEF TypeOK, DestroyTerminates, CrashInCommit, Unfinished, Exists
  <2> QED
    BY <1>4, <2>1, ProcessEndsObjects DEF DestroyTerminates, CrashInCommit
<1>5. ASSUME NEW c \in Conn, CloseDatabase(c) \/ Crash(c)
      PROVE  ObjectInv'
  BY <1>5, ProcessEndsObjects DEF CloseDatabase, Crash
\* A write statement changes the credit of unfinished objects only.
<1>6. ASSUME UNCHANGED <<conn, committed, up>>,
             \A u \in Txn : writes'[u] # {} => writes[u] # {} \/ Unfinished(u)
      PROVE  ObjectInv'
  BY <1>6 DEF ObjectInv, Unfinished, Exists
<1>7. ASSUME NEW c \in Conn, NEW x \in Change, WriteInTx(c, x) \/ WriteThrough(c, x)
      PROVE  ObjectInv'
  <2>1. UNCHANGED <<conn, committed, up>> /\ Credit(c, x)
    BY <1>7 DEF WriteInTx, WriteThrough
  <2>2. \A u \in UnfinishedOn(c) : Unfinished(u)
    BY NoConnAssumption DEF UnfinishedOn, Unfinished, Exists
  <2> QED
    BY <1>6, <2>1, <2>2 DEF Credit
<1>8. ASSUME NEW c \in Conn, WriteRollsBack(c)
      PROVE  ObjectInv'
  BY <1>6, <1>8 DEF WriteRollsBack
<1>9. ASSUME NEW c \in Conn, OpenDatabase(c)
      PROVE  ObjectInv'
  BY <1>9 DEF TypeOK, ObjectInv, OpenDatabase, Unfinished, Exists
<1>10. ASSUME NEW c \in Conn,
              SelectBegins(c) \/ SelectEnds(c) \/ \E x \in Change : WriteConflict(c, x)
       PROVE  ObjectInv'
  BY <1>6, <1>10 DEF SelectBegins, SelectEnds, WriteConflict
<1>11. CASE UNCHANGED vars
  BY <1>6, <1>11 DEF vars
<1> QED
  BY <1>1, <1>2, <1>3, <1>4, <1>5, <1>7, <1>8, <1>9, <1>10, <1>11
  DEF Next, TransactionCall, WriteCall, DatabaseCall, Destroy, BeginThrows, WriteBusy, SelectBusy

LEMMA ObjectsAlways == Spec => []ObjectInv
<1>1. Init => ObjectInv
  BY DEF Init, ObjectInv, Exists
<1> QED
  BY <1>1, ObjectStep, TypeCorrect, PTL DEF Spec

-----------------------------------------------------------------------------
(* Accounts.                                                               *)

\* The parts of AccountInv.
OneEach == \A t, u \in Txn : Unfinished(t) /\ Unfinished(u) /\ conn[t] = conn[u] => t = u

AccountOf(c) ==
    /\ stuck[c] => sqlTx[c] /\ UnfinishedOn(c) = {}
    /\ sqlTx[c] => \A t \in UnfinishedOn(c) : writes[t] \subseteq pending[c]
    /\ ~stuck[c] => pending[c] \cap discarded = {}
    /\ pending[c] \cap file = {}

LEMMA AccountParts == AccountInv <=> OneEach /\ \A c \in Conn : AccountOf(c)
  BY DEF AccountInv, OneEach, AccountOf

LEMMA OnItsConnection ==
    ASSUME TypeOK, NEW c \in Conn, NEW t \in Txn
    PROVE  t \in UnfinishedOn(c) <=> Unfinished(t) /\ conn[t] = c
  BY NoConnAssumption DEF UnfinishedOn, Unfinished, Exists

\* Two connections do not both have changes under way.
LEMMA OnlyOneWrites ==
    ASSUME TypeOK, LockInv, NEW c \in Conn, NEW d \in Conn, c # d
    PROVE  pending[c] = {} \/ pending[d] = {}
  BY AloneWithChanges DEF Store!Alone

LEMMA FinishingKeepsOne ==
    ASSUME OneEach, Finishing PROVE OneEach'
  BY DEF OneEach, Finishing

\* What a connection without part in a step has to keep.
LEMMA BystanderAccount ==
    ASSUME TypeOK, TypeOK', LockInv, Finishing, NEW c \in Conn, NEW d \in Conn, c # d, AccountOf(d),
           sqlTx'[d] = sqlTx[d], pending'[d] = pending[d], stuck'[d] = stuck[d],
           \A u \in Txn : Unfinished(u)' /\ conn[u] # c => writes'[u] = writes[u],
           file' \subseteq file \cup pending[c],
           discarded' \subseteq discarded \cup pending[c]
    PROVE  AccountOf(d)'
<1>1. \A u \in UnfinishedOn(d)' : u \in UnfinishedOn(d) /\ writes'[u] = writes[u]
  <2> SUFFICES ASSUME NEW u \in UnfinishedOn(d)'
               PROVE  u \in UnfinishedOn(d) /\ writes'[u] = writes[u]
    OBVIOUS
  <2>1. u \in Txn
    BY DEF UnfinishedOn
  <2>2. Unfinished(u)' /\ conn'[u] = d
    BY <2>1, NoConnAssumption DEF UnfinishedOn, Unfinished, Exists
  <2>3. Unfinished(u) /\ conn[u] = d
    BY <2>1, <2>2 DEF Finishing
  <2> QED
    BY <2>1, <2>2, <2>3, OnItsConnection
<1>2. pending[c] = {} \/ pending[d] = {}
  BY OnlyOneWrites
<1>3. pending[d] \cap file' = {} /\ (~stuck[d] => pending[d] \cap discarded' = {})
  BY <1>2 DEF AccountOf
<1>4. stuck[d] => UnfinishedOn(d)' = {}
  BY <1>1 DEF AccountOf
<1>5. sqlTx[d] => \A u \in UnfinishedOn(d)' : writes'[u] \subseteq pending[d]
  BY <1>1 DEF AccountOf
<1> QED
  BY <1>3, <1>4, <1>5 DEF AccountOf

\* The SQLite transaction of c ends, and its changes reach the file, or are
\* dropped, or both are open.
LEMMA AccountAfterEnd ==
    ASSUME TypeOK, TypeOK', LockInv, AccountInv, Finishing, NEW c \in Conn,
           \A d \in Others(c) : sqlTx'[d] = sqlTx[d] /\ pending'[d] = pending[d] /\ stuck'[d] = stuck[d],
           ~sqlTx'[c], pending'[c] = {}, ~stuck'[c],
           \A u \in Txn : Unfinished(u)' /\ conn[u] # c => writes'[u] = writes[u],
           file' \subseteq file \cup pending[c],
           discarded' \subseteq discarded \cup pending[c]
    PROVE  AccountInv'
<1>1. OneEach'
  BY AccountParts, FinishingKeepsOne
<1>2. AccountOf(c)'
  BY DEF AccountOf
<1>3. ASSUME NEW d \in Conn, d # c
      PROVE  AccountOf(d)'
  <2>1. d \in Others(c) /\ AccountOf(d)
    BY <1>3, AccountParts DEF Others
  <2> QED
    BY <1>3, <2>1, BystanderAccount
<1> QED
  BY <1>1, <1>2, <1>3 DEF AccountInv, OneEach, AccountOf

\* COMMIT fails and the SQLite transaction of c stays open.
LEMMA AccountAfterFailure ==
    ASSUME TypeOK, TypeOK', LockInv, AccountInv, Finishing, NEW c \in Conn, NEW t \in Txn,
           t \in UnfinishedOn(c), ~Unfinished(t)', conn' = conn, sqlTx[c],
           UNCHANGED <<file, sqlTx, pending>>,
           stuck' = [stuck EXCEPT ![c] = TRUE],
           discarded' = discarded \cup writes[t],
           \A u \in Txn : Unfinished(u)' => writes'[u] = writes[u]
    PROVE  AccountInv'
<1>1. OneEach'
  BY AccountParts, FinishingKeepsOne
<1>2. writes[t] \subseteq pending[c]
  BY DEF AccountInv
<1>3. UnfinishedOn(c)' = {}
  <2> SUFFICES ASSUME NEW u \in UnfinishedOn(c)' PROVE FALSE
    OBVIOUS
  <2>1. u \in Txn /\ Unfinished(u)' /\ conn[u] = c
    BY NoConnAssumption DEF UnfinishedOn, Unfinished, Exists
  <2>2. Unfinished(u) /\ Unfinished(t) /\ conn[t] = c
    BY <2>1, OnItsConnection DEF Finishing
  <2> QED
    BY <2>1, <2>2 DEF AccountInv
<1>4. AccountOf(c)'
  BY <1>3 DEF TypeOK, AccountInv, AccountOf
<1>5. ASSUME NEW d \in Conn, d # c
      PROVE  AccountOf(d)'
  <2>1. AccountOf(d) /\ stuck'[d] = stuck[d]
    BY <1>5, AccountParts DEF TypeOK
  <2> QED
    BY <1>2, <1>5, <2>1, BystanderAccount
<1> QED
  BY <1>1, <1>4, <1>5 DEF AccountInv, OneEach, AccountOf

\* Objects are finished or destroyed while their connections have no SQLite
\* transaction that they could end, or after they have ended it.
LEMMA AccountUntouched ==
    ASSUME TypeOK, AccountInv, Finishing,
           UNCHANGED <<file, sqlTx, pending, stuck, discarded>>,
           \A u \in Txn : Unfinished(u)' => writes'[u] = writes[u]
    PROVE  AccountInv'
<1>1. OneEach'
  BY AccountParts, FinishingKeepsOne
<1>2. ASSUME NEW d \in Conn
      PROVE  AccountOf(d)'
  <2>1. \A u \in UnfinishedOn(d)' : u \in UnfinishedOn(d) /\ writes'[u] = writes[u]
    <3> SUFFICES ASSUME NEW u \in UnfinishedOn(d)'
                 PROVE  u \in UnfinishedOn(d) /\ writes'[u] = writes[u]
      OBVIOUS
    <3>1. u \in Txn /\ Unfinished(u)' /\ conn'[u] = d
      BY NoConnAssumption DEF UnfinishedOn, Unfinished, Exists
    <3>2. Unfinished(u) /\ conn[u] = d
      BY <3>1 DEF Finishing
    <3> QED
      BY <3>1, <3>2, OnItsConnection
  <2>2. AccountOf(d)
    BY AccountParts
  <2>3. stuck[d] => UnfinishedOn(d)' = {}
    BY <2>1, <2>2 DEF AccountOf
  <2>4. sqlTx[d] => \A u \in UnfinishedOn(d)' : writes'[u] \subseteq pending[d]
    BY <2>1, <2>2 DEF AccountOf
  <2> QED
    BY <2>2, <2>3, <2>4 DEF AccountOf
<1> QED
  BY <1>1, <1>2 DEF AccountInv, OneEach, AccountOf

LEMMA AccountAfterBegin ==
    ASSUME Nesting = FALSE, TypeOK, TypeOK', ObjectInv, AccountInv,
           NEW c \in Conn, NEW t \in Txn, NEW type \in Type, Begin(c, t, type)
    PROVE  AccountInv'
<1> USE DEF history
<1>1. /\ UnfinishedOn(c) = {} /\ ~Exists(t) /\ ~sqlTx[c]
      /\ UNCHANGED <<file, pending, writes, discarded, stuck>>
  BY DEF Begin, CanBegin
<1>2. writes[t] = {} /\ ~stuck[c]
  BY <1>1 DEF ObjectInv, AccountInv, Unfinished
<1>3. /\ conn'[t] = c
      /\ \A u \in Txn \ {t} : conn'[u] = conn[u] /\ committed'[u] = committed[u]
      /\ \A d \in Others(c) : sqlTx'[d] = sqlTx[d]
  BY DEF TypeOK, Begin, Others
<1>4. \A u \in Txn \ {t} : Unfinished(u)' => Unfinished(u) /\ conn[u] # c
  BY <1>1, <1>3 DEF UnfinishedOn, Unfinished, Exists
<1>5. OneEach'
  BY <1>3, <1>4 DEF AccountInv, OneEach
<1>6. AccountOf(c)'
  <2>1. \A u \in UnfinishedOn(c)' : u = t
    BY <1>3, <1>4, NoConnAssumption DEF UnfinishedOn, Unfinished, Exists
  <2> QED
    BY <1>1, <1>2, <2>1 DEF AccountInv, AccountOf
<1>7. ASSUME NEW d \in Conn, d # c
      PROVE  AccountOf(d)'
  <2>1. UnfinishedOn(d)' \subseteq UnfinishedOn(d)
    BY <1>3, <1>7 DEF UnfinishedOn
  <2>2. sqlTx'[d] = sqlTx[d]
    BY <1>3, <1>7 DEF Others
  <2> QED
    BY <1>1, <2>1, <2>2 DEF AccountInv, AccountOf
<1> QED
  BY <1>5, <1>6, <1>7 DEF AccountInv, OneEach, AccountOf

LEMMA AccountAfterWrite ==
    ASSUME TypeOK, TypeOK', LockInv, AccountInv,
           NEW c \in Conn, NEW x \in Change, WriteInTx(c, x) \/ WriteThrough(c, x)
    PROVE  AccountInv'
<1> USE DEF objVars
<1>1. UNCHANGED <<sqlTx, stuck, conn, committed>> /\ Credit(c, x) /\ x \notin file
  BY DEF WriteInTx, WriteThrough, View
<1>2. UNCHANGED OneEach /\ \A d \in Conn : UnfinishedOn(d)' = UnfinishedOn(d)
  BY <1>1 DEF OneEach, Unfinished, Exists, UnfinishedOn
<1>3. discarded' = discarded \ {x}
  BY DEF WriteInTx, WriteThrough
<1>4. \A d \in Others(c) : pending[d] = {}
  BY AloneBehindReserved DEF WriteInTx, WriteThrough, CanReserve, Store!Alone, Others
<1>5. CASE WriteInTx(c, x)
  <2>1. pending' = [pending EXCEPT ![c] = @ \cup {x}] /\ file' = file
    BY <1>5 DEF WriteInTx
  <2>2. AccountOf(c)'
    <3>1. pending'[c] = pending[c] \cup {x}
      BY <2>1 DEF TypeOK
    <3>2. \A u \in UnfinishedOn(c) : writes'[u] = writes[u] \cup {x}
      BY <1>1 DEF Credit, UnfinishedOn
    <3>3. AccountOf(c)
      BY AccountParts
    <3>4. stuck[c] => sqlTx[c] /\ UnfinishedOn(c)' = {}
      BY <1>2, <3>3 DEF AccountOf
    <3>5. sqlTx[c] => \A u \in UnfinishedOn(c)' : writes'[u] \subseteq pending'[c]
      BY <1>2, <3>1, <3>2, <3>3 DEF AccountOf
    <3>6. pending'[c] \cap file' = {} /\ (~stuck[c] => pending'[c] \cap discarded' = {})
      BY <1>1, <1>3, <2>1, <3>1, <3>3 DEF AccountOf
    <3> QED
      BY <1>1, <3>4, <3>5, <3>6 DEF AccountOf
  <2>3. ASSUME NEW d \in Conn, d # c
        PROVE  AccountOf(d)'
    <3>1. pending[d] = {} /\ pending'[d] = {}
      BY <1>4, <2>1, <2>3 DEF TypeOK, Others
    <3>2. ~sqlTx[d] \/ \A u \in UnfinishedOn(d) : writes'[u] = writes[u]
      BY <1>1, <2>3 DEF TypeOK, Credit, UnfinishedOn
    <3>3. AccountOf(d)
      BY AccountParts
    <3> QED
      BY <1>1, <1>2, <3>1, <3>2, <3>3 DEF AccountOf
  <2> QED
    BY <1>2, <2>2, <2>3 DEF AccountInv, OneEach, AccountOf
<1>6. CASE WriteThrough(c, x)
  <2>1. pending' = pending /\ ~sqlTx[c] /\ \A d \in Conn : pending[d] = {}
    BY <1>4, <1>6 DEF WriteThrough, LockInv, Others
  <2>2. ASSUME NEW d \in Conn
        PROVE  AccountOf(d)'
    <3>1. ~sqlTx[d] \/ \A u \in UnfinishedOn(d) : writes'[u] = writes[u]
      BY <1>1, <2>1 DEF TypeOK, Credit, UnfinishedOn
    <3>2. AccountOf(d)
      BY AccountParts
    <3> QED
      BY <1>1, <1>2, <2>1, <3>1, <3>2 DEF AccountOf
  <2> QED
    BY <1>2, <2>2 DEF AccountInv, OneEach, AccountOf
<1> QED
  BY <1>5, <1>6

-----------------------------------------------------------------------------
(* Durability and RolledBackStaysOut.                                      *)

Books == AccountInv /\ Durability /\ RolledBackStaysOut

LEMMA EndSqlTxOf ==
    ASSUME TypeOK, NEW c \in Conn, EndSqlTx(c)
    PROVE  /\ \A d \in Others(c) : /\ sqlTx'[d] = sqlTx[d] /\ pending'[d] = pending[d]
                                   /\ stuck'[d] = stuck[d]
           /\ ~sqlTx'[c] /\ pending'[c] = {} /\ ~stuck'[c]
  BY DEF TypeOK, EndSqlTx, Others

LEMMA ProcessEndsOf ==
    ASSUME TypeOK, NEW c \in Conn, ProcessEnds(c)
    PROVE  /\ \A d \in Others(c) : /\ sqlTx'[d] = sqlTx[d] /\ pending'[d] = pending[d]
                                   /\ stuck'[d] = stuck[d]
           /\ ~sqlTx'[c] /\ pending'[c] = {} /\ ~stuck'[c]
           /\ \A u \in Txn : conn[u] # c => writes'[u] = writes[u]
  BY DEF TypeOK, ProcessEnds, Others

\* What t has to its credit is under way on its connection, and is not in the
\* file; what is under way there is not known to be dropped.
LEMMA CreditOf ==
    ASSUME TypeOK, AccountInv, NEW t \in Txn, Unfinished(t), sqlTx[conn[t]]
    PROVE  /\ conn[t] \in Conn /\ t \in UnfinishedOn(conn[t])
           /\ writes[t] \subseteq pending[conn[t]]
           /\ pending[conn[t]] \cap file = {}
           /\ pending[conn[t]] \cap discarded = {}
<1>1. conn[t] \in Conn /\ t \in UnfinishedOn(conn[t])
  BY DEF TypeOK, Unfinished, Exists, UnfinishedOn
<1>2. ~stuck[conn[t]]
  BY <1>1 DEF AccountInv
<1> QED
  BY <1>1, <1>2 DEF AccountInv

LEMMA BooksAfterCommit ==
    ASSUME TypeOK, TypeOK', LockInv, ObjectInv, Books, NEW t \in Txn, Commit(t)
    PROVE  Books'
<1> USE DEF Books
<1>1. Unfinished(t) /\ ~Unfinished(t)' /\ Finishing /\ UNCHANGED <<conn, up>>
  BY FinishObject DEF TypeOK, Commit, Unfinished
<1>2. \A u \in Txn : Unfinished(u)' => writes'[u] = writes[u]
  BY <1>1 DEF TypeOK, Commit
<1> DEFINE End(c) == \/ CommitSucceeds(c, t)
                     \/ CommitRolledBack(c, t)
           Failure(c) == CommitBusy(c, t) \/ CommitViolatesKey(c, t)
<1>3. ASSUME NEW c \in Conn, c = conn[t], End(c)
      PROVE  Books'
  <2>1. /\ writes[t] \subseteq pending[c]
        /\ pending[c] \cap file = {} /\ pending[c] \cap discarded = {}
    BY <1>1, <1>3, CreditOf DEF CommitSucceeds, CommitRolledBack
  <2>2. file' \subseteq file \cup pending[c] /\ discarded' \subseteq discarded \cup pending[c]
    BY <1>3, <2>1 DEF CommitSucceeds, CommitRolledBack
  <2>3. EndSqlTx(c)
    BY <1>3 DEF CommitSucceeds, CommitRolledBack
  <2>4. AccountInv'
    BY <1>1, <1>2, <2>2, <2>3, EndSqlTxOf, AccountAfterEnd
  <2>5. Durability' /\ RolledBackStaysOut'
    BY <1>3, <2>1 DEF Durability, RolledBackStaysOut, CommitSucceeds, CommitRolledBack
  <2> QED
    BY <2>4, <2>5
<1>4. ASSUME NEW c \in Conn, c = conn[t], Failure(c)
      PROVE  Books'
  <2>1. /\ t \in UnfinishedOn(c) /\ sqlTx[c]
        /\ writes[t] \subseteq pending[c] /\ pending[c] \cap file = {}
    BY <1>1, <1>4, CreditOf DEF CommitBusy, CommitViolatesKey
  <2>2. /\ UNCHANGED <<file, sqlTx, pending, promised>>
        /\ stuck' = [stuck EXCEPT ![c] = TRUE] /\ discarded' = discarded \cup writes[t]
    BY <1>4 DEF CommitBusy, CommitViolatesKey
  <2>3. AccountInv'
    BY <1>1, <1>2, <2>1, <2>2, AccountAfterFailure
  <2>4. Durability' /\ RolledBackStaysOut'
    BY <2>1, <2>2 DEF Durability, RolledBackStaysOut
  <2> QED
    BY <2>3, <2>4
<1>5. CASE CommitWithoutTx(conn[t])
  <2>1. AccountInv'
    BY <1>1, <1>2, <1>5, AccountUntouched DEF CommitWithoutTx
  <2> QED
    BY <1>5, <2>1 DEF CommitWithoutTx, Durability, RolledBackStaysOut
<1>6. conn[t] \in Conn
  BY <1>1 DEF TypeOK, Unfinished, Exists
<1> QED
  BY <1>3, <1>4, <1>5, <1>6 DEF Commit

\* ROLLBACK on behalf of t, whether the object stays or goes.
LEMMA BooksAfterRollback ==
    ASSUME TypeOK, TypeOK', LockInv, Books, Finishing, NEW t \in Txn,
           Unfinished(t), SqlRollback(conn[t], t), UNCHANGED <<file, promised>>,
           \A u \in Txn : Unfinished(u)' => writes'[u] = writes[u]
    PROVE  Books'
<1> USE DEF Books
<1>1. /\ conn[t] \in Conn /\ writes[t] \subseteq pending[conn[t]]
      /\ pending[conn[t]] \cap file = {}
  BY CreditOf DEF SqlRollback
<1>2. EndSqlTx(conn[t]) /\ discarded' = discarded \cup writes[t]
  BY DEF SqlRollback
<1>3. AccountInv'
  BY <1>1, <1>2, EndSqlTxOf, AccountAfterEnd
<1> QED
  BY <1>1, <1>2, <1>3 DEF Durability, RolledBackStaysOut

\* The process of c ends, before COMMIT or during it.
LEMMA BooksAfterProcessEnds ==
    ASSUME TypeOK, TypeOK', LockInv, ObjectInv, Books, NEW c \in Conn,
           ProcessEnds(c), UNCHANGED <<promised, discarded>>,
           \/ file' = file
           \/ file' = file \cup pending[c] /\ pending[c] \cap discarded = {}
    PROVE  Books'
<1> USE DEF Books
<1>1. AccountInv'
  BY ProcessEndsOf, ProcessEndsObjects, AccountAfterEnd
<1> QED
  BY <1>1 DEF Durability, RolledBackStaysOut

LEMMA BooksStep ==
    ASSUME Nesting = FALSE
    PROVE  TypeOK /\ LockInv /\ ObjectInv /\ Books /\ [Next]_vars => Books'
<1> SUFFICES ASSUME TypeOK, LockInv, ObjectInv, Books, [Next]_vars PROVE Books'
  OBVIOUS
<1> USE DEF dbVars, objVars, history
<1>0. TypeOK'
  BY TypeStep
<1>1. ASSUME NEW c \in Conn, NEW t \in Txn, NEW type \in Type, Begin(c, t, type)
      PROVE  Books'
  <2>1. AccountInv'
    BY <1>0, <1>1, AccountAfterBegin DEF Books
  <2> QED
    BY <1>1, <2>1 DEF Books, Begin, Durability, RolledBackStaysOut
<1>2. ASSUME NEW t \in Txn, Commit(t)
      PROVE  Books'
  BY <1>0, <1>2, BooksAfterCommit
\* Nothing but objects changes, and they only finish.
<1>3. ASSUME Finishing, UNCHANGED <<file, sqlTx, pending, stuck, discarded, promised>>,
             \A u \in Txn : Unfinished(u)' => writes'[u] = writes[u]
      PROVE  Books'
  <2>1. AccountInv'
    BY <1>3, AccountUntouched DEF Books
  <2> QED
    BY <1>3, <2>1 DEF Books, Durability, RolledBackStaysOut
<1>4. ASSUME NEW t \in Txn, Rollback(t)
      PROVE  Books'
  <2>1. Unfinished(t) /\ Finishing /\ UNCHANGED <<file, promised>>
    BY <1>4, FinishObject DEF Rollback
  <2>2. \A u \in Txn : Unfinished(u)' => writes'[u] = writes[u]
    BY <1>4 DEF TypeOK, Rollback, Unfinished
  <2>3. CASE SqlRollback(conn[t], t)
    BY <1>0, <2>1, <2>2, <2>3, BooksAfterRollback
  <2>4. CASE UNCHANGED <<sqlTx, pending, lock, stuck, discarded>>
    BY <1>3, <2>1, <2>2, <2>4
  <2> QED
    BY <1>4, <2>3, <2>4 DEF Rollback
<1>5. ASSUME NEW t \in Txn, DestroyFinished(t) \/ DestroyUnfinished(t)
      PROVE  Books'
  <2>1. Finishing /\ UNCHANGED <<file, promised>>
    BY <1>5, ForgetObjects DEF DestroyFinished, DestroyUnfinished
  <2>2. \A u \in Txn : Unfinished(u)' => writes'[u] = writes[u]
    BY <1>5 DEF TypeOK, DestroyFinished, DestroyUnfinished, Forget, Unfinished, Exists
  <2>3. CASE DestroyFinished(t)
    BY <1>3, <2>1, <2>2, <2>3 DEF DestroyFinished
  <2>4. CASE DestroyUnfinished(t)
    BY <1>0, <2>1, <2>2, <2>4, BooksAfterRollback DEF DestroyUnfinished
  <2> QED
    BY <1>5, <2>3, <2>4
<1>6. ASSUME NEW t \in Txn, DestroyTerminates(t) \/ CrashInCommit(t)
      PROVE  Books'
  <2>1. conn[t] \in Conn /\ Unfinished(t)
    BY <1>6 DEF TypeOK, DestroyTerminates, CrashInCommit, Unfinished, Exists
  <2>2. CASE DestroyTerminates(t)
    BY <1>0, <2>1, <2>2, BooksAfterProcessEnds DEF DestroyTerminates
  <2>3. CASE CrashInCommit(t)
    <3>1. pending[conn[t]] \cap discarded = {}
      BY <2>1, <2>3, CreditOf DEF CrashInCommit, Books
    <3> QED
      BY <1>0, <2>1, <2>3, <3>1, BooksAfterProcessEnds DEF CrashInCommit
  <2> QED
    BY <1>6, <2>2, <2>3
<1>7. ASSUME NEW c \in Conn, CloseDatabase(c) \/ Crash(c)
      PROVE  Books'
  BY <1>0, <1>7, BooksAfterProcessEnds DEF CloseDatabase, Crash
<1>8. ASSUME NEW c \in Conn, NEW x \in Change, WriteInTx(c, x) \/ WriteThrough(c, x)
      PROVE  Books'
  <2>1. AccountInv'
    BY <1>0, <1>8, AccountAfterWrite DEF Books
  <2>2. Durability' /\ RolledBackStaysOut'
    BY <1>8 DEF Books, Durability, RolledBackStaysOut, WriteInTx, WriteThrough
  <2> QED
    BY <2>1, <2>2 DEF Books
\* An automatic rollback drops what every object on c has to its credit.
<1>9. ASSUME NEW c \in Conn, WriteRollsBack(c)
      PROVE  Books'
  <2>1. Finishing /\ \A u \in Txn : conn[u] # c => writes'[u] = writes[u]
    BY <1>9 DEF WriteRollsBack, Finishing, Unfinished, Exists, UnfinishedOn
  <2>2. UNION {writes[u] : u \in UnfinishedOn(c)} \subseteq pending[c]
    BY <1>9 DEF WriteRollsBack, Books, AccountInv
  <2>3. /\ EndSqlTx(c) /\ UNCHANGED <<file, promised>>
        /\ discarded' \subseteq discarded \cup pending[c]
    BY <1>9, <2>2 DEF WriteRollsBack
  <2>4. AccountInv'
    BY <1>0, <2>1, <2>3, EndSqlTxOf, AccountAfterEnd DEF Books
  <2>5. pending[c] \cap file = {}
    BY DEF Books, AccountInv
  <2> QED
    BY <2>3, <2>4, <2>5 DEF Books, Durability, RolledBackStaysOut
<1>10. ASSUME UNCHANGED <<file, sqlTx, pending, stuck, discarded, promised, conn, committed, writes>>
       PROVE  Books'
  BY <1>3, <1>10 DEF Finishing, Unfinished, Exists
<1>11. ASSUME NEW c \in Conn,
              \/ SelectBegins(c) \/ SelectEnds(c) \/ OpenDatabase(c)
              \/ \E x \in Change : WriteConflict(c, x)
       PROVE  Books'
  BY <1>10, <1>11 DEF SelectBegins, SelectEnds, OpenDatabase, WriteConflict
<1>12. CASE UNCHANGED vars
  BY <1>10, <1>12 DEF vars
<1> QED
  BY <1>1, <1>2, <1>4, <1>5, <1>6, <1>7, <1>8, <1>9, <1>11, <1>12
  DEF Next, TransactionCall, WriteCall, DatabaseCall, Destroy, BeginThrows, WriteBusy, SelectBusy

LEMMA BooksAlways ==
    ASSUME Nesting = FALSE
    PROVE  Spec => []Books
<1>1. Init => Books
  BY DEF Init, Books, AccountInv, Durability, RolledBackStaysOut, Unfinished, Exists
<1>2. TypeOK /\ LockInv /\ ObjectInv /\ Books /\ [Next]_vars => Books'
  BY BooksStep
<1> QED
  BY <1>1, <1>2, TypeCorrect, Locking, ObjectsAlways, PTL DEF Spec

\* Without nested Transaction objects, what a commit() that returned has
\* written, and a write outside of every transaction, stays in the file for ever.
THEOREM Durable ==
    ASSUME Nesting = FALSE
    PROVE  Spec => []Durability
<1>1. Books => Durability
  BY DEF Books
<1> QED
  BY <1>1, BooksAlways, PTL

\* Without nested Transaction objects, what rollback(), the destructor, a failed
\* commit() or SQLite itself has thrown away never turns up in the file.
THEOREM StaysOut ==
    ASSUME Nesting = FALSE
    PROVE  Spec => []RolledBackStaysOut
<1>1. Books => RolledBackStaysOut
  BY DEF Books
<1> QED
  BY <1>1, BooksAlways, PTL
-----------------------------------------------------------------------------
(* After a failed commit().                                                *)

\* Who changes the file has an unfinished object or is in autocommit mode, and
\* a connection that a failed commit() left in a SQLite transaction has neither.
LEMMA StuckStep ==
    ASSUME TypeOK, Books, [Next]_vars
    PROVE  \A c \in Conn : stuck[c] /\ file' # file => committer' # c
<1> SUFFICES ASSUME NEW c \in Conn, stuck[c], file' # file PROVE committer' # c
  OBVIOUS
<1> USE DEF dbVars, objVars, history
<1>0. sqlTx[c] /\ \A t \in Txn : Unfinished(t) => conn[t] # c
  BY DEF Books, AccountInv, UnfinishedOn, Unfinished, Exists
<1>1. ASSUME NEW t \in Txn, Commit(t)
      PROVE  committer' = conn[t] /\ Unfinished(t)
  BY <1>1 DEF TypeOK, Commit, CommitSucceeds, CommitBusy, CommitViolatesKey, CommitRolledBack,
              CommitWithoutTx
<1>2. ASSUME NEW t \in Txn, CrashInCommit(t)
      PROVE  committer' = conn[t] /\ Unfinished(t)
  BY <1>2 DEF CrashInCommit
<1>3. ASSUME NEW d \in Conn, NEW x \in Change, WriteThrough(d, x)
      PROVE  committer' = d /\ ~sqlTx[d]
  BY <1>3 DEF WriteThrough
<1> QED
  BY <1>0, <1>1, <1>2, <1>3
  DEF Next, TransactionCall, WriteCall, DatabaseCall, vars, Begin, BeginThrows, Rollback, Destroy,
      DestroyFinished, DestroyUnfinished, DestroyTerminates, WriteRollsBack, WriteBusy, WriteInTx,
      WriteConflict, SelectBegins, SelectBusy, SelectEnds, CloseDatabase, Crash, OpenDatabase

\* Without nested Transaction objects, nothing that a connection writes after a
\* commit() that threw reaches the file before its SQLite transaction is over.
THEOREM StuckIsolated ==
    ASSUME Nesting = FALSE
    PROVE  Spec => StuckReachesNothing
<1>1. TypeOK /\ Books /\ [Next]_vars
      => [\A c \in Conn : stuck[c] /\ file' # file => committer' # c]_vars
  BY StuckStep
<1> QED
  BY <1>1, TypeCorrect, BooksAlways, PTL DEF Spec, StuckReachesNothing

=============================================================================
