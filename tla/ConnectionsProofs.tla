-------------------------- MODULE ConnectionsProofs --------------------------
(***************************************************************************)
(* Who owns, closes and outlives which handle, for any number of Database  *)
(* and Statement objects and of handles.                                   *)
(***************************************************************************)
EXTENDS Connections, TLAPS

-----------------------------------------------------------------------------
(* Types.                                                                  *)

\* A Statement that points to a Database points to one that is there.
DatabaseThere == \A s \in Stmt : stmtDb[s] \in Db => db[stmtDb[s]] # None

TypeInv == TypeOK /\ DatabaseThere

LEMMA ClosedType ==
    ASSUME TypeOK, NEW c \in Conn, NEW v \in Close, CloseHandle(c, v)
    PROVE  conn' \in [Conn -> {"unused", "open", "zombie", "closed"}]
  BY DEF TypeOK, Close, CloseHandle

LEMMA CallEndsType ==
    ASSUME TypeOK, NEW d \in Db, CallEnds(d)
    PROVE  /\ call' \in [Db -> Call \cup {None}]
           /\ existed' \in [Db -> BOOLEAN]
           /\ raced' \in [Db -> BOOLEAN]
           /\ \A e \in Db : call'[e] = None => ~existed'[e] /\ ~raced'[e]
<1>1. call' \in [Db -> Call \cup {None}] /\ existed' \in [Db -> BOOLEAN]
  BY DEF TypeOK, CallEnds
<1>2. raced' \in [Db -> BOOLEAN]
  BY DEF CallEnds
<1>3. ASSUME NEW e \in Db, call'[e] = None
      PROVE  ~existed'[e] /\ ~raced'[e]
  <2>1. CASE e = d
    BY <2>1 DEF TypeOK, CallEnds
  <2>2. CASE e # d
    <3>1. call[e] = None
      BY <1>3, <2>2 DEF TypeOK, CallEnds
    <3> QED
      BY <2>2, <3>1 DEF TypeOK, CallEnds
  <2> QED
    BY <2>1, <2>2
<1> QED
  BY <1>1, <1>2, <1>3

LEMMA FinalizedType ==
    ASSUME TypeOK, NEW h \in Handle, FinalizeStmt(h)
    PROVE  /\ on' \in [Handle -> Conn \cup NotLive]
           /\ conn' \in [Conn -> {"unused", "open", "zombie", "closed"}]
  BY DEF TypeOK, FinalizeStmt, NotLive

LEMMA TypeStep == TypeInv /\ [Next]_vars => TypeInv'
<1> SUFFICES ASSUME TypeInv, [Next]_vars PROVE TypeInv'
  OBVIOUS
<1> USE DEF TypeInv, openVars, dbVars, stmtVars
<1>1. ASSUME NEW d \in Db, NEW k \in Call, LookForFile(d, k)
      PROVE  TypeInv'
  <2>0. (Looks(k) /\ file) \in BOOLEAN
    BY DEF Looks, Call
  <2>1. call' \in [Db -> Call \cup {None}] /\ existed' \in [Db -> BOOLEAN]
    BY <1>1, <2>0 DEF TypeOK, LookForFile
  <2>2. \A e \in Db : call'[e] = None => ~existed'[e] /\ ~raced'[e]
    BY <1>1, NoneAssumption DEF TypeOK, LookForFile
  <2> QED
    BY <1>1, <2>1, <2>2 DEF TypeOK, DatabaseThere, LookForFile
<1>2. ASSUME NEW d \in Db, Open(d)
      PROVE  TypeInv'
  <2>1. PICK c \in Conn : ConnectTo(c) /\ db' = [db EXCEPT ![d] = c]
    BY <1>2 DEF Open
  <2>2. /\ conn' \in [Conn -> {"unused", "open", "zombie", "closed"}]
        /\ db' \in [Db -> Conn \cup {None}]
    BY <2>1 DEF TypeOK, ConnectTo
  <2>3. file' \in BOOLEAN
    BY <1>2 DEF Open, TypeOK
  <2>4. DatabaseThere'
    BY <1>2, <2>1, NoneAssumption DEF Open, TypeOK, DatabaseThere
  <2> QED
    BY <1>2, <2>2, <2>3, <2>4, CallEndsType DEF TypeOK, Open
<1>3. ASSUME NEW d \in Db, OpenThrows(d)
      PROVE  TypeInv'
  <2>1. PICK c \in Conn : ConnectTo(c) /\ lost' = lost \cup {c}
    BY <1>3 DEF OpenThrows
  <2>2. conn' \in [Conn -> {"unused", "open", "zombie", "closed"}]
    BY <2>1 DEF TypeOK, ConnectTo
  <2>3. file' \in BOOLEAN /\ lost' \in SUBSET Conn
    BY <1>3, <2>1 DEF OpenThrows, TypeOK
  <2>4. DatabaseThere'
    BY <1>3 DEF OpenThrows, DatabaseThere
  <2> QED
    BY <1>3, <2>2, <2>3, <2>4, CallEndsType DEF TypeOK, OpenThrows
<1>4. ASSUME OthersChangeFile
      PROVE  TypeInv'
  <2>1. file' \in BOOLEAN /\ raced' \in [Db -> BOOLEAN]
        /\ \A d \in Db : call'[d] = None => ~existed'[d] /\ ~raced'[d]
    BY <1>4 DEF OthersChangeFile, TypeOK
  <2> QED
    BY <1>4, <2>1 DEF OthersChangeFile, TypeOK, DatabaseThere
<1>5. ASSUME NEW d \in Db, NEW v \in Close, SetClose(d, v)
      PROVE  TypeInv'
  BY <1>5 DEF SetClose, TypeOK, DatabaseThere
<1>6. ASSUME NEW d \in Db, NEW v \in Shutdown, SetShutdown(d, v)
      PROVE  TypeInv'
  BY <1>6 DEF SetShutdown, TypeOK, DatabaseThere
<1>7. ASSUME NEW d \in Db, DestroyDatabase(d)
      PROVE  TypeInv'
  <2>1. db[d] \in Conn /\ close[d] \in Close
    BY <1>7 DEF TypeOK, DestroyDatabase
  <2>2. conn' \in [Conn -> {"unused", "open", "zombie", "closed"}]
    BY <1>7, <2>1, ClosedType DEF DestroyDatabase
  <2>3. /\ db' \in [Db -> Conn \cup {None}] /\ close' \in [Db -> Close]
        /\ shutdown' \in [Db -> Shutdown] /\ stmtDb' \in [Stmt -> Db \cup {None, Gone}]
    BY <1>7 DEF TypeOK, DestroyDatabase, Close, Shutdown
  <2>4. lost' \in SUBSET Conn
    BY <1>7, <2>1 DEF DestroyDatabase, TypeOK
  <2>5. DatabaseThere'
    BY <1>7, GoneAssumption DEF DestroyDatabase, TypeOK, DatabaseThere
  <2> QED
    BY <1>7, <2>2, <2>3, <2>4, <2>5 DEF TypeOK, DestroyDatabase
<1>8. ASSUME NEW d \in Db, NEW e \in Db, MoveDatabase(d, e)
      PROVE  TypeInv'
  BY <1>8 DEF MoveDatabase, TypeOK, DatabaseThere
<1>9. ASSUME NEW s \in Stmt, NEW d \in Db, Construct(s, d)
      PROVE  TypeInv'
  BY <1>9 DEF Construct, TypeOK, DatabaseThere
<1>10. ASSUME NEW s \in Stmt, Prepare(s)
       PROVE  TypeInv'
  <2>1. db[stmtDb[s]] \in Conn
    BY <1>10 DEF Prepare, TypeOK, DatabaseThere
  <2> QED
    BY <1>10, <2>1 DEF Prepare, TypeOK, DatabaseThere
<1>11. ASSUME NEW s \in Stmt, DestroyStatement(s)
       PROVE  TypeInv'
  <2>1. /\ on' \in [Handle -> Conn \cup NotLive]
        /\ conn' \in [Conn -> {"unused", "open", "zombie", "closed"}]
    <3>1. CASE stmt[s] = None
      BY <1>11, <3>1 DEF DestroyStatement, TypeOK
    <3>2. CASE stmt[s] # None
      BY <1>11, <3>2, FinalizedType DEF DestroyStatement, TypeOK
    <3> QED
      BY <3>1, <3>2
  <2>2. /\ built' \in [Stmt -> BOOLEAN] /\ stmt' \in [Stmt -> Handle \cup {None}]
        /\ stmtDb' \in [Stmt -> Db \cup {None, Gone}]
    BY <1>11 DEF DestroyStatement, TypeOK
  <2>3. DatabaseThere'
    BY <1>11, NoneAssumption DEF DestroyStatement, TypeOK, DatabaseThere
  <2> QED
    BY <1>11, <2>1, <2>2, <2>3 DEF DestroyStatement, TypeOK
<1>12. ASSUME NEW s \in Stmt, NEW t \in Stmt, MoveStatement(s, t)
       PROVE  TypeInv'
  BY <1>12 DEF MoveStatement, TypeOK, DatabaseThere
<1>13. CASE UNCHANGED vars
  BY <1>13 DEF vars, TypeOK, DatabaseThere
<1> QED
  BY <1>1, <1>2, <1>3, <1>4, <1>5, <1>6, <1>7, <1>8, <1>9, <1>10, <1>11, <1>12, <1>13 DEF Next

LEMMA TypesAlways == Spec => []TypeInv
<1>1. Init => TypeInv
  <2> SUFFICES ASSUME Init PROVE TypeInv
    OBVIOUS
  <2>1. /\ existed \in [Db -> BOOLEAN] /\ raced \in [Db -> BOOLEAN]
        /\ \A d \in Db : ~existed[d] /\ ~raced[d]
    BY DEF Init
  <2>2. /\ close \in [Db -> Close] /\ shutdown \in [Db -> Shutdown]
        /\ built \in [Stmt -> BOOLEAN]
    BY DEF Init, Close, Shutdown
  <2>3. file \in BOOLEAN /\ moved \in BOOLEAN /\ lost \in SUBSET Conn
    BY DEF Init
  <2>4. DatabaseThere
    BY NoneAssumption DEF Init, DatabaseThere
  <2> QED
    BY <2>1, <2>2, <2>3, <2>4 DEF Init, TypeInv, TypeOK, NotLive
<1> QED
  BY <1>1, TypeStep, PTL DEF Spec

\* Every handle, pointer and policy keeps its type: in particular no Statement is
\* prepared on a Database that is not there.
THEOREM TypeCorrect == Spec => []TypeOK
<1>1. TypeInv => TypeOK
  BY DEF TypeInv
<1> QED
  BY <1>1, TypesAlways, PTL

-----------------------------------------------------------------------------
(* What every step does to the handles.                                    *)

\* Handles on which nothing but the connection of one of them changes.
LEMMA ConnectedOne ==
    ASSUME TypeOK, NEW c \in Conn, ConnectTo(c)
    PROVE  /\ conn[c] = "unused" /\ conn'[c] = "open"
           /\ \A e \in Conn : e # c => conn'[e] = conn[e]
  BY DEF TypeOK, ConnectTo

LEMMA ClosedOne ==
    ASSUME TypeOK, NEW c \in Conn, NEW v \in Close, CloseHandle(c, v)
    PROVE  /\ \A e \in Conn : e # c => conn'[e] = conn[e]
           /\ LiveOn(c) # {} => conn'[c] \in {conn[c], "zombie"}
           /\ LiveOn(c) # {} /\ v = "V2" => conn'[c] = "zombie"
           /\ LiveOn(c) = {} /\ v # "Off" => conn'[c] = "closed"
  BY DEF TypeOK, Close, CloseHandle

LEMMA FinalizedOne ==
    ASSUME TypeOK, NEW h \in Handle, FinalizeStmt(h)
    PROVE  /\ on'[h] = "finalized" /\ \A g \in Handle : g # h => on'[g] = on[g]
           /\ \A c \in Conn : conn'[c] = IF conn[c] = "zombie" /\ LiveOn(c) = {h}
                                         THEN "closed" ELSE conn[c]
  BY DEF TypeOK, FinalizeStmt

-----------------------------------------------------------------------------
(* What exists() has returned.                                             *)

\* It is still true unless somebody else has changed the file.
FileKnown ==
    \A d \in Db : call[d] # None /\ ~raced[d] /\ Looks(call[d]) => (existed[d] <=> file)

LEMMA FileStep == TypeInv /\ FileKnown /\ [Next]_vars => FileKnown'
<1> SUFFICES ASSUME TypeOK, FileKnown, [Next]_vars,
                    NEW e \in Db, call'[e] # None, ~raced'[e], Looks(call'[e])
             PROVE  existed'[e] <=> file'
  BY DEF TypeInv, FileKnown
<1> USE DEF openVars, dbVars, stmtVars
<1>1. ASSUME NEW d \in Db, NEW k \in Call, LookForFile(d, k)
      PROVE  existed'[e] <=> file'
  <2>1. CASE e = d
    BY <1>1, <2>1 DEF TypeOK, LookForFile
  <2>2. CASE e # d
    BY <1>1, <2>2 DEF TypeOK, LookForFile, FileKnown
  <2> QED
    BY <2>1, <2>2
<1>2. ASSUME NEW d \in Db, CallEnds(d)
      PROVE  existed'[e] <=> file'
  <2>1. e # d /\ call[e] # None
    BY <1>2 DEF TypeOK, CallEnds
  <2>2. ~raced[e] /\ file' = file
    BY <1>2, <2>1 DEF CallEnds
  <2>3. existed'[e] = existed[e] /\ call'[e] = call[e]
    BY <1>2, <2>1 DEF TypeOK, CallEnds
  <2> QED
    BY <2>1, <2>2, <2>3 DEF FileKnown
<1>3. ASSUME OthersChangeFile
      PROVE  FALSE
  BY <1>3 DEF OthersChangeFile
<1>4. ASSUME UNCHANGED openVars
      PROVE  existed'[e] <=> file'
  BY <1>4 DEF FileKnown
<1> QED
  BY <1>1, <1>2, <1>3, <1>4
  DEF Next, vars, Open, OpenThrows, DestroyDatabase, DestroyStatement, Prepare, SetClose,
      SetShutdown, Construct, MoveStatement, MoveDatabase

\* What create() and openOrCreate() tell the program about the file is true
\* unless another process came between exists() and sqlite3_open_v2.
THEOREM ToldTheTruth == Spec => CreatedAsTold
<1>1. Init => FileKnown
  BY DEF Init, FileKnown
<1>2. Spec => []FileKnown
  BY <1>1, FileStep, TypesAlways, PTL DEF Spec
<1>3. TypeInv /\ FileKnown
      => [\A d \in Db : call[d] # None /\ db'[d] # None =>
             call[d].memory \/ raced[d] \/ Created(d) = ~file]_vars
  <2> SUFFICES ASSUME TypeOK, FileKnown, NEW d \in Db, call[d] # None, ~raced[d], ~call[d].memory
               PROVE  Created(d) = ~file
    BY DEF TypeInv
  <2>1. existed[d] <=> file
    BY DEF FileKnown, Looks
  <2> QED
    BY <2>1 DEF Created
<1> QED
  BY <1>2, <1>3, TypesAlways, PTL DEF Spec, CreatedAsTold

-----------------------------------------------------------------------------
(* Ownership, while the program moves nothing.                             *)

\* A prepared Statement is the only owner of a live handle, on the connection
\* of its Database if that is still there.
StmtOwns ==
    \A s \in Stmt : stmt[s] # None =>
        /\ built[s] /\ on[stmt[s]] \in Conn
        /\ \A t \in Stmt : stmt[t] = stmt[s] => t = s
        /\ stmtDb[s] = Gone \/ (stmtDb[s] \in Db /\ db[stmtDb[s]] = on[stmt[s]])

\* A live handle has an owner, and a connection that was not freed.
HandleOwned ==
    \A h \in Handle : on[h] \in Conn =>
        /\ conn[on[h]] \in {"open", "zombie"}
        /\ \E s \in Stmt : stmt[s] = h

\* A Database is the only owner of an open connection, and has none while its
\* static method runs.
DbOwns ==
    \A d \in Db :
        /\ db[d] # None => /\ conn[db[d]] = "open"
                           /\ \A e \in Db : db[e] = db[d] => e = d
        /\ call[d] # None => db[d] = None

\* A Statement that has outlived its Database is on a connection that no other
\* Database has, and what is not lost has somebody who closes it.
CloserInv ==
    /\ \A s \in Stmt : stmtDb[s] = Gone /\ stmt[s] # None => \A d \in Db : db[d] # on[stmt[s]]
    /\ \A c \in Conn : conn[c] \in {"open", "zombie"} => c \in lost \/ HasCloser(c)

Owns == StmtOwns /\ HandleOwned /\ DbOwns /\ CloserInv

LEMMA OwnsAfterOpen ==
    ASSUME TypeOK, Owns, NEW d \in Db, Open(d)
    PROVE  Owns'
<1> USE DEF Owns, stmtVars
<1>1. PICK c \in Conn : ConnectTo(c) /\ db' = [db EXCEPT ![d] = c]
  BY DEF Open
<1>2. /\ conn[c] = "unused" /\ conn'[c] = "open"
      /\ \A e \in Conn : e # c => conn'[e] = conn[e]
      /\ db'[d] = c /\ \A e \in Db : e # d => db'[e] = db[e]
      /\ UNCHANGED <<built, stmt, stmtDb, on>>
      /\ call'[d] = None /\ \A e \in Db : e # d => call'[e] = call[e]
  BY <1>1, ConnectedOne DEF Open, CallEnds, TypeOK
<1>3. db[d] = None /\ \A e \in Db : db[e] # None => db[e] \in Conn
  BY DEF Open, DbOwns, TypeOK
<1>4. \A e \in Db : db[e] # c
  BY <1>2, NoneAssumption DEF DbOwns
<1>5. StmtOwns'
  <2>1. \A s \in Stmt : stmt[s] # None /\ stmtDb[s] # Gone => stmtDb[s] # d
    BY <1>3, NoneAssumption DEF StmtOwns
  <2> QED
    BY <1>2, <2>1 DEF StmtOwns
<1>6. HandleOwned'
  BY <1>2 DEF HandleOwned
<1>7. DbOwns'
  <2>1. \A e \in Db : e # d /\ db[e] # None => conn'[db[e]] = "open"
    BY <1>2, <1>3, <1>4 DEF DbOwns
  <2> QED
    BY <1>2, <1>4, <2>1 DEF DbOwns
<1>8. CloserInv'
  <2>1. \A s \in Stmt : stmt[s] # None => on[stmt[s]] # c
    BY <1>2 DEF StmtOwns, HandleOwned, TypeOK
  <2>2. ASSUME NEW e \in Conn, e # c, HasCloser(e)
        PROVE  HasCloser(e)'
    BY <1>2, <1>3, <2>2, NoneAssumption DEF HasCloser
  <2>3. HasCloser(c)' /\ lost' = lost
    BY <1>2 DEF HasCloser, Open
  <2> QED
    BY <1>2, <2>1, <2>2, <2>3 DEF CloserInv
<1> QED
  BY <1>5, <1>6, <1>7, <1>8

LEMMA OwnsAfterOpenThrows ==
    ASSUME TypeOK, Owns, NEW d \in Db, OpenThrows(d)
    PROVE  Owns'
<1> USE DEF Owns, stmtVars, dbVars
<1>1. PICK c \in Conn : ConnectTo(c) /\ lost' = lost \cup {c}
  BY DEF OpenThrows
<1>2. /\ conn[c] = "unused" /\ conn'[c] = "open"
      /\ \A e \in Conn : e # c => conn'[e] = conn[e]
      /\ UNCHANGED <<db, built, stmt, stmtDb, on>>
      /\ call'[d] = None /\ \A e \in Db : e # d => call'[e] = call[e]
  BY <1>1, ConnectedOne DEF OpenThrows, CallEnds, TypeOK
<1>3. \A e \in Db : db[e] # None => conn'[db[e]] = "open"
  BY <1>2 DEF DbOwns, TypeOK
<1>4. CloserInv'
  <2>1. \A e \in Conn : e # c /\ HasCloser(e) => HasCloser(e)'
    BY <1>2 DEF HasCloser
  <2> QED
    BY <1>1, <1>2, <2>1 DEF CloserInv
<1> QED
  BY <1>2, <1>3, <1>4 DEF StmtOwns, HandleOwned, DbOwns

LEMMA OwnsAfterDestroyDatabase ==
    ASSUME TypeOK, Owns, NEW d \in Db, DestroyDatabase(d)
    PROVE  Owns'
<1> USE DEF Owns
<1> DEFINE c == db[d]
<1>1. c \in Conn /\ close[d] \in Close /\ CloseHandle(c, close[d])
  BY DEF DestroyDatabase, TypeOK
<1>2. /\ \A e \in Conn : e # c => conn'[e] = conn[e]
      /\ LiveOn(c) # {} => conn'[c] \in {conn[c], "zombie"}
      /\ LiveOn(c) # {} /\ close[d] = "V2" => conn'[c] = "zombie"
      /\ LiveOn(c) = {} /\ close[d] # "Off" => conn'[c] = "closed"
  BY <1>1, ClosedOne
<1>3. /\ db'[d] = None /\ \A e \in Db : e # d => db'[e] = db[e]
      /\ UNCHANGED <<call, built, stmt, on>>
      /\ \A s \in Stmt : stmtDb'[s] = IF stmtDb[s] = d THEN Gone ELSE stmtDb[s]
  BY DEF DestroyDatabase, TypeOK, openVars
<1>4. \A e \in Db : e # d => db[e] # c
  BY DEF DbOwns, DestroyDatabase
<1>5. conn[c] = "open"
  BY DEF DbOwns, DestroyDatabase
<1> HIDE DEF c
<1>6. StmtOwns'
  BY <1>3 DEF StmtOwns
<1>7. HandleOwned'
  <2>1. \A h \in Handle : on[h] = c => conn'[c] \in {"open", "zombie"}
    BY <1>2, <1>5 DEF LiveOn
  <2> QED
    BY <1>2, <1>3, <2>1 DEF HandleOwned
<1>8. DbOwns'
  <2>1. \A e \in Db : e # d /\ db[e] # None => conn'[db[e]] = "open"
    BY <1>2, <1>4 DEF DbOwns, TypeOK
  <2> QED
    BY <1>3, <2>1 DEF DbOwns
<1>9. ASSUME NEW h \in LiveOn(c)
      PROVE  \E s \in Stmt : stmt[s] = h /\ stmtDb[s] = d
  <2>1. on[h] = c /\ c \in Conn /\ h # None
    BY <1>1, NoneAssumption DEF LiveOn, c
  <2>2. PICK s \in Stmt : stmt[s] = h
    BY <2>1 DEF HandleOwned, LiveOn
  <2>3. stmtDb[s] # Gone
    BY <2>1, <2>2 DEF CloserInv, c
  <2>4. stmtDb[s] \in Db /\ db[stmtDb[s]] = c
    BY <2>1, <2>2, <2>3 DEF StmtOwns
  <2> QED
    BY <1>4, <2>2, <2>4
<1>10. ASSUME NEW s \in Stmt, stmtDb'[s] = Gone, stmt[s] # None, NEW e \in Db
       PROVE  db'[e] # on[stmt[s]]
  <2>1. on[stmt[s]] \in Conn
    BY <1>10 DEF StmtOwns
  <2>2. CASE stmtDb[s] = d
    <3>1. on[stmt[s]] = c
      BY <1>10, <2>2, GoneAssumption DEF StmtOwns, c
    <3> QED
      BY <1>3, <1>4, <2>1, <3>1, NoneAssumption
  <2>3. CASE stmtDb[s] # d
    BY <1>3, <1>10, <2>1, <2>3, NoneAssumption DEF CloserInv
  <2> QED
    BY <2>2, <2>3
<1>11. ASSUME NEW e \in Conn, conn'[e] \in {"open", "zombie"}
       PROVE  e \in lost' \/ HasCloser(e)'
  <2>1. CASE e # c
    <3>1. e \in lost \/ HasCloser(e)
      BY <1>2, <1>11, <2>1 DEF CloserInv
    <3>2. lost \subseteq lost'
      BY DEF DestroyDatabase
    <3> QED
      BY <1>2, <1>3, <2>1, <3>1, <3>2 DEF HasCloser, c
  <2>2. CASE e = c
    <3>1. CASE LiveOn(c) = {}
      <4>1. close[d] = "Off"
        BY <1>2, <1>11, <2>2, <3>1
      <4> QED
        BY <2>2, <4>1 DEF DestroyDatabase, c
    <3>2. CASE LiveOn(c) # {}
      <4>1. PICK h \in LiveOn(c), s \in Stmt : stmt[s] = h /\ stmtDb[s] = d
        BY <1>9, <3>2
      <4>2. stmt[s] # None /\ on[stmt[s]] = c
        BY <4>1, NoneAssumption DEF LiveOn
      <4>3. CASE close[d] = "V2"
        BY <1>2, <1>3, <2>2, <3>2, <4>2, <4>3 DEF HasCloser
      <4>4. CASE close[d] # "V2"
        <5>1. c \in lost'
          BY <1>1, <4>1, <4>2, <4>4 DEF DestroyDatabase, InUse, Close, c
        <5> QED
          BY <2>2, <5>1
      <4> QED
        BY <4>3, <4>4
    <3> QED
      BY <3>1, <3>2
  <2> QED
    BY <2>1, <2>2
<1>12. CloserInv'
  BY <1>3, <1>10, <1>11 DEF CloserInv
<1> QED
  BY <1>6, <1>7, <1>8, <1>12

LEMMA OwnsAfterPrepare ==
    ASSUME TypeOK, DatabaseThere, Owns, NEW s \in Stmt, Prepare(s)
    PROVE  Owns'
<1> USE DEF Owns, openVars, dbVars
<1> DEFINE c == db[stmtDb[s]]
<1>1. c \in Conn /\ conn[c] = "open" /\ stmtDb[s] \in Db /\ built[s]
  BY DEF Prepare, TypeOK, DatabaseThere
<1>2. PICK h \in Handle : /\ on[h] = "unused"
                          /\ on' = [on EXCEPT ![h] = c]
                          /\ stmt' = [stmt EXCEPT ![s] = h]
  BY DEF Prepare
<1>3. /\ on'[h] = c /\ \A g \in Handle : g # h => on'[g] = on[g]
      /\ stmt'[s] = h /\ \A t \in Stmt : t # s => stmt'[t] = stmt[t]
      /\ UNCHANGED <<db, call, conn, built, stmtDb, lost>>
  BY <1>2 DEF Prepare, TypeOK
<1>4. stmt[s] = None /\ \A t \in Stmt : stmt[t] # h
  <2>1. h # None /\ on[h] \notin Conn
    BY <1>2, NoneAssumption, LiveAssumption DEF NotLive
  <2> QED
    BY <2>1 DEF StmtOwns, Prepare
<1>5. StmtOwns'
  <2> SUFFICES ASSUME NEW t \in Stmt, stmt'[t] # None
               PROVE  /\ built[t] /\ on'[stmt'[t]] \in Conn
                      /\ \A u \in Stmt : stmt'[u] = stmt'[t] => u = t
                      /\ stmtDb[t] = Gone \/ (stmtDb[t] \in Db /\ db[stmtDb[t]] = on'[stmt'[t]])
    BY <1>3 DEF StmtOwns
  <2>1. CASE t = s
    BY <1>1, <1>3, <1>4, <2>1
  <2>2. CASE t # s
    <3>1. stmt'[t] = stmt[t] /\ stmt[t] \in Handle /\ stmt[t] # h /\ on'[stmt[t]] = on[stmt[t]]
      BY <1>3, <1>4, <2>2 DEF TypeOK
    <3> QED
      BY <1>3, <2>2, <3>1 DEF StmtOwns
  <2> QED
    BY <2>1, <2>2
<1>6. HandleOwned'
  <2>1. ASSUME NEW g \in Handle, g # h, on[g] \in Conn
        PROVE  \E t \in Stmt : stmt'[t] = g
    <3>1. PICK t \in Stmt : stmt[t] = g
      BY <2>1 DEF HandleOwned
    <3>2. t # s
      BY <1>4, <3>1, NoneAssumption
    <3> QED
      BY <1>3, <3>1, <3>2
  <2> QED
    BY <1>1, <1>3, <2>1 DEF HandleOwned
<1>7. DbOwns'
  BY <1>3 DEF DbOwns
<1>8. \A t \in Stmt : stmt[t] # None => stmt'[t] = stmt[t] /\ on'[stmt[t]] = on[stmt[t]]
  <2>1. \A t \in Stmt : stmt[t] # None => t # s /\ stmt[t] \in Handle
    BY <1>4 DEF TypeOK
  <2> QED
    BY <1>3, <1>4, <2>1
<1>9. CloserInv'
  <2>1. \A t \in Stmt : stmt'[t] # None /\ stmtDb[t] = Gone => stmt[t] # None
    BY <1>1, <1>3, GoneAssumption
  <2>2. \A e \in Conn : HasCloser(e) => HasCloser(e)'
    BY <1>3, <1>8 DEF HasCloser
  <2> QED
    BY <1>3, <1>8, <2>1, <2>2 DEF CloserInv
<1> QED
  BY <1>5, <1>6, <1>7, <1>9

LEMMA OwnsAfterDestroyStatement ==
    ASSUME TypeOK, Owns, NEW s \in Stmt, DestroyStatement(s)
    PROVE  Owns'
<1> USE DEF Owns, openVars, dbVars
<1>1. /\ stmt'[s] = None /\ \A t \in Stmt : t # s => stmt'[t] = stmt[t]
      /\ \A t \in Stmt : t # s => built'[t] = built[t]
      /\ stmtDb'[s] = None /\ \A t \in Stmt : t # s => stmtDb'[t] = stmtDb[t]
      /\ UNCHANGED <<db, call, lost>>
  BY DEF DestroyStatement, TypeOK
<1>2. CASE stmt[s] = None
  <2>1. UNCHANGED <<on, conn>>
    BY <1>2 DEF DestroyStatement
  <2>2. \A t \in Stmt : stmt'[t] = stmt[t]
    BY <1>1, <1>2
  <2> QED
    BY <1>1, <2>1, <2>2, GoneAssumption DEF StmtOwns, HandleOwned, DbOwns, CloserInv, HasCloser
<1>3. CASE stmt[s] # None
  <2> DEFINE h == stmt[s]
  <2>1. h \in Handle /\ FinalizeStmt(h)
    BY <1>3 DEF DestroyStatement, TypeOK
  <2>2. /\ on'[h] = "finalized" /\ \A g \in Handle : g # h => on'[g] = on[g]
        /\ \A c \in Conn : conn'[c] = IF conn[c] = "zombie" /\ LiveOn(c) = {h}
                                      THEN "closed" ELSE conn[c]
    BY <2>1, FinalizedOne
  <2>3. \A t \in Stmt : t # s => stmt[t] # h
    BY <1>3 DEF StmtOwns
  <2>4. on'[h] \notin Conn
    BY <2>2, LiveAssumption DEF NotLive
  <2> HIDE DEF h
  <2>5. StmtOwns'
    <3> SUFFICES ASSUME NEW t \in Stmt, stmt'[t] # None
                 PROVE  /\ built'[t] /\ on'[stmt'[t]] \in Conn
                        /\ \A u \in Stmt : stmt'[u] = stmt'[t] => u = t
                        /\ \/ stmtDb'[t] = Gone
                           \/ stmtDb'[t] \in Db /\ db[stmtDb'[t]] = on'[stmt'[t]]
      BY <1>1 DEF StmtOwns
    <3>1. /\ t # s /\ stmt'[t] = stmt[t] /\ stmt[t] # h /\ built'[t] = built[t]
          /\ stmtDb'[t] = stmtDb[t] /\ stmt[t] \in Handle
      BY <1>1, <2>3 DEF TypeOK
    <3>2. on'[stmt[t]] = on[stmt[t]]
      BY <2>2, <3>1
    <3> QED
      BY <1>1, <3>1, <3>2 DEF StmtOwns
  <2>6. HandleOwned'
    <3> SUFFICES ASSUME NEW g \in Handle, on'[g] \in Conn
                 PROVE  conn'[on'[g]] \in {"open", "zombie"} /\ \E t \in Stmt : stmt'[t] = g
      BY DEF HandleOwned
    <3>1. g # h /\ on'[g] = on[g]
      BY <2>2, <2>4
    <3>2. LiveOn(on[g]) # {h} /\ conn[on[g]] \in {"open", "zombie"}
      BY <3>1 DEF LiveOn, HandleOwned
    <3>3. PICK t \in Stmt : stmt[t] = g
      BY <3>1 DEF HandleOwned
    <3>4. t # s
      BY <3>1, <3>3 DEF h
    <3> QED
      BY <1>1, <2>2, <3>1, <3>2, <3>3, <3>4
  <2>7. DbOwns'
    <3>1. \A d \in Db : db[d] # None => conn'[db[d]] = "open"
      BY <2>2 DEF DbOwns, TypeOK
    <3> QED
      BY <1>1, <3>1 DEF DbOwns
  <2>8. ASSUME NEW e \in Conn, conn'[e] \in {"open", "zombie"}
        PROVE  e \in lost' \/ HasCloser(e)'
    <3>1. conn'[e] = conn[e] /\ (conn[e] = "zombie" => LiveOn(e) # {h})
      BY <2>2, <2>8
    <3>2. CASE e \in lost \/ \E d \in Db : db[d] = e
      BY <1>1, <3>2 DEF HasCloser
    <3>3. CASE conn[e] = "zombie" /\ \E t \in Stmt : stmt[t] # None /\ on[stmt[t]] = e
      <4>1. PICK g \in Handle : g # h /\ on[g] = e
        <5>1. PICK t \in Stmt : stmt[t] # None /\ on[stmt[t]] = e
          BY <3>3
        <5>2. stmt[t] \in Handle /\ stmt[t] \in LiveOn(e)
          BY <5>1 DEF TypeOK, LiveOn
        <5> QED
          BY <3>1, <3>3, <5>2 DEF LiveOn
      <4>2. PICK u \in Stmt : stmt[u] = g
        BY <4>1 DEF HandleOwned
      <4>3. u # s /\ g # None
        BY <4>1, <4>2, NoneAssumption DEF h
      <4> QED
        BY <1>1, <2>2, <3>1, <3>3, <4>1, <4>2, <4>3 DEF HasCloser
    <3> QED
      BY <2>8, <3>1, <3>2, <3>3 DEF CloserInv, HasCloser
  <2>9. CloserInv'
    <3>1. ASSUME NEW t \in Stmt, stmtDb'[t] = Gone, stmt'[t] # None, NEW d \in Db
          PROVE  db[d] # on'[stmt'[t]]
      <4>1. t # s /\ stmt'[t] = stmt[t] /\ stmt[t] \in Handle /\ stmt[t] # h
        BY <1>1, <2>3, <3>1 DEF TypeOK
      <4> QED
        BY <1>1, <2>2, <3>1, <4>1 DEF CloserInv
    <3> QED
      BY <1>1, <2>8, <3>1 DEF CloserInv
  <2> QED
    BY <2>5, <2>6, <2>7, <2>9
<1> QED
  BY <1>2, <1>3

Owned == ~moved => Owns

LEMMA OwnedStep == TypeInv /\ Owned /\ [Next]_vars => Owned'
<1> SUFFICES ASSUME TypeOK, DatabaseThere, Owned, [Next]_vars, ~moved' PROVE Owns'
  BY DEF TypeInv, Owned
<1> USE DEF openVars, dbVars, stmtVars
<1>1. ~moved
  BY DEF Next, vars, LookForFile, Open, OpenThrows, OthersChangeFile, SetClose, SetShutdown,
         Construct, Prepare, DestroyStatement, MoveStatement, DestroyDatabase, MoveDatabase
<1>2. Owns
  BY <1>1 DEF Owned
<1>3. ASSUME NEW d \in Db, NEW k \in Call, LookForFile(d, k)
      PROVE  Owns'
  BY <1>2, <1>3 DEF Owns, TypeOK, LookForFile, StmtOwns, HandleOwned, DbOwns, CloserInv, HasCloser
<1>4. ASSUME NEW s \in Stmt, NEW d \in Db, Construct(s, d)
      PROVE  Owns'
  <2>1. stmt[s] = None /\ stmtDb'[s] = d /\ \A t \in Stmt : t # s => stmtDb'[t] = stmtDb[t]
    BY <1>2, <1>4 DEF Construct, TypeOK, Owns, StmtOwns
  <2>2. \A t \in Stmt : t # s => built'[t] = built[t]
    BY <1>4 DEF Construct, TypeOK
  <2>3. UNCHANGED <<db, call, conn, stmt, on, lost>>
    BY <1>4 DEF Construct
  <2>4. StmtOwns'
    BY <1>2, <2>1, <2>2, <2>3 DEF Owns, StmtOwns
  <2> QED
    BY <1>2, <2>1, <2>3, <2>4, GoneAssumption DEF Owns, HandleOwned, DbOwns, CloserInv, HasCloser
<1>5. ASSUME UNCHANGED <<call, db, conn, stmtVars, lost>>
      PROVE  Owns'
  BY <1>2, <1>5 DEF Owns, StmtOwns, HandleOwned, DbOwns, CloserInv, HasCloser
<1>6. ASSUME \/ OthersChangeFile
             \/ \E d \in Db : (\E v \in Close : SetClose(d, v)) \/ \E v \in Shutdown : SetShutdown(d, v)
             \/ UNCHANGED vars
      PROVE  Owns'
  BY <1>5, <1>6 DEF vars, OthersChangeFile, SetClose, SetShutdown
<1>7. ASSUME NEW d \in Db, Open(d) \/ OpenThrows(d) \/ DestroyDatabase(d)
      PROVE  Owns'
  BY <1>2, <1>7, OwnsAfterOpen, OwnsAfterOpenThrows, OwnsAfterDestroyDatabase
<1>8. ASSUME NEW s \in Stmt, Prepare(s) \/ DestroyStatement(s)
      PROVE  Owns'
  BY <1>2, <1>8, OwnsAfterPrepare, OwnsAfterDestroyStatement
<1>9. ASSUME NEW d \in Db, NEW e \in Db, MoveDatabase(d, e)
      PROVE  Owns'
  BY <1>9 DEF MoveDatabase
<1>10. ASSUME NEW s \in Stmt, NEW t \in Stmt, MoveStatement(s, t)
       PROVE  Owns'
  BY <1>10 DEF MoveStatement
<1> QED
  BY <1>3, <1>4, <1>6, <1>7, <1>8, <1>9, <1>10 DEF Next

LEMMA OwnedAlways == Spec => []Owned
<1>1. Init => Owned
  BY LiveAssumption, GoneAssumption
  DEF Init, NotLive, Owned, Owns, StmtOwns, HandleOwned, DbOwns, CloserInv
<1> QED
  BY <1>1, OwnedStep, TypesAlways, PTL DEF Spec

\* Until the program moves an object, every handle that was not released has one
\* owner, which releases it once.
THEOREM SingleOwner == Spec => []OneOwner
<1>1. Owned => OneOwner
  BY DEF Owned, Owns, StmtOwns, HandleOwned, DbOwns, OneOwner
<1> QED
  BY <1>1, OwnedAlways, PTL

\* Until the program moves an object, every connection that is not closed has
\* somebody who will close it or is one that the code gives up, for any number
\* of Databases and Statements and every order of their destructors.
THEOREM NothingElse == Spec => []NothingElseLost
<1>1. Owned => NothingElseLost
  BY DEF Owned, Owns, CloserInv, NothingElseLost
<1> QED
  BY <1>1, OwnedAlways, PTL
=============================================================================
