------------------------ MODULE SelectStatementProofs ------------------------
(***************************************************************************)
(* Type correctness and the safety properties of SelectStatement and       *)
(* SelectOneStatement, for every table, parameter and number of rows.      *)
(* The rows that a loop counts are those of a statement with at most one   *)
(* iterator: two share its cursor and take rows from each other.           *)
(***************************************************************************)
EXTENDS SelectOneStatement, TLAPS

OneIterator == \A i, j \in Iter : i = j

-----------------------------------------------------------------------------
(* Rows.                                                                   *)

LEMMA RowsAreSequences ==
    ASSUME NEW r \in RowsOf
    PROVE  /\ r \in Seq(Row)
           /\ Len(r) \in 0 .. MaxRows
<1>1. PICK n \in 0 .. MaxRows : r \in [1 .. n -> Row]
  BY DEF RowsOf
<1>2. n \in Nat /\ r \in Seq(Row) /\ Len(r) = n
  BY <1>1, MaxRowsAssumption
<1> QED
  BY <1>1, <1>2

LEMMA NoRows == <<>> \in RowsOf
<1>1. <<>> \in [1 .. 0 -> Row] /\ 0 \in 0 .. MaxRows
  BY MaxRowsAssumption
<1> QED
  BY <1>1 DEF RowsOf

LEMMA Matches ==
    ASSUME table \in [Key -> RowsOf], NEW v \in Value
    PROVE  /\ Match(v) \in Seq(Row)
           /\ Len(Match(v)) \in 0 .. MaxRows
<1>1. Match(v) \in RowsOf
  BY NoRows DEF Match, Value
<1> QED
  BY <1>1, RowsAreSequences

\* Where a step goes on.
LEMMA Steps ==
    ASSUME TypeOK
    PROVE  /\ Running \in Value
           /\ NextPos \in 1 .. MaxRows + 1
           /\ Len(Match(Running)) \in 0 .. MaxRows
<1>1. Running \in Value /\ NextPos \in 1 .. MaxRows + 1
  BY MaxRowsAssumption DEF TypeOK, Running, NextPos
<1> QED
  BY <1>1, Matches DEF TypeOK

-----------------------------------------------------------------------------
(* Types.                                                                  *)

StmtOK == /\ phase \in {"ready", "row"}
          /\ pos \in 0 .. MaxRows
          /\ run \in Value

LEMMA StepsKeepStmt ==
    ASSUME TypeOK, StepReturnsRow \/ ResetStmt \/ UNCHANGED stmtVars
    PROVE  StmtOK'
<1>1. CASE StepReturnsRow
  BY <1>1, Steps, MaxRowsAssumption DEF StepReturnsRow, StmtOK
<1>2. CASE ResetStmt
  BY <1>2, MaxRowsAssumption DEF ResetStmt, StmtOK, Value
<1>3. CASE UNCHANGED stmtVars
  BY <1>3 DEF stmtVars, TypeOK, StmtOK
<1> QED
  BY <1>1, <1>2, <1>3

LEMMA LoopsType ==
    ASSUME TypeOK, Loops
    PROVE  TypeOK'
<1>0. MaxRows \in Nat
  BY MaxRowsAssumption
<1>1. ASSUME NEW i \in Iter, Begin(i)
      PROVE  TypeOK'
  <2>1. StmtOK'
    BY <1>1, StepsKeepStmt DEF Begin, StepDoneAndReset, StepFailsAndReset
  <2>4. start' \in [Iter -> 0 .. MaxRows] /\ asked' \in [Iter -> Value]
    BY <1>1, Steps DEF Begin, TypeOK
  <2>2. CASE StepReturnsRow /\ seen' = [seen EXCEPT ![i] = <<NextPos>>]
    <3>1. NextPos \in 1 .. MaxRows
      BY <1>0, <2>2, Steps DEF StepReturnsRow
    <3>2. <<NextPos>> \in Seq(1 .. MaxRows)
      BY <3>1
    <3>3. seen' \in [Iter -> Seq(1 .. MaxRows)]
      BY <2>2, <3>2 DEF TypeOK
    <3> QED
      BY <1>1, <2>1, <2>4, <3>3 DEF Begin, TypeOK, StmtOK
  <2>3. CASE seen' = [seen EXCEPT ![i] = <<>>]
    <3>1. seen' \in [Iter -> Seq(1 .. MaxRows)]
      BY <2>3 DEF TypeOK
    <3> QED
      BY <1>1, <2>1, <2>4, <3>1 DEF Begin, TypeOK, StmtOK
  <2> QED
    BY <1>1, <2>2, <2>3 DEF Begin
<1>2. ASSUME NEW i \in Iter, Increment(i)
      PROVE  TypeOK'
  <2>1. StmtOK'
    BY <1>2, StepsKeepStmt DEF Increment, Advance, StepDoneAndReset, StepFailsAndReset
  <2>2. CASE StepReturnsRow /\ seen' = [seen EXCEPT ![i] = Append(@, NextPos)]
    <3>1. NextPos \in 1 .. MaxRows
      BY <1>0, <2>2, Steps DEF StepReturnsRow
    <3>2. Append(seen[i], NextPos) \in Seq(1 .. MaxRows)
      BY <3>1 DEF TypeOK
    <3>3. seen' \in [Iter -> Seq(1 .. MaxRows)]
      BY <2>2, <3>2 DEF TypeOK
    <3> QED
      BY <1>2, <2>1, <3>3 DEF Increment, Advance, TypeOK, StmtOK
  <2>3. CASE UNCHANGED seen
    BY <1>2, <2>1, <2>3 DEF Increment, Advance, TypeOK, StmtOK
  <2> QED
    BY <1>2, <2>2, <2>3 DEF Increment, Advance
<1>3. ASSUME NEW i \in Iter, DereferenceThrows(i) \/ Abandon(i)
      PROVE  TypeOK'
  BY <1>3 DEF TypeOK, DereferenceThrows, Abandon, stmtVars
<1>4. ASSUME Reset
      PROVE  TypeOK'
  <2>1. StmtOK'
    BY <1>4, StepsKeepStmt DEF Reset
  <2>2. it' \in [Iter -> {"none", "row", "end"}]
    BY <1>4 DEF Reset
  <2> QED
    BY <1>4, <2>1, <2>2 DEF Reset, TypeOK, StmtOK
<1> QED
  BY <1>1, <1>2, <1>3, <1>4 DEF Loops

LEMMA OthersType ==
    ASSUME TypeOK, Others
    PROVE  TypeOK'
<1>1. ASSUME NEW v \in Value, Bind(v)
      PROVE  TypeOK'
  BY <1>1 DEF TypeOK, Bind, stmtVars
<1>2. ASSUME BindThrows \/ ClearBindings
      PROVE  TypeOK'
  BY <1>2 DEF TypeOK, BindThrows, ClearBindings, stmtVars, vars, Value
<1>3. ASSUME TableChanges
      PROVE  TypeOK'
  BY <1>3 DEF TypeOK, TableChanges, stmtVars
<1> QED
  BY <1>1, <1>2, <1>3 DEF Others

\* The type of the history of the calls, next to that of the statement.
OneTypeOK ==
    /\ TypeOK
    /\ answer \in [outcome : Outcome, matches : 0 .. MaxRows, fresh : BOOLEAN]

LEMMA TypeStep == OneTypeOK /\ [OneNext]_oneVars => OneTypeOK'
<1> SUFFICES ASSUME OneTypeOK, [OneNext]_oneVars PROVE OneTypeOK'
  OBVIOUS
<1>0. TypeOK /\ MaxRows \in Nat
  BY MaxRowsAssumption DEF OneTypeOK
<1>1. ASSUME Call
      PROVE  OneTypeOK'
  <2>1. StmtOK'
    BY <1>0, <1>1, StepsKeepStmt
    DEF Call, StepThrows, StepFailsAndReset, NoResult, ReturnsRow, MoreThanOne, ReadThrows
  <2>2. TypeOK'
    BY <1>0, <1>1, <2>1 DEF Call, TypeOK, StmtOK
  <2>3. Len(Match(Running)) \in 0 .. MaxRows
    BY <1>0, Steps
  <2>4. \E o \in Outcome : Answers(o)
    BY <1>1 DEF Call, StepThrows, NoResult, ReturnsRow, MoreThanOne, ReadThrows, Outcome
  <2>5. PICK o \in Outcome : Answers(o)
    BY <2>4
  <2>6. answer' \in [outcome : Outcome, matches : 0 .. MaxRows, fresh : BOOLEAN]
    BY <2>3, <2>5 DEF Answers
  <2> QED
    BY <2>2, <2>6 DEF OneTypeOK
<1>2. ASSUME Construct
      PROVE  OneTypeOK'
  <2>1. it' \in [Iter -> {"none", "row", "end"}] /\ left' \in BOOLEAN
    BY <1>2 DEF Construct
  <2>2. TypeOK'
    BY <1>0, <1>2, <2>1 DEF TypeOK, Construct, stmtVars
  <2>3. answer' \in [outcome : Outcome, matches : 0 .. MaxRows, fresh : BOOLEAN]
    BY <1>0, <1>2 DEF Construct, Outcome
  <2> QED
    BY <2>2, <2>3 DEF OneTypeOK
<1>3. ASSUME Loops \/ Others, UNCHANGED answer
      PROVE  OneTypeOK'
  BY <1>0, <1>3, LoopsType, OthersType DEF OneTypeOK
<1>4. CASE UNCHANGED oneVars
  BY <1>4 DEF oneVars, vars, stmtVars, OneTypeOK, TypeOK
<1> QED
  BY <1>1, <1>2, <1>3, <1>4 DEF OneNext

LEMMA OneTypes == OneSpec => []OneTypeOK
<1>1. OneInit => OneTypeOK
  <2> SUFFICES ASSUME OneInit PROVE OneTypeOK
    OBVIOUS
  <2>1. seen \in [Iter -> Seq(1 .. MaxRows)]
    BY DEF OneInit, Init
  <2>2. it \in [Iter -> {"none", "row", "end"}] /\ asked \in [Iter -> Value]
    BY DEF OneInit, Init, Value
  <2>5. start \in [Iter -> 0 .. MaxRows]
    BY MaxRowsAssumption DEF OneInit, Init
  <2>3. TypeOK
    <3>0. phase = "ready" /\ pos = 0 /\ left = FALSE
      BY DEF OneInit, Init
    <3>1. phase \in {"ready", "row"} /\ left \in BOOLEAN
      BY <3>0
    <3>3. pos \in 0 .. MaxRows
      BY MaxRowsAssumption DEF OneInit, Init
    <3>2. table \in [Key -> RowsOf] /\ bound \in Value /\ run \in Value
      BY DEF OneInit, Init, Value
    <3> QED
      BY <2>1, <2>2, <2>5, <3>1, <3>2, <3>3 DEF TypeOK
  <2>4. answer \in [outcome : Outcome, matches : 0 .. MaxRows, fresh : BOOLEAN]
    BY MaxRowsAssumption DEF OneInit, Outcome
  <2> QED
    BY <2>3, <2>4 DEF OneTypeOK
<1> QED
  BY <1>1, TypeStep, PTL DEF OneSpec

\* The variables of the SelectStatement keep their types, whatever the table
\* holds and with a SelectOneStatement that takes it over.
THEOREM TypeCorrect == OneSpec => []TypeOK
<1>1. OneTypeOK => TypeOK
  BY DEF OneTypeOK
<1> QED
  BY <1>1, OneTypes, PTL

-----------------------------------------------------------------------------
(* Loops.                                                                  *)

LEMMA EarlyExitStep ==
    OneTypeOK /\ OnlyEarlyExitKeepsCursor /\ [OneNext]_oneVars => OnlyEarlyExitKeepsCursor'
<1> SUFFICES ASSUME OneTypeOK, OnlyEarlyExitKeepsCursor, [OneNext]_oneVars
             PROVE  OnlyEarlyExitKeepsCursor'
  OBVIOUS
<1> USE DEF OnlyEarlyExitKeepsCursor
<1>0. it \in [Iter -> {"none", "row", "end"}] /\ phase \in {"ready", "row"}
  BY DEF OneTypeOK, TypeOK
<1>1. ASSUME NEW i \in Iter, Begin(i) \/ Increment(i) PROVE OnlyEarlyExitKeepsCursor'
  <2>1. it' = [it EXCEPT ![i] = "row"] \/ phase' = "ready"
    BY <1>1 DEF Begin, Increment, Advance, StepDoneAndReset, StepFailsAndReset, ResetStmt
  <2> QED
    BY <1>0, <2>1
<1>2. ASSUME NEW i \in Iter, DereferenceThrows(i) \/ Abandon(i) PROVE OnlyEarlyExitKeepsCursor'
  BY <1>0, <1>2 DEF DereferenceThrows, Abandon, stmtVars
<1>3. ASSUME Reset PROVE OnlyEarlyExitKeepsCursor'
  BY <1>3 DEF Reset, ResetStmt
<1>4. ASSUME Others PROVE OnlyEarlyExitKeepsCursor'
  <2>1. UNCHANGED <<phase, it, left>>
    BY <1>4 DEF Others, Bind, BindThrows, ClearBindings, TableChanges, vars, stmtVars
  <2> QED
    BY <2>1
<1>5. ASSUME Construct PROVE OnlyEarlyExitKeepsCursor'
  BY <1>0, <1>5 DEF Construct, stmtVars
<1>6. ASSUME Call PROVE OnlyEarlyExitKeepsCursor'
  <2>1. phase' \in {"ready", "row"} /\ left' = (phase' = "row")
    BY <1>6 DEF Call, StepThrows, StepFailsAndReset, NoResult, ReturnsRow, MoreThanOne, ReadThrows,
                StepReturnsRow, ResetStmt
  <2> QED
    BY <2>1
<1>7. CASE UNCHANGED oneVars
  BY <1>7 DEF oneVars, vars, stmtVars
<1> QED
  BY <1>1, <1>2, <1>3, <1>4, <1>5, <1>6, <1>7 DEF OneNext, Loops

\* The statement is ready again once its loops have ended, unless the program left
\* one of them early or could not read a row: for any number of iterators.
THEOREM EarlyExit == OneSpec => []OnlyEarlyExitKeepsCursor
<1>1. OneInit => OnlyEarlyExitKeepsCursor
  BY DEF OneInit, Init, OnlyEarlyExitKeepsCursor
<1> QED
  BY <1>1, EarlyExitStep, OneTypes, PTL DEF OneSpec

\* The cursor stands on a row of its execution.
CursorInv ==
    /\ phase = "row" => pos \in 1 .. Len(Match(run))
    /\ phase = "ready" => pos = 0

\* A loop has counted the rows from where it began up to the cursor, in the
\* execution that it began or went on with.
Counted(i) ==
    /\ run = asked[i]
    /\ Len(seen[i]) = pos - start[i]
    /\ \A n \in 1 .. Len(seen[i]) : seen[i][n] = start[i] + n

InLoop(i) ==
    it[i] = "row" => /\ phase = "row"
                     /\ seen[i] # <<>>
                     /\ pos = seen[i][Len(seen[i])]
                     /\ Counted(i)

LoopInv ==
    /\ CursorInv
    /\ \A i \in Iter : InLoop(i)
    /\ answer.outcome # "unmade" => \A i \in Iter : it[i] # "row"

LEMMA CursorStep ==
    ASSUME TypeOK, table' = table, CursorInv,
           StepReturnsRow \/ ResetStmt \/ UNCHANGED stmtVars
    PROVE  CursorInv'
<1>1. CASE StepReturnsRow
  <2>1. Match(run)' = Match(Running)
    BY <1>1 DEF StepReturnsRow, Match
  <2>2. pos' \in 1 .. Len(Match(Running))
    BY <1>1, Steps, MaxRowsAssumption DEF StepReturnsRow
  <2>3. phase' = "row"
    BY <1>1 DEF StepReturnsRow
  <2> QED
    BY <2>1, <2>2, <2>3 DEF CursorInv
<1>2. CASE ResetStmt
  BY <1>2 DEF ResetStmt, CursorInv
<1>3. CASE UNCHANGED stmtVars
  BY <1>3 DEF stmtVars, CursorInv, Match
<1> QED
  BY <1>1, <1>2, <1>3

LEMMA LoopAfterBegin ==
    ASSUME OneIterator, TypeOK, LoopInv, NEW i \in Iter, Begin(i),
           answer.outcome = "unmade", UNCHANGED answer
    PROVE  LoopInv'
<1>0. \A j \in Iter : j = i
  BY DEF OneIterator
<1>1. CursorInv'
  BY CursorStep DEF Begin, StepDoneAndReset, StepFailsAndReset, LoopInv
<1>2. CASE /\ StepReturnsRow
           /\ it' = [it EXCEPT ![i] = "row"]
           /\ seen' = [seen EXCEPT ![i] = <<NextPos>>]
  <2>1. /\ it'[i] = "row" /\ seen'[i] = <<NextPos>> /\ phase' = "row" /\ pos' = NextPos
        /\ run' = Running
    BY <1>2 DEF TypeOK, StepReturnsRow
  <2>2. asked'[i] = Running /\ start'[i] = pos
    BY DEF TypeOK, Begin
  <2>3. <<NextPos>> # <<>> /\ Len(<<NextPos>>) = 1 /\ <<NextPos>>[1] = NextPos
    OBVIOUS
  <2>4. NextPos = pos + 1 /\ pos \in Nat
    BY MaxRowsAssumption DEF NextPos, LoopInv, CursorInv, TypeOK
  <2>5. Counted(i)'
    BY <2>1, <2>2, <2>3, <2>4 DEF Counted
  <2>6. InLoop(i)'
    BY <2>1, <2>3, <2>5 DEF InLoop
  <2> QED
    BY <1>0, <1>1, <2>1, <2>6 DEF LoopInv
<1>3. CASE /\ ResetStmt
           /\ it' \in {[it EXCEPT ![i] = "none"], [it EXCEPT ![i] = "end"]}
  <2>1. phase' = "ready" /\ it'[i] # "row"
    BY <1>3 DEF TypeOK, ResetStmt
  <2> QED
    BY <1>0, <1>1, <2>1 DEF LoopInv, InLoop
<1> QED
  BY <1>2, <1>3 DEF Begin, StepDoneAndReset, StepFailsAndReset

LEMMA LoopAfterIncrement ==
    ASSUME OneIterator, TypeOK, LoopInv, NEW i \in Iter, Increment(i),
           answer.outcome = "unmade", UNCHANGED answer
    PROVE  LoopInv'
<1>0. (\A j \in Iter : j = i) /\ it[i] = "row" /\ InLoop(i) /\ phase = "row"
  BY DEF OneIterator, Increment, LoopInv, InLoop
<1>1. CursorInv'
  BY CursorStep DEF Increment, Advance, StepDoneAndReset, StepFailsAndReset, LoopInv
<1>2. CASE /\ StepReturnsRow
           /\ it' = [it EXCEPT ![i] = "row"]
           /\ seen' = [seen EXCEPT ![i] = Append(@, NextPos)]
  <2>1. /\ it'[i] = "row" /\ seen'[i] = Append(seen[i], pos + 1) /\ phase' = "row"
        /\ pos' = pos + 1 /\ run' = run
    BY <1>0, <1>2 DEF TypeOK, StepReturnsRow, NextPos, Running
  <2>2. asked' = asked /\ start' = start
    BY DEF Increment
  <2>3. seen[i] \in Seq(1 .. MaxRows) /\ pos \in Nat /\ start[i] \in Nat
    BY MaxRowsAssumption DEF TypeOK
  <2>4. /\ Append(seen[i], pos + 1) # <<>>
        /\ Len(Append(seen[i], pos + 1)) = Len(seen[i]) + 1
        /\ Append(seen[i], pos + 1)[Len(seen[i]) + 1] = pos + 1
        /\ \A n \in 1 .. Len(seen[i]) : Append(seen[i], pos + 1)[n] = seen[i][n]
    BY <2>3
  <2>5. Counted(i)'
    <3> DEFINE grown == Append(seen[i], pos + 1)
    <3>1. /\ Len(seen[i]) = pos - start[i] /\ Len(seen[i]) \in Nat
          /\ \A n \in 1 .. Len(seen[i]) : seen[i][n] = start[i] + n
      BY <1>0, <2>3 DEF InLoop, Counted
    <3>2. Len(grown) = (pos + 1) - start[i]
      BY <2>3, <2>4, <3>1
    <3>3. grown[Len(seen[i]) + 1] = start[i] + (Len(seen[i]) + 1)
      BY <2>3, <2>4, <3>1
    <3>4. \A n \in 1 .. Len(seen[i]) : grown[n] = start[i] + n
      BY <2>4, <3>1
    <3>5. \A n \in 1 .. Len(grown) : n \in 1 .. Len(seen[i]) \/ n = Len(seen[i]) + 1
      BY <2>4, <3>1
    <3>6. \A n \in 1 .. Len(grown) : grown[n] = start[i] + n
      BY <3>3, <3>4, <3>5
    <3>7. seen'[i] = grown /\ start'[i] = start[i] /\ asked'[i] = asked[i] /\ run = asked[i]
      BY <1>0, <2>1, <2>2 DEF InLoop, Counted
    <3> QED
      BY <2>1, <3>2, <3>6, <3>7 DEF Counted
  <2>6. InLoop(i)'
    BY <2>1, <2>4, <2>5 DEF InLoop
  <2> QED
    BY <1>0, <1>1, <2>1, <2>6 DEF LoopInv
<1>3. CASE /\ ResetStmt
           /\ it' \in {[it EXCEPT ![i] = "none"], [it EXCEPT ![i] = "end"]}
  <2>1. phase' = "ready" /\ it'[i] # "row"
    BY <1>3 DEF TypeOK, ResetStmt
  <2> QED
    BY <1>0, <1>1, <2>1 DEF LoopInv, InLoop
<1> QED
  BY <1>2, <1>3 DEF Increment, Advance, StepDoneAndReset, StepFailsAndReset

LEMMA LoopStep ==
    ASSUME OneIterator
    PROVE  OneTypeOK /\ LoopInv /\ [OneNext]_oneVars => LoopInv'
<1> SUFFICES ASSUME OneTypeOK, LoopInv, [OneNext]_oneVars PROVE LoopInv'
  OBVIOUS
<1>0. TypeOK
  BY DEF OneTypeOK
<1>1. ASSUME answer.outcome = "unmade", Loops, UNCHANGED answer
      PROVE  LoopInv'
  <2>1. ASSUME NEW i \in Iter, DereferenceThrows(i) \/ Abandon(i)
        PROVE  LoopInv'
    <3>1. CursorInv'
      BY <1>0, <2>1, CursorStep DEF LoopInv, DereferenceThrows, Abandon
    <3>2. (\A j \in Iter : j = i) /\ it'[i] # "row" /\ left' = (phase' = "row")
      BY <1>0, <2>1 DEF OneIterator, TypeOK, DereferenceThrows, Abandon, stmtVars
    <3>3. phase' \in {"ready", "row"}
      BY <1>0, <2>1 DEF TypeOK, DereferenceThrows, Abandon, stmtVars
    <3> QED
      BY <1>1, <3>1, <3>2, <3>3 DEF LoopInv, InLoop
  <2>2. ASSUME Reset
        PROVE  LoopInv'
    <3>1. CursorInv'
      BY <1>0, <2>2, CursorStep DEF LoopInv, Reset
    <3>2. (\A i \in Iter : it'[i] # "row") /\ phase' = "ready"
      BY <2>2 DEF Reset, ResetStmt
    <3> QED
      BY <1>1, <3>1, <3>2 DEF LoopInv, InLoop
  <2> QED
    BY <1>0, <1>1, <2>1, <2>2, LoopAfterBegin, LoopAfterIncrement DEF Loops
<1>2. ASSUME Others, UNCHANGED answer
      PROVE  LoopInv'
  <2>1. UNCHANGED <<stmtVars, it, seen, asked, start, left>>
        /\ (table' = table \/ phase # "row")
    BY <1>2 DEF Others, Bind, BindThrows, ClearBindings, TableChanges, vars
  <2>2. CursorInv'
    BY <2>1 DEF LoopInv, CursorInv, Match, stmtVars
  <2> QED
    BY <1>2, <2>1, <2>2 DEF LoopInv, InLoop, Counted, OnlyEarlyExitKeepsCursor, stmtVars
<1>3. ASSUME Construct
      PROVE  LoopInv'
  <2>1. CursorInv'
    BY <1>0, <1>3, CursorStep DEF LoopInv, Construct
  <2>2. (\A i \in Iter : it'[i] # "row") /\ left' = (phase' = "row")
    BY <1>3 DEF Construct, stmtVars
  <2>3. phase' \in {"ready", "row"}
    BY <1>0, <1>3 DEF TypeOK, Construct, stmtVars
  <2> QED
    BY <2>1, <2>2, <2>3 DEF LoopInv, InLoop
<1>4. ASSUME Call
      PROVE  LoopInv'
  <2>1. StepReturnsRow \/ ResetStmt
    BY <1>4 DEF Call, StepThrows, StepFailsAndReset, NoResult, ReturnsRow, MoreThanOne, ReadThrows
  <2>2. CursorInv'
    BY <1>0, <1>4, <2>1, CursorStep DEF LoopInv, Call
  <2>3. (\A i \in Iter : it'[i] # "row") /\ left' = (phase' = "row")
    BY <1>4 DEF Call, LoopInv
  <2>4. phase' \in {"ready", "row"}
    BY <2>1 DEF StepReturnsRow, ResetStmt
  <2> QED
    BY <2>2, <2>3, <2>4 DEF LoopInv, InLoop
<1>5. CASE UNCHANGED oneVars
  BY <1>5 DEF oneVars, vars, stmtVars, LoopInv, CursorInv, InLoop, Counted, Match
<1> QED
  BY <1>1, <1>2, <1>3, <1>4, <1>5 DEF OneNext

LEMMA LoopsAlways ==
    ASSUME OneIterator
    PROVE  OneSpec => []LoopInv
<1>1. OneInit => LoopInv
  BY DEF OneInit, Init, LoopInv, CursorInv, InLoop
<1> QED
  BY <1>1, LoopStep, OneTypes, PTL DEF OneSpec

\* The only iterator of a statement stands on the row that it stepped to:
\* nothing moves or resets the cursor behind its back.
THEOREM OnItsRow ==
    ASSUME OneIterator
    PROVE  OneSpec => []IteratorOnItsRow
<1>1. LoopInv => IteratorOnItsRow
  BY DEF LoopInv, InLoop, IteratorOnItsRow
<1> QED
  BY <1>1, LoopsAlways, PTL

\* A step that takes the iterator to end() has counted every row that was left.
LEMMA EndStep ==
    ASSUME OneIterator, OneTypeOK, LoopInv, [OneNext]_oneVars,
           NEW i \in Iter, it[i] # "end", it'[i] = "end"
    PROVE  seen'[i] = [n \in 1 .. Len(Match(asked'[i])) - start'[i] |-> start'[i] + n]
<1>0. TypeOK
  BY DEF OneTypeOK
<1>1. Begin(i) \/ Increment(i)
  <2>1. \A j \in Iter : j = i
    BY DEF OneIterator
  <2>2. Begin(i) \/ Increment(i) \/ it'[i] \in {"none", it[i]}
    BY <2>1 DEF OneNext, oneVars, vars, Call, Construct, Loops, Others, Reset, DereferenceThrows,
                Abandon, Bind, BindThrows, ClearBindings, TableChanges, TypeOK, OneTypeOK
  <2> QED
    BY <2>2
<1>2. CASE Begin(i)
  <2>1. StepDoneAndReset /\ seen'[i] = <<>> /\ asked'[i] = Running /\ start'[i] = pos
    BY <1>0, <1>2 DEF Begin, TypeOK
  <2>2. PICK m \in Nat : m = Len(Match(Running))
    BY <1>0, Steps, MaxRowsAssumption
  <2>3. pos \in Nat /\ NextPos = pos + 1
    BY <1>0, MaxRowsAssumption DEF NextPos, LoopInv, CursorInv, TypeOK
  <2>4. pos <= m
    <3>1. CASE phase = "row"
      BY <2>2, <3>1 DEF Running, LoopInv, CursorInv
    <3>2. CASE phase = "ready"
      BY <2>2, <3>2 DEF LoopInv, CursorInv
    <3> QED
      BY <1>0, <3>1, <3>2 DEF TypeOK
  <2>5. ~(NextPos <= m)
    BY <2>1, <2>2, <2>3 DEF StepDoneAndReset
  <2>6. m - pos = 0
    BY <2>3, <2>4, <2>5
  <2>7. [n \in 1 .. m - pos |-> pos + n] = <<>>
    BY <2>6
  <2> QED
    BY <2>1, <2>2, <2>7
<1>3. CASE Increment(i)
  <2>1. /\ StepDoneAndReset /\ seen'[i] = seen[i] /\ asked'[i] = asked[i]
        /\ start'[i] = start[i] /\ it[i] = "row"
    BY <1>0, <1>3 DEF Increment, Advance, TypeOK
  <2>2. phase = "row" /\ Counted(i)
    BY <2>1 DEF LoopInv, InLoop
  <2>3. pos = Len(Match(asked[i]))
    BY <1>0, <2>1, <2>2, Steps, MaxRowsAssumption
    DEF StepDoneAndReset, NextPos, Running, LoopInv, CursorInv, Counted
  <2>4. seen[i] \in Seq(1 .. MaxRows)
    BY <1>0 DEF TypeOK
  <2>5. seen[i] = [n \in 1 .. pos - start[i] |-> start[i] + n]
    BY <2>2, <2>4 DEF Counted
  <2> QED
    BY <2>1, <2>3, <2>5
<1> QED
  BY <1>1, <1>2, <1>3

\* A loop that ran to its end has stood, once and in order, on every row from where
\* begin() found the cursor: all rows that match the bound value when the statement
\* was ready, those that were left when an earlier loop had been left early.
THEOREM EveryRow ==
    ASSUME OneIterator
    PROVE  OneSpec => IterationComplete
<1> DEFINE Complete ==
        \A i \in Iter : it[i] # "end" /\ it'[i] = "end" =>
            seen'[i] = [n \in 1 .. Len(Match(asked'[i])) - start'[i] |-> start'[i] + n]
<1>1. OneTypeOK /\ LoopInv /\ [OneNext]_oneVars => [Complete]_vars
  BY EndStep
<1> QED
  BY <1>1, OneTypes, LoopsAlways, PTL DEF OneSpec, IterationComplete

-----------------------------------------------------------------------------
(* SelectOneStatement.                                                     *)

CallInv == ExactFromReady /\ ReadyUnlessUnread

LEMMA CallStep == OneTypeOK /\ CallInv /\ [OneNext]_oneVars => CallInv'
<1> SUFFICES ASSUME OneTypeOK, CallInv, [OneNext]_oneVars PROVE CallInv'
  OBVIOUS
<1> USE DEF CallInv
<1>1. ASSUME Call
      PROVE  CallInv'
  <2>0. Len(Match(Running)) \in Nat /\ NextPos \in Nat /\ (phase = "ready" => NextPos = 1)
    BY Steps, MaxRowsAssumption DEF OneTypeOK, NextPos
  <2> DEFINE Told(o) == /\ answer'.outcome = o
                        /\ answer'.matches = Len(Match(Running))
                        /\ answer'.fresh => phase = "ready"
  <2>1. CASE StepThrows
    <3>1. answer'.outcome = "failed" /\ phase' = "ready"
      BY <2>1 DEF StepThrows, StepFailsAndReset, ResetStmt, Answers
    <3> QED
      BY <3>1 DEF ExactFromReady, ReadyUnlessUnread
  <2>5. CASE ReadThrows
    <3>1. answer'.outcome = "unread"
      BY <2>5 DEF ReadThrows, Answers
    <3> QED
      BY <3>1 DEF ExactFromReady, ReadyUnlessUnread
  <2>2. CASE NoResult
    <3>1. Told("no result") /\ phase' = "ready"
      BY <2>2 DEF NoResult, Answers, ResetStmt
    <3>2. NextPos = 1 => Len(Match(Running)) = 0
      <4>1. PICK m \in Nat : m = Len(Match(Running))
        BY <2>0
      <4>2. ~(NextPos <= m)
        BY <2>2, <4>1 DEF NoResult, HasFirst
      <4>3. NextPos = 1 => m = 0
        BY <4>2
      <4> QED
        BY <4>1, <4>3
    <3> QED
      BY <2>0, <3>1, <3>2 DEF ExactFromReady, ReadyUnlessUnread
  <2>3. CASE ReturnsRow
    <3>1. Told("returned") /\ phase' = "ready"
      BY <2>3 DEF ReturnsRow, Answers, ResetStmt
    <3>2. NextPos = 1 => Len(Match(Running)) = 1
      <4>1. PICK m \in Nat : m = Len(Match(Running))
        BY <2>0
      <4>2. NextPos <= m /\ ~(NextPos < m)
        BY <2>3, <4>1 DEF ReturnsRow, HasFirst, HasSecond
      <4>3. NextPos = 1 => m = 1
        BY <4>2
      <4> QED
        BY <4>1, <4>3
    <3> QED
      BY <2>0, <3>1, <3>2 DEF ExactFromReady, ReadyUnlessUnread
  <2>4. CASE MoreThanOne
    <3>1. Told("more than one") /\ phase' = "ready"
      BY <2>4 DEF MoreThanOne, Answers, ResetStmt
    <3>2. NextPos = 1 => Len(Match(Running)) > 1
      BY <2>0, <2>4 DEF MoreThanOne, HasSecond
    <3> QED
      BY <2>0, <3>1, <3>2 DEF ExactFromReady, ReadyUnlessUnread
  <2> QED
    BY <1>1, <2>1, <2>2, <2>3, <2>4, <2>5 DEF Call
<1>2. ASSUME Construct
      PROVE  CallInv'
  BY <1>2 DEF Construct, ExactFromReady, ReadyUnlessUnread
<1>3. ASSUME answer.outcome = "unmade", UNCHANGED answer
      PROVE  CallInv'
  BY <1>3 DEF ExactFromReady, ReadyUnlessUnread
<1>4. ASSUME Others, UNCHANGED answer
      PROVE  CallInv'
  <2>1. phase' = phase
    BY <1>4 DEF Others, Bind, BindThrows, ClearBindings, TableChanges, vars, stmtVars
  <2> QED
    BY <1>4, <2>1 DEF ExactFromReady, ReadyUnlessUnread
<1>5. CASE UNCHANGED oneVars
  BY <1>5 DEF oneVars, vars, stmtVars, ExactFromReady, ReadyUnlessUnread
<1> QED
  BY <1>1, <1>2, <1>3, <1>4, <1>5 DEF OneNext

LEMMA CallsAlways == OneSpec => []CallInv
<1>1. OneInit => CallInv
  BY DEF OneInit, Init, CallInv, ExactFromReady, ReadyUnlessUnread
<1> QED
  BY <1>1, CallStep, OneTypes, PTL DEF OneSpec

\* operator() that finds the statement ready returns a row, or complains of none
\* or of several, according to the number of rows that match.
THEOREM Exact == OneSpec => []ExactFromReady
<1>1. CallInv => ExactFromReady
  BY DEF CallInv
<1> QED
  BY <1>1, CallsAlways, PTL

\* operator() leaves the statement ready for the next call, after a step that
\* failed too, unless it could not read the columns of the row.
THEOREM Ready == OneSpec => []ReadyUnlessUnread
<1>1. CallInv => ReadyUnlessUnread
  BY DEF CallInv
<1> QED
  BY <1>1, CallsAlways, PTL
=============================================================================
