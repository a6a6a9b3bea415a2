--------------------------- MODULE SelectStatement ---------------------------
(***************************************************************************)
(* A compiled sql::SelectStatement with one parameter, the sqlite3_stmt it *)
(* owns, and the iterators that a program makes of it.                     *)
(*                                                                         *)
(* The iterators share the one cursor of the statement: begin() and ++ run *)
(* sqlite3_step, which goes on from wherever the cursor stands.  A row is  *)
(* abstracted to whether its columns can be converted to the C++ types of  *)
(* the query.  Steps of other connections are TableChanges: SQLite's       *)
(* SHARED lock keeps them out while the cursor stands on a row (see        *)
(* RepeatableRead in Transactions).                                        *)
(*                                                                         *)
(* A definition Name_Fault is Name with one fault put in; no action uses   *)
(* it.  It shows that a property depends on Name.                          *)
(***************************************************************************)
EXTENDS Naturals, Sequences

CONSTANTS Iter,      \* iterators
          Key,       \* values of the parameter
          Null,      \* SQL NULL, the value of a parameter that was never bound
          MaxRows    \* bound on the rows that match a value

ASSUME NullAssumption == Null \notin Key
ASSUME MaxRowsAssumption == MaxRows \in Nat

Value   == Key \cup {Null}
Row     == {"convertible", "inconvertible"}
RowsOf  == UNION {[1 .. n -> Row] : n \in 0 .. MaxRows}

VARIABLES
    table,       \* per value of the parameter, the rows that match it
    bound,       \* value bound to the parameter
    phase,       \* of the sqlite3_stmt: "ready" (reset) or on a "row"
    pos,         \* number of the row that the cursor stands on
    run,         \* value of the parameter in the execution under way
    it,          \* iterators: "none", on a "row" or at the "end"
    \* History, read by the properties only.
    seen,        \* rows that the iterator stood on since begin()
    asked,       \* value of the parameter in the execution that begin() started,
                 \* or went on with
    start,       \* number of the row that begin() found the cursor on, 0 if the
                 \* statement was ready
    left         \* was the execution under way left before its last row?

stmtVars == <<phase, pos, run>>
vars     == <<table, bound, stmtVars, it, seen, asked, start, left>>

Match(v) == IF v = Null THEN <<>> ELSE table[v]

Init ==
    /\ table \in [Key -> RowsOf]
    /\ bound = Null
    /\ phase = "ready" /\ pos = 0 /\ run = Null
    /\ it = [i \in Iter |-> "none"]
    /\ seen = [i \in Iter |-> <<>>]
    /\ asked = [i \in Iter |-> Null]
    /\ start = [i \in Iter |-> 0]
    /\ left = FALSE

-----------------------------------------------------------------------------
(* Statement: sqlite3_step and sqlite3_reset.                              *)

\* What the execution works on: a step of a statement that is not on a row
\* starts a new execution with the values bound now.
Running == IF phase = "row" THEN run ELSE bound
NextPos == IF phase = "row" THEN pos + 1 ELSE 1

\* Steps twice: begin() does it, and the iterator that it makes.
StepReturnsRow_Twice ==
    /\ NextPos < Len(Match(Running))
    /\ phase' = "row" /\ pos' = NextPos + 1 /\ run' = Running

StepReturnsRow ==
    /\ NextPos <= Len(Match(Running))
    /\ phase' = "row" /\ pos' = NextPos /\ run' = Running

\* The statement stays where SQLITE_DONE has left it.
ResetStmt_Skipped == phase' = "done" /\ pos' = 0 /\ run' = Null

ResetStmt == phase' = "ready" /\ pos' = 0 /\ run' = Null

\* The last step of an execution and the reset that follows it in ++.
StepDoneAndReset == NextPos > Len(Match(Running)) /\ ResetStmt

\* The exception leaves the statement as it is.
StepFailsAndReset_NoReset == UNCHANGED stmtVars

\* Any step may fail (SQLITE_BUSY, SQLITE_INTERRUPT, SQLITE_IOERR, ...); ++
\* resets the statement, ignores what the reset returns, and throws.
StepFailsAndReset == ResetStmt

-----------------------------------------------------------------------------
(* SelectStatement::iterator.                                              *)

\* After a failed step the loop starts again, without an exception.
Advance_Retries(i) ==
    \/ /\ StepReturnsRow
       /\ it' = [it EXCEPT ![i] = "row"]
       /\ seen' = [seen EXCEPT ![i] = Append(@, NextPos)]
       /\ UNCHANGED left
    \/ /\ StepDoneAndReset
       /\ it' = [it EXCEPT ![i] = "end"]
       /\ left' = FALSE
       /\ UNCHANGED seen
    \/ /\ StepFailsAndReset
       /\ seen' = [seen EXCEPT ![i] = <<>>]
       /\ UNCHANGED <<it, left>>

\* operator++: an exception ends the life of the iterator, which is a local
\* variable of the loop.
Advance(i) ==
    \/ /\ StepReturnsRow
       /\ it' = [it EXCEPT ![i] = "row"]
       /\ seen' = [seen EXCEPT ![i] = Append(@, NextPos)]
       /\ UNCHANGED left
    \/ /\ StepDoneAndReset
       /\ it' = [it EXCEPT ![i] = "end"]
       /\ left' = FALSE
       /\ UNCHANGED seen
    \/ /\ StepFailsAndReset
       /\ it' = [it EXCEPT ![i] = "none"]
       /\ left' = FALSE
       /\ UNCHANGED seen

\* ++it in the loop.
Increment(i) ==
    /\ it[i] = "row"
    /\ Advance(i)
    /\ UNCHANGED <<table, bound, asked, start>>

\* SelectStatement::begin: the constructor of the iterator steps once.
Begin(i) ==
    /\ it[i] # "row"
    /\ asked' = [asked EXCEPT ![i] = Running]
    /\ start' = [start EXCEPT ![i] = pos]
    /\ \/ /\ StepReturnsRow
          /\ it' = [it EXCEPT ![i] = "row"]
          /\ seen' = [seen EXCEPT ![i] = <<NextPos>>]
          /\ left' = FALSE
       \/ /\ StepDoneAndReset
          /\ it' = [it EXCEPT ![i] = "end"]
          /\ seen' = [seen EXCEPT ![i] = <<>>]
          /\ left' = FALSE
       \/ /\ StepFailsAndReset
          /\ it' = [it EXCEPT ![i] = "none"]
          /\ seen' = [seen EXCEPT ![i] = <<>>]
          /\ left' = FALSE
    /\ UNCHANGED <<table, bound>>

\* operator* throws a CppqlError for a column that it cannot convert; nobody
\* resets the statement.
DereferenceThrows(i) ==
    /\ it[i] = "row"
    /\ phase = "row" /\ Match(run)[pos] = "inconvertible"
    /\ it' = [it EXCEPT ![i] = "none"]
    /\ left' = TRUE
    /\ UNCHANGED <<table, bound, stmtVars, seen, asked, start>>

\* The program leaves the loop early: break, return or an exception of its own.
Abandon(i) ==
    /\ it[i] = "row"
    /\ it' = [it EXCEPT ![i] = "none"]
    /\ left' = (phase = "row")
    /\ UNCHANGED <<table, bound, stmtVars, seen, asked, start>>

-----------------------------------------------------------------------------
(* The other operations of SelectStatement.                                *)

\* bind() resets the statement instead of refusing.
Bind_Resets(v) ==
    /\ ResetStmt
    /\ bound' = v
    /\ UNCHANGED <<table, it, seen, asked, start, left>>

\* bind(): sqlite3_bind_* refuses (SQLITE_MISUSE) unless the statement is
\* ready, and bind() throws.
Bind(v) ==
    /\ phase = "ready"
    /\ bound' = v
    /\ UNCHANGED <<table, stmtVars, it, seen, asked, start, left>>

BindThrows ==
    /\ phase # "ready"
    /\ UNCHANGED vars

\* sqlite3_clear_bindings does not look at the cursor: an execution under way
\* goes on with the values it has read.
ClearBindings ==
    /\ bound' = Null
    /\ UNCHANGED <<table, stmtVars, it, seen, asked, start, left>>

\* reset() "invalidates all iterators".
Reset ==
    /\ ResetStmt
    /\ it' = [i \in Iter |-> "none"]
    /\ left' = FALSE
    /\ UNCHANGED <<table, bound, seen, asked, start>>

TableChanges ==
    /\ phase # "row"
    /\ table' \in [Key -> RowsOf]
    /\ UNCHANGED <<bound, stmtVars, it, seen, asked, start, left>>

Loops ==
    \/ \E i \in Iter : \/ Begin(i)
                       \/ Increment(i)
                       \/ DereferenceThrows(i)
                       \/ Abandon(i)
    \/ Reset

Others ==
    \/ \E v \in Value : Bind(v)
    \/ BindThrows
    \/ ClearBindings
    \/ TableChanges

Next == Loops \/ Others

Spec == Init /\ [][Next]_vars

\* A loop that the program does not leave goes on to its next ++.
Fairness == \A i \in Iter : WF_vars(Increment(i))

-----------------------------------------------------------------------------
(* Properties.                                                             *)

TypeOK ==
    /\ table \in [Key -> RowsOf]
    /\ bound \in Value
    /\ phase \in {"ready", "row"}
    /\ pos \in 0 .. MaxRows
    /\ run \in Value
    /\ it \in [Iter -> {"none", "row", "end"}]
    /\ seen \in [Iter -> Seq(1 .. MaxRows)]
    /\ asked \in [Iter -> Value]
    /\ start \in [Iter -> 0 .. MaxRows]
    /\ left \in BOOLEAN

\* An iterator that compares unequal to end() reads the columns of the row it
\* stepped to: the statement has not been moved or reset behind its back.
IteratorOnItsRow ==
    \A i \in Iter : it[i] = "row" =>
        /\ phase = "row"
        /\ pos = seen[i][Len(seen[i])]

\* The statement stays in the middle of an execution (and keeps its SHARED
\* lock, and refuses bind()) only while a loop runs, or because one was left
\* early: reaching the end and every failed step reset it.
OnlyEarlyExitKeepsCursor ==
    phase # "ready" => left \/ \E i \in Iter : it[i] = "row"

\* A loop that ran to its end has stood, once and in order, on every row from
\* where begin() found the cursor: with a ready statement on all rows that
\* match the value bound when it began, after a loop that was left early on
\* those that the loop had left, with the value that it had asked for.
IterationComplete ==
    [][\A i \in Iter :
         it[i] # "end" /\ it'[i] = "end" =>
            seen'[i] = [n \in 1 .. Len(Match(asked'[i])) - start'[i] |-> start'[i] + n]]_vars

\* A loop that is not left early ends.
LoopTerminates == \A i \in Iter : it[i] = "row" ~> it[i] # "row"
=============================================================================
