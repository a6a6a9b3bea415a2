------------------------- MODULE SelectOneStatement -------------------------
(***************************************************************************)
(* sql::SelectOneStatement: a SelectStatement that was moved into one is   *)
(* from then on only used through operator(), which makes an iterator,     *)
(* reads the row and looks for a second one.  One call is one step here:   *)
(* nothing else moves the statement between its parts, and the SHARED lock *)
(* of the first part keeps the table as it is.                             *)
(***************************************************************************)
EXTENDS SelectStatement

VARIABLE answer      \* history: what the last call of operator() did, or "unmade"
                     \* while there is only the SelectStatement

oneVars == <<vars, answer>>

Outcome == {"unmade", "none", "returned", "no result", "more than one", "failed", "unread"}

OneInit ==
    /\ Init
    /\ answer = [outcome |-> "unmade", matches |-> 0, fresh |-> TRUE]

\* The constructor takes the SelectStatement as it stands: compileOne() has
\* just compiled it, a program may have used it before.
Construct ==
    /\ answer.outcome = "unmade"
    /\ answer' = [outcome |-> "none", matches |-> 0, fresh |-> TRUE]
    /\ it' = [i \in Iter |-> "none"]
    /\ left' = (phase = "row")
    /\ UNCHANGED <<table, bound, stmtVars, seen, asked, start>>

\* The call ended with outcome o; it found the statement in its current state.
Answers(o) ==
    answer' = [outcome |-> o,
               matches |-> Len(Match(Running)),
               fresh   |-> phase = "ready"]

\* The row that begin() steps to, and whether ++ steps to another one.
FirstRow   == Match(Running)[NextPos]
HasFirst   == NextPos <= Len(Match(Running))
HasSecond  == NextPos < Len(Match(Running))

StepThrows  == StepFailsAndReset /\ Answers("failed")
NoResult    == ~HasFirst /\ ResetStmt /\ Answers("no result")
\* Does not look for a second row.
ReturnsRow_Unchecked == /\ HasFirst /\ FirstRow = "convertible"
                        /\ ResetStmt
                        /\ Answers("returned")

ReturnsRow  == /\ HasFirst /\ FirstRow = "convertible" /\ ~HasSecond
               /\ ResetStmt
               /\ Answers("returned")

\* Throws without the reset.
MoreThanOne_NoReset == /\ HasFirst /\ FirstRow = "convertible" /\ HasSecond
                       /\ phase' = "row" /\ pos' = NextPos + 1 /\ run' = Running
                       /\ Answers("more than one")

MoreThanOne == /\ HasFirst /\ FirstRow = "convertible" /\ HasSecond
               /\ ResetStmt
               /\ Answers("more than one")

\* *it throws: operator() is left without a reset.
ReadThrows  == /\ HasFirst /\ FirstRow = "inconvertible"
               /\ StepReturnsRow
               /\ Answers("unread")

Call ==
    /\ answer.outcome # "unmade"
    /\ \/ StepThrows
       \/ NoResult
       \/ ReturnsRow
       \/ MoreThanOne
       \/ ReadThrows
    /\ left' = (phase' = "row")
    /\ UNCHANGED <<table, bound, it, seen, asked, start>>

OneNext ==
    \/ Call
    \/ Construct
    \/ answer.outcome = "unmade" /\ Loops /\ UNCHANGED answer
    \/ Others /\ UNCHANGED answer

OneSpec == OneInit /\ [][OneNext]_oneVars /\ Fairness

-----------------------------------------------------------------------------
(* Properties.                                                             *)

\* operator() returns a row, or complains of none or of several, according to
\* the number of rows that match, whenever it finds the statement ready.
ExactFromReady ==
    answer.fresh =>
        /\ answer.outcome = "returned" => answer.matches = 1
        /\ answer.outcome = "no result" => answer.matches = 0
        /\ answer.outcome = "more than one" => answer.matches > 1

\* Whatever the call did, a step that failed included, it leaves the statement
\* ready for bind() and for the next call, unless the columns of the row could
\* not be read.
ReadyUnlessUnread ==
    phase # "ready" => answer.outcome \in {"unmade", "none", "unread"}
=============================================================================
