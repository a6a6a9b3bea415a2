--------------------------- MODULE MCTransactions ---------------------------
(* Small instances of Transactions for TLC. *)
EXTENDS Transactions, TLC

\* Connections, objects and changes are interchangeable: used by the runs that
\* check safety only.
Symmetry == Permutations(Conn) \cup Permutations(Txn) \cup Permutations(Change)
=============================================================================
