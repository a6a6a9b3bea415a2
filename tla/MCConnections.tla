---------------------------- MODULE MCConnections ----------------------------
(* Small instances of Connections for TLC. *)
EXTENDS Connections, TLC

\* The objects and the handles of each kind are interchangeable.
Symmetry == Permutations(Db) \cup Permutations(Stmt) \cup Permutations(Conn)
                \cup Permutations(Handle)
=============================================================================
