---------------------------- MODULE AtomicStore ----------------------------
(***************************************************************************)
(* What cppql promises of a database file that several connections share:  *)
(* the changes of one transaction reach the file together or not at all,   *)
(* and while a connection has changes that are not in the file yet, no     *)
(* other connection changes anything.  Nothing here speaks of locks,       *)
(* cursors, Transaction objects or crashes: Transactions implements it.    *)
(***************************************************************************)
CONSTANTS Conn,      \* the connections to the file
          Change     \* the effects that write statements have on the file

VARIABLES store,     \* the changes that are in the file
          tx         \* per connection, its changes that are not in the file yet

storeVars == <<store, tx>>

Init ==
    /\ store = {}
    /\ tx = [c \in Conn |-> {}]

\* Every other connection has nothing under way.
Alone(c) == \A d \in Conn \ {c} : tx[d] = {}

Write(c, x) ==
    /\ Alone(c)
    /\ x \notin store
    /\ tx' = [tx EXCEPT ![c] = @ \cup {x}]
    /\ UNCHANGED store

Commit(c) ==
    /\ Alone(c)
    /\ store' = store \cup tx[c]
    /\ tx' = [tx EXCEPT ![c] = {}]

\* A change outside of any transaction is a transaction of its own.
WriteThrough(c, x) ==
    /\ Alone(c)
    /\ tx[c] = {}
    /\ store' = store \cup {x}
    /\ UNCHANGED tx

Abort(c) ==
    /\ tx' = [tx EXCEPT ![c] = {}]
    /\ UNCHANGED store

Next == \E c \in Conn : \/ Commit(c)
                        \/ Abort(c)
                        \/ \E x \in Change : Write(c, x) \/ WriteThrough(c, x)

Spec == Init /\ [][Next]_storeVars
=============================================================================
