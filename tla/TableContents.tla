---------------------------- MODULE TableContents ----------------------------
(***************************************************************************)
(* What the statements of a TypedTable promise: the table is a sequence of *)
(* rows of C++ values, and every statement works on the rows that its      *)
(* filter holds for with the values that were bound for it last.  There    *)
(* are no parameters, no text and no conversions.                          *)
(*                                                                         *)
(* What a filter, an order and a limit say is in Expressions, here it is   *)
(* given.                                                                  *)
(***************************************************************************)
EXTENDS Naturals, Sequences, FiniteSets

CONSTANTS Statement,  \* names of Statement objects
          Queries,    \* per statement, insert(), update(), del() and count() queries
          Choice,     \* per column of the table, the values to give to it
          Cell,       \* operands of filters,
          Cells,      \* per kind of operand,
          CellChoice, \* and the values to give to each
          BindParameters, \* the kinds of operands that a bind() selects
          Null,       \* no value
          Unmade,     \* no statement
          MaxRows,    \* bound on the rows of the table
          Holds(_, _, _),    \* the truth of a filter on a group of rows with given operands
          Taken(_, _, _, _), \* the items that an order and a limit leave
          PlaceOf(_, _),     \* the first place of an item in a sequence
          Kept(_, _)         \* a sequence without the items at other places

VARIABLES rows,    \* the table
          memory,  \* content of each cell
          made,    \* per statement, its query and the values given for it
          answer   \* what the last call returned

cvars == <<rows, memory, made, answer>>

Result(call, n) == [call |-> call, rows |-> n]

Nothing == [c \in Cell |-> Null]

ContentsInit ==
    /\ rows = <<>>
    /\ memory \in [Cell -> UNION {CellChoice[c] : c \in Cell}]
    /\ \A c \in Cell : memory[c] \in CellChoice[c]
    /\ made = [s \in Statement |-> Unmade]
    /\ answer = Result("none", 0)

\* The rows that a query takes: where it holds, in its order, within its limit.
HitsOf(q, given) ==
    LET hits == {i \in DOMAIN rows :
                    q.where = <<>> \/ Holds(q.where[1], <<[t \in {q.table} |-> rows[i]]>>, given) = 2}
        key  == [i \in DOMAIN rows |-> [k \in DOMAIN q.order |-> rows[i][q.order[k].col.index]]]
    IN  Taken(hits, key, q.order, q.limit)

\* row with vals in its columns cs.
Changed(row, cs, vals) ==
    [i \in DOMAIN row |-> IF PlaceOf(cs, i) # 0 THEN vals[PlaceOf(cs, i)] ELSE row[i]]

\* The arguments of a statement for columns cs.
Arguments(cs) == {v \in [DOMAIN cs -> UNION {Choice[i] : i \in DOMAIN Choice}] :
                     \A k \in DOMAIN cs : v[k] \in Choice[cs[k]]}

-----------------------------------------------------------------------------
Make(s, q) ==
    /\ made[s] = Unmade
    /\ made' = [made EXCEPT ![s] = [query |-> q, given |-> Nothing]]
    /\ answer' = Result("none", 0)
    /\ UNCHANGED <<rows, memory>>

Give(s, b) ==
    /\ made[s] # Unmade
    /\ made' = [made EXCEPT ![s].given =
          [c \in DOMAIN @ |-> IF \E p \in BindParameters[b] : c \in Cells[p]
                              THEN memory[c] ELSE @[c]]]
    /\ answer' = Result("none", 0)
    /\ UNCHANGED <<rows, memory>>

Forget(s) ==
    /\ made[s] # Unmade
    /\ made' = [made EXCEPT ![s].given = Nothing]
    /\ answer' = Result("none", 0)
    /\ UNCHANGED <<rows, memory>>

Set(c, v) ==
    /\ memory' = [memory EXCEPT ![c] = v]
    /\ answer' = Result("none", 0)
    /\ UNCHANGED <<rows, made>>

Of(s, kind) == made[s] # Unmade /\ made[s].query.kind = kind

\* A call that fails changes nothing.
Fails(s) ==
    /\ made[s] # Unmade
    /\ answer' = Result("failed", 0)
    /\ UNCHANGED <<rows, memory, made>>

Insert(s, vals) ==
    /\ Of(s, "insert") /\ Len(rows) < MaxRows
    /\ rows' = Append(rows, Changed([i \in DOMAIN Choice |-> Null], made[s].query.columns, vals))
    /\ answer' = Result("done", 0)
    /\ UNCHANGED <<memory, made>>

Update(s, vals) ==
    /\ Of(s, "update")
    /\ LET q == made[s].query
           hit == HitsOf(q, made[s].given)
       IN  rows' = [i \in DOMAIN rows |-> IF i \in hit THEN Changed(rows[i], q.columns, vals)
                                          ELSE rows[i]]
    /\ answer' = Result("done", 0)
    /\ UNCHANGED <<memory, made>>

Delete(s) ==
    /\ Of(s, "delete")
    /\ rows' = Kept(rows, DOMAIN rows \ HitsOf(made[s].query, made[s].given))
    /\ answer' = Result("done", 0)
    /\ UNCHANGED <<memory, made>>

Count(s) ==
    /\ Of(s, "count")
    /\ answer' = Result("rows", Cardinality(HitsOf(made[s].query, made[s].given)))
    /\ UNCHANGED <<rows, memory, made>>

ContentsNext ==
    \/ \E s \in Statement : \E q \in Queries[s] : Make(s, q)
    \/ \E s \in Statement, b \in DOMAIN BindParameters : Give(s, b)
    \/ \E c \in Cells["dynamic"] : \E v \in CellChoice[c] : Set(c, v)
    \/ \E s \in Statement : Forget(s) \/ Fails(s) \/ Delete(s) \/ Count(s)
    \/ \E s \in Statement : made[s] # Unmade /\
          \E vals \in Arguments(made[s].query.columns) : Insert(s, vals) \/ Update(s, vals)

ContentsSpec == ContentsInit /\ [][ContentsNext]_cvars
=============================================================================
