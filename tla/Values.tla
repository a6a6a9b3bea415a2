------------------------------- MODULE Values -------------------------------
(***************************************************************************)
(* The way of a C++ value into a parameter of a statement and out of a     *)
(* column of a row: bind_t and Binding, Statement::bind, get_column_t and  *)
(* Statement::column.                                                      *)
(*                                                                         *)
(* Integers are mathematical integers in the range of their C++ type; the  *)
(* constants scale the ranges so that an instance can be small.  A text is *)
(* a number too, 0 is the empty one.  SQLite keeps 64-bit signed integers, *)
(* texts and Null, which also stands for std::nullopt.                     *)
(*                                                                         *)
(* A definition Name_Fault is Name with one fault put in.                  *)
(***************************************************************************)
EXTENDS SqlNull

CONSTANTS Half8,   \* half of the number of values of an 8-bit integer,
          Half32,  \* of a 32-bit integer and
          Half64,  \* of a 64-bit integer
          Text     \* texts

ASSUME HalfAssumption ==
    /\ Half8 \in Nat /\ Half32 \in Nat /\ Half64 \in Nat
    /\ 1 < Half8 /\ 2 * Half8 <= Half32 /\ 2 * Half32 <= Half64

ASSUME TextAssumption == Text \subseteq Nat

Signed    == {"int8", "int32", "int64"}
Unsigned  == {"bool", "uint8", "uint32", "uint64"}
Integer   == Signed \cup Unsigned

\* Text, StaticText and TransientText.
TextTypes == {"Text", "StaticText", "TransientText"}

Half(T) == CASE T \in {"int8", "uint8"}   -> Half8
             [] T \in {"int32", "uint32"} -> Half32
             [] T \in {"int64", "uint64"} -> Half64
             [] T = "bool"                -> 1

ValuesOf(T) == IF T \in Signed THEN -Half(T) .. Half(T) - 1
               ELSE IF T \in Unsigned THEN 0 .. 2 * Half(T) - 1
               ELSE Text

\* What is stored for such values.
StoredOf(T) == IF T \in {"uint32", "uint64"} THEN -Half(T) .. Half(T) - 1 ELSE ValuesOf(T)

\* std::bit_cast between the signed and the unsigned integer of one width.
ToSigned(v, H)   == IF v < H THEN v ELSE v - 2 * H
ToUnsigned(v, H) == IF v < 0 THEN v + 2 * H ELSE v

\* A conversion to a signed integer of fewer bits keeps the lowest of them.
Narrowed(v, H) == IF v \in -H .. H - 1 THEN v ELSE ToSigned(v % (2 * H), H)

-----------------------------------------------------------------------------
(* Binding a value.                                                        *)

\* bind_t: the integral bind function that takes values of type T.
return_t(T) == IF Half(T) <= Half32 THEN "int32" ELSE "int64"

\* Without the bit cast.
get_Unchanged(T, v) == v

\* Binding::get.
get(T, v) == IF T \in {"uint32", "uint64"} THEN ToSigned(v, Half(T)) ELSE v

\* toText: a Text without characters has no data.
toText(T, v) == IF T = "Text" /\ v = 0 THEN Null ELSE v

\* Statement::bind: what is in the parameter after value v of type T is bound.
Bound(T, v) == IF v = Null THEN Null
               ELSE IF T \in Integer THEN get(T, v)
               ELSE toText(T, v)

-----------------------------------------------------------------------------
(* Reading a column.                                                       *)

\* sqlite3_column_int, sqlite3_column_int64: NULL is 0.
column_int(x, H) == IF x = Null THEN 0 ELSE Narrowed(x, H)

\* static_cast of a 32-bit integer.
Cast(T, v) == CASE T = "int8"  -> Narrowed(v, Half8)
                [] T = "uint8" -> IF v \in ValuesOf(T) THEN v
                                  ELSE ToUnsigned(Narrowed(v, Half8), Half8)
                [] T = "bool"  -> IF v = 0 THEN 0 ELSE 1
                [] OTHER       -> v

\* Statement::column<T>.
column(T, x) ==
    IF T \in Integer
    THEN LET v == column_int(x, Half(return_t(T)))
         IN  IF T \in {"uint32", "uint64"} THEN ToUnsigned(v, Half(T)) ELSE Cast(T, v)
    ELSE IF x = Null THEN 0 ELSE x
=============================================================================
