------------------------------ MODULE SqlNull ------------------------------
(* SQL NULL, which the modules about values and expressions share.          *)
EXTENDS Integers

CONSTANT Null

ASSUME NullAssumption == Null \notin Int
=============================================================================
