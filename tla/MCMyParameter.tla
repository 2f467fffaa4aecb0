------------------------------ MODULE MCMyParameter ------------------------------
(* The parameter storage with values of every type that has a getter, of a    *)
(* type that has none and of unknown types, for TLC.                          *)
EXTENDS MyParameter

CONSTANTS p, q, r

Value(tag, data) ==
  [type |-> tag, bool_value |-> (data = 1), integer_value |-> data,
   double_value |-> data, string_value |-> data]

MCNameOrder == <<p, q, r>>
MCValues == {Value(tag, 0) : tag \in {0, 2, 3, 8, 9, 255}} \cup {Value(1, 0), Value(1, 1)}
================================================================================
