-------------------------- MODULE MCMyParameterService --------------------------
(* Two parameters, integers, a boolean and values of unknown types, and        *)
(* requests that name a parameter twice, an undeclared one, or do not fit.     *)
EXTENDS MyParameterService

CONSTANTS p, q

Value(tag, data) ==
  [type |-> tag, bool_value |-> FALSE, integer_value |-> data,
   double_value |-> 0, string_value |-> 0]

one == Value(1, 1)
two == Value(1, 2)
off == Value(0, 0)

MCNameOrder == <<p, q>>
MCValues == {one, two, off, Value(9, 0), Value(255, 0)}

Set(name, value) == [name |-> name, value |-> value]

MCContents ==
  {[service |-> "get_parameters", args |-> a] : a \in {<<q, p>>}}
  \cup {[service |-> "set_parameters", args |-> a] :
          a \in {<<Set(p, one), Set(q, off), Set(p, two)>>, <<Set(q, one), Set(p, off)>>}}
  \cup {[service |-> s, args |-> <<>>] : s \in {"list_parameters", "describe_parameters"}}
================================================================================
