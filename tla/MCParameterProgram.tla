--------------------------- MODULE MCParameterProgram ---------------------------
(* One declared integer, and callers that set it, get it, and list, for TLC.   *)
EXTENDS ParameterProgram

CONSTANTS p

Value(data) ==
  [type |-> 1, bool_value |-> FALSE, integer_value |-> data,
   double_value |-> 0, string_value |-> 0]

MCNameOrder == <<p>>
MCValues == {Value(1), Value(2)}

MCContents ==
  {[service |-> "get_parameters", args |-> <<p>>],
   [service |-> "set_parameters", args |-> <<[name |-> p, value |-> Value(2)]>>],
   [service |-> "list_parameters", args |-> <<>>]}
================================================================================
