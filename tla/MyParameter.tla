------------------------------- MODULE MyParameter -------------------------------
(***************************************************************************)
(* The parameter storage: a map from names to values, with a type check on *)
(* every update, and getters that throw unless the parameter is declared   *)
(* with the type they are for.                                             *)
(***************************************************************************)
EXTENDS ParameterValue

VARIABLE parameters   (* parameters_: the declared names with their values *)

Init == parameters = << >>

has_parameter(name) == name \in DOMAIN parameters

get_parameter(name) == IF has_parameter(name) THEN parameters[name] ELSE Threw

(* declare_parameter returns whether the name was free; a second declaration *)
(* changes nothing.                                                          *)
declare_parameter(name, value) ==
  parameters' = IF has_parameter(name) THEN parameters
                ELSE [n \in DOMAIN parameters \cup {name} |->
                        IF n = name THEN value ELSE parameters[n]]

(* set_parameter returns Accepts and updates the map if that is true. *)
Accepts_OfAnyType(name, value) == has_parameter(name)
Accepts(name, value) ==
  /\ has_parameter(name)
  /\ get_parameter_type(parameters[name]) = get_parameter_type(value)

set_parameter(name, value) ==
  parameters' = IF Accepts(name, value) THEN [parameters EXCEPT ![name] = value]
                ELSE parameters

get_parameter_names == NamesIn(parameters)

(* The typed getters: the type is checked by the tag, then the field of that *)
(* type is returned.                                                         *)
TypedGet(name, type, field) ==
  IF has_parameter(name) /\ get_parameter_type(parameters[name]) = type
  THEN parameters[name][field] ELSE Threw

get_parameter_bool(name) == TypedGet(name, PARAMETER_BOOL, "bool_value")
get_parameter_int(name) == TypedGet(name, PARAMETER_INTEGER, "integer_value")
get_parameter_double(name) == TypedGet(name, PARAMETER_DOUBLE, "double_value")
get_parameter_string(name) == TypedGet(name, PARAMETER_STRING, "string_value")

Next ==
  \E name \in Names, value \in Values :
    declare_parameter(name, value) \/ set_parameter(name, value)

Spec == Init /\ [][Next]_parameters

-----------------------------------------------------------------------------
(* Properties.                                                               *)

TypeOK == /\ DOMAIN parameters \subseteq Names
          /\ \A n \in DOMAIN parameters : parameters[n] \in Values

(* The typed getters that work for a name. *)
Readable(name) ==
  << get_parameter_bool(name) # Threw, get_parameter_int(name) # Threw,
     get_parameter_double(name) # Threw, get_parameter_string(name) # Threw >>

(* Once a parameter is declared, no sequence of declarations and updates, not *)
(* even one through values of unknown type, makes a typed getter that worked  *)
(* for it throw, or one that threw work: a program may read its parameters    *)
(* without handling exceptions.                                               *)
GettersStable ==
  [][\A n \in Names : has_parameter(n) => has_parameter(n)' /\ Readable(n)' = Readable(n)]_parameters

(* A value that carries the tag rcl_interfaces gives to booleans is one that *)
(* the getter for booleans returns.                                          *)
BoolReadAsBool ==
  \A n \in DOMAIN parameters :
    parameters[n].type = PARAMETER_BOOL => get_parameter_bool(n) = parameters[n].bool_value
================================================================================
