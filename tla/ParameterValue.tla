----------------------------- MODULE ParameterValue -----------------------------
(***************************************************************************)
(* The messages of rcl_interfaces that the parameter code works on, and    *)
(* the type MyParameter sees in a value.  A value has a tag and one field  *)
(* per C++ type; nothing ties the tag to the field that was filled in.     *)
(***************************************************************************)
EXTENDS Naturals, Sequences

CONSTANTS
  NameOrder,   (* the parameter names in use, in the order std::map keeps   *)
  Values,      (* the ParameterValue messages in use                        *)
  Threw        (* what a getter has for a value when it throws              *)

(* The names of a map, in that order. *)
NamesIn(map) == SelectSeq(NameOrder, LAMBDA n : n \in DOMAIN map)

Names == {NameOrder[i] : i \in 1 .. Len(NameOrder)}
Fields == {"bool_value", "integer_value", "double_value", "string_value"}

ASSUME ValuesAssumption ==
  /\ \A i, j \in 1 .. Len(NameOrder) : NameOrder[i] = NameOrder[j] => i = j
  /\ \A v \in Values : DOMAIN v = Fields \cup {"type"} /\ v.type \in 0 .. 255

ASSUME ThrewAssumption == \A v \in Values, f \in Fields : v[f] # Threw

(* The constants of rcl_interfaces/msg/ParameterType. *)
PARAMETER_NOT_SET == 0
PARAMETER_BOOL == 1
PARAMETER_INTEGER == 2
PARAMETER_DOUBLE == 3
PARAMETER_STRING == 4
PARAMETER_BYTE_ARRAY == 5
PARAMETER_BOOL_ARRAY == 6
PARAMETER_INTEGER_ARRAY == 7
PARAMETER_DOUBLE_ARRAY == 8
PARAMETER_STRING_ARRAY == 9

(* MyParameter::get_parameter_type counts the tags of a value from 0. *)
TypeOfTag ==
  << PARAMETER_BOOL, PARAMETER_INTEGER, PARAMETER_DOUBLE, PARAMETER_STRING,
     PARAMETER_BYTE_ARRAY, PARAMETER_BOOL_ARRAY, PARAMETER_INTEGER_ARRAY,
     PARAMETER_DOUBLE_ARRAY, PARAMETER_STRING_ARRAY >>

get_parameter_type_TagsShared(value) ==
  IF value.type < 8 THEN TypeOfTag[(value.type \div 2) + 1] ELSE PARAMETER_NOT_SET

get_parameter_type(value) ==
  IF value.type < Len(TypeOfTag) THEN TypeOfTag[value.type + 1] ELSE PARAMETER_NOT_SET
================================================================================
