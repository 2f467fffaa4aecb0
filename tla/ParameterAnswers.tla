---------------------------- MODULE ParameterAnswers ----------------------------
(***************************************************************************)
(* What a parameter server answers to a request and what it stores, as     *)
(* functions of the stored parameters and of the request alone.  These     *)
(* are closed forms: nothing is looped over, and the outcome of setting a  *)
(* parameter does not depend on the other items of the request.            *)
(***************************************************************************)
EXTENDS ParameterValue, FiniteSets

(* The element of a set that has only one.                                   *)
The(set) == CHOOSE element \in set : TRUE

(* Does an update fit the parameters: a declared name, of the same type? *)
Fits(store, update) ==
  /\ update.name \in DOMAIN store
  /\ get_parameter_type(store[update.name]) = get_parameter_type(update.value)

(* The updates of name from a position on that are carried out, as positions. *)
Updates(store, updates, from, name) ==
  {i \in from .. Len(updates) : updates[i].name = name /\ Fits(store, updates[i])}

Latest(positions) == The({p \in positions : \A j \in positions : j <= p})

(* Every parameter takes the last value that fits it. *)
StoreAfter(store, service, args, from) ==
  IF service # "set_parameters" THEN store
  ELSE [n \in DOMAIN store |->
          IF Updates(store, args, from, n) = {} THEN store[n]
          ELSE args[Latest(Updates(store, args, from, n))].value]

(* The values of the declared names among those given, in their order: the   *)
(* k-th is that of the name up to which k names are declared.                *)
Declared(store, names) == {i \in 1 .. Len(names) : names[i] \in DOMAIN store}

Ranked(positions, k) == {i \in positions : Cardinality({j \in positions : j <= i}) = k}

ValuesOf(store, names) ==
  LET known == Declared(store, names)
  IN  [k \in 1 .. Cardinality(known) |-> The({store[names[i]] : i \in Ranked(known, k)})]

(* What a response holds: the values of the declared names among those asked *)
(* for, one result per update, the declared names, or no descriptors.        *)
Reply(store, service, args) ==
  CASE service = "get_parameters" -> ValuesOf(store, args)
    [] service = "set_parameters" ->
         [i \in 1 .. Len(args) |-> [successful |-> Fits(store, args[i])]]
    [] service = "list_parameters" -> NamesIn(store)
    [] service = "describe_parameters" -> << >>
================================================================================
