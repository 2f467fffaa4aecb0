----------------------------- MODULE ParameterServer -----------------------------
(***************************************************************************)
(* What a parameter server promises its callers: every request is carried  *)
(* out at most once, at one moment, and its answer is that moment's; the   *)
(* answer may be lost, and so may the request before it is carried out.    *)
(***************************************************************************)
EXTENDS ParameterAnswers

CONSTANTS
  Ids,         (* identities of requests                                    *)
  Contents,    (* what callers may ask: records of a service and arguments  *)
  None         (* no answer                                                 *)

VARIABLES
  store,       (* the declared parameters                                   *)
  issued,      (* the requests sent so far                                  *)
  waiting,     (* those that may still be carried out                       *)
  decided,     (* the decision on the request carried out last, until its   *)
               (* answer is sent: at most one                               *)
  answers      (* what each request was answered, or None                   *)

vars == <<store, issued, waiting, decided, answers>>

Init ==
  /\ store = << >>
  /\ issued = {}
  /\ waiting = {}
  /\ decided = {}
  /\ answers = [id \in Ids |-> None]

(* The program that owns the parameters declares them and sets them, between *)
(* two requests.                                                             *)
Declare(name, value) ==
  /\ decided = {}
  /\ name \notin DOMAIN store
  /\ store' = [n \in DOMAIN store \cup {name} |-> IF n = name THEN value ELSE store[n]]
  /\ UNCHANGED <<issued, waiting, decided, answers>>

Update(name, value) ==
  /\ decided = {}
  /\ store' = StoreAfter(store, "set_parameters", <<[name |-> name, value |-> value]>>, 1)
  /\ UNCHANGED <<issued, waiting, decided, answers>>

Requests == {[id |-> id, service |-> c.service, args |-> c.args] : id \in Ids, c \in Contents}

(* Sending a request may cost an earlier one, or this one, its place. *)
Issue(request) ==
  /\ request.id \notin issued
  /\ issued' = issued \cup {request.id}
  /\ \/ waiting' \in {waiting, waiting \cup {request}}
     \/ \E lost \in waiting : waiting' = (waiting \ {lost}) \cup {request}
  /\ UNCHANGED <<store, decided, answers>>

CarryOut(request) ==
  /\ decided = {}
  /\ request \in waiting
  /\ waiting' = waiting \ {request}
  /\ decided' = {[id |-> request.id, reply |-> Reply(store, request.service, request.args)]}
  /\ store' = StoreAfter(store, request.service, request.args, 1)
  /\ UNCHANGED <<issued, answers>>

Answer ==
  /\ decided # {}
  /\ decided' = {}
  /\ \/ \E decision \in decided : answers' = [answers EXCEPT ![decision.id] = decision.reply]
     \/ UNCHANGED answers
  /\ UNCHANGED <<store, issued, waiting>>

Next ==
  \/ \E name \in Names, value \in Values : Declare(name, value) \/ Update(name, value)
  \/ \E request \in Requests : Issue(request) \/ CarryOut(request)
  \/ Answer

IsWaiting(id) == \E request \in waiting : request.id = id

(* No request waits forever, and no answer is held back. *)
Prompt ==
  /\ \A id \in Ids : IsWaiting(id) ~> ~IsWaiting(id)
  /\ decided # {} ~> decided = {}

Safety == Init /\ [][Next]_vars
================================================================================
