----------------------------- MODULE EventDispatch -----------------------------
(***************************************************************************)
(* What an executor promises, whatever its wait set and its loops look     *)
(* like: it watches the entities (subscriptions, services, clients) it was *)
(* given, takes pending data of watched entities one at a time, and goes   *)
(* on doing so for each of them until the process ends.                    *)
(***************************************************************************)
EXTENDS Naturals

CONSTANTS Entities,     (* everything that can become ready                *)
          QueueDepth    (* history depth of an entity's KEEP_LAST queue    *)

VARIABLES watched,      (* the entities the executor monitors              *)
          pending,      (* data in the middleware queue of each entity     *)
          running       (* FALSE once the process has ended                *)

vars == <<watched, pending, running>>

TypeOK ==
  /\ watched \subseteq Entities
  /\ pending \in [Entities -> 0 .. QueueDepth]
  /\ running \in BOOLEAN

Init ==
  /\ watched = {}
  /\ pending = [e \in Entities |-> 0]
  /\ running = TRUE

(* The executor is given its entities, once: a later set is refused. *)
Watch ==
  /\ running
  /\ watched = {}
  /\ watched' \in SUBSET Entities
  /\ UNCHANGED <<pending, running>>

(* Data arrive; a full queue drops its oldest element, so its length stays. *)
Arrive(e) ==
  /\ running
  /\ pending[e] < QueueDepth
  /\ pending' = [pending EXCEPT ![e] = @ + 1]
  /\ UNCHANGED <<watched, running>>

CanDeliver(e) == running /\ e \in watched /\ pending[e] > 0

Deliver(e) ==
  /\ CanDeliver(e)
  /\ pending' = [pending EXCEPT ![e] = @ - 1]
  /\ UNCHANGED <<watched, running>>

Halt ==
  /\ running
  /\ running' = FALSE
  /\ UNCHANGED <<watched, pending>>

Next == Watch \/ Halt \/ \E e \in Entities : Arrive(e) \/ Deliver(e)

(* Weak fairness of <<Deliver(e)>>_vars with its ENABLED spelled out. *)
Served(e) == []<>(~CanDeliver(e)) \/ []<><<Deliver(e)>>_vars

Safety == Init /\ [][Next]_vars
================================================================================
