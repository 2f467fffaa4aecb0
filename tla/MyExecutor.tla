------------------------------- MODULE MyExecutor -------------------------------
(***************************************************************************)
(* MyNode, the entities it creates and MyExecutor, in one process with one *)
(* thread, next to the middleware that fills the entities' queues.         *)
(*                                                                         *)
(* A node keeps one list per kind of entity.  addMyNode copies the lists   *)
(* into the executor and sizes the wait set once.  spin clears and refills *)
(* the wait set, waits, and walks the executor's lists, indexing the wait  *)
(* set's arrays with the positions of the lists.                           *)
(*                                                                         *)
(* Definitions with a suffix, as in Taken_WithoutCheck, say what the one   *)
(* below them would be if the code made the mistake the suffix names; they *)
(* show that the properties would notice it.                               *)
(***************************************************************************)
EXTENDS Naturals, Sequences

CONSTANTS
  Nodes,           (* the MyNode objects of the process                    *)
  Subscriptions, Services, Clients,  (* the entities nodes may create      *)
  NULL,            (* an empty slot of a wait set array                    *)
  QueueDepth,      (* history depth of an entity's KEEP_LAST queue         *)
  AppCatches,      (* does the application catch the library's exceptions? *)
  MaxRegistered    (* bound: length of an executor list                    *)

Entities == Subscriptions \cup Services \cup Clients
Kinds == {"subscription", "service", "client"}
KindOf(e) == IF e \in Subscriptions THEN "subscription"
             ELSE IF e \in Services THEN "service" ELSE "client"

ASSUME ConstantsAssumption ==
  /\ NULL \notin Entities
  /\ Subscriptions \cap (Services \cup Clients) = {} /\ Services \cap Clients = {}
  /\ QueueDepth \in Nat \ {0}
  /\ AppCatches \in BOOLEAN
  /\ MaxRegistered \in Nat

VARIABLES
  created,     (* MyNode::subscriptions_, services_ and clients_           *)
  registered,  (* MyExecutor::subscriptions_, services_ and clients_       *)
  valid,       (* wait_set_.impl # nullptr: the wait set is initialised    *)
  size,        (* wait_set_.size_of_subscriptions, _services, _clients     *)
  slots,       (* the used parts of wait_set_.subscriptions, ...           *)
  pc,          (* where the thread is                                      *)
  loop,        (* which of spin's three dispatch loops is running          *)
  index,       (* that loop's i, counted from 1                            *)
  pending      (* data in the middleware queue of each entity              *)

waitSet == <<valid, size, slots>>
cursor == <<loop, index>>
vars == <<created, registered, waitSet, pc, cursor, pending>>

(* The loops of spin() run over subscriptions, then services, then clients. *)
DispatchOrder == <<"subscription", "service", "client">>
EmptyLists == [k \in Kinds |-> <<>>]

Init ==
  /\ created = [n \in Nodes |-> EmptyLists]
  /\ registered = EmptyLists
  /\ valid = FALSE
  /\ size = [k \in Kinds |-> 0]
  /\ slots = EmptyLists
  /\ pc = "app"
  /\ loop = 1
  /\ index = 1
  /\ pending = [e \in Entities |-> 0]

(* An exception leaves the library: nothing in this repository catches it. *)
Throw == pc' = IF AppCatches THEN "app" ELSE "terminated"

-----------------------------------------------------------------------------
(* MyNode: createSubscription, createService, createClient.  The constructor *)
(* throws when rcl cannot create the entity, before anything is recorded.    *)
IsCreated(e) ==
  \E n \in Nodes : \E i \in 1 .. Len(created[n][KindOf(e)]) : created[n][KindOf(e)][i] = e

Create(n, k, e) ==
  /\ pc = "app"
  /\ ~IsCreated(e)
  /\ \/ created' = [created EXCEPT ![n][k] = Append(@, e)] /\ UNCHANGED pc
     \/ UNCHANGED created /\ Throw
  /\ UNCHANGED <<registered, waitSet, cursor, pending>>

createSubscription(n) == \E e \in Subscriptions : Create(n, "subscription", e)
createService(n) == \E e \in Services : Create(n, "service", e)
createClient(n) == \E e \in Clients : Create(n, "client", e)
CreateEntity(n) == createSubscription(n) \/ createService(n) \/ createClient(n)

(* MyNode: what the getters copy out of the node's lists. *)
getSubscriptions(n) == created[n]["subscription"]
getServices(n) == created[n]["service"]
getClients(n) == created[n]["client"]
Pairs(n) == [subscription |-> getSubscriptions(n), service |-> getServices(n),
             client |-> getClients(n)]

(* MyExecutor::addMyNode: the lists grow first, then rcl_wait_set_init       *)
(* either sizes a wait set that was not initialised, or fails: it always     *)
(* fails on an initialised one, and memory may run out on the first call.    *)
AddMyNode_IgnoresInitError(n) ==
  /\ pc = "app"
  /\ \A k \in Kinds : Len(registered[k]) + Len(Pairs(n)[k]) <= MaxRegistered
  /\ registered' = [k \in Kinds |-> registered[k] \o Pairs(n)[k]]
  /\ \/ /\ ~valid
        /\ valid' = TRUE
        /\ size' = [k \in Kinds |-> Len(registered'[k])]
        /\ slots' = EmptyLists
     \/ UNCHANGED waitSet
  /\ UNCHANGED <<created, cursor, pending, pc>>

AddMyNode(n) ==
  /\ pc = "app"
  /\ \A k \in Kinds : Len(registered[k]) + Len(Pairs(n)[k]) <= MaxRegistered
  /\ registered' = [k \in Kinds |-> registered[k] \o Pairs(n)[k]]
  /\ \/ /\ ~valid
        /\ valid' = TRUE
        /\ size' = [k \in Kinds |-> Len(registered'[k])]
        /\ slots' = EmptyLists
        /\ UNCHANGED pc
     \/ UNCHANGED waitSet /\ Throw
  /\ UNCHANGED <<created, cursor, pending>>

-----------------------------------------------------------------------------
(* MyExecutor::spin.  Adding to a full array fails and spin ignores it.      *)
Cleared_NotAtAll == slots
Cleared == EmptyLists
AddAll(array, handles, capacity) ==
  array \o SubSeq(handles, 1, IF Len(handles) <= capacity - Len(array)
                              THEN Len(handles) ELSE capacity - Len(array))

SpinBegin ==
  /\ pc = "app"
  /\ IF valid
     THEN /\ slots' = [k \in Kinds |-> AddAll(Cleared[k], registered[k], size[k])]
          /\ pc' = "waiting"
     ELSE UNCHANGED slots /\ Throw
  /\ UNCHANGED <<created, registered, valid, size, cursor, pending>>

(* rcl_wait blanks the slots whose entity is not ready. *)
Monitored == (UNION {{slots[k][i] : i \in 1 .. Len(slots[k])} : k \in Kinds}) \ {NULL}
Ready == {e \in Monitored : pending[e] > 0}
Only_Packed(ready) == [k \in Kinds |-> SelectSeq(slots[k], LAMBDA e : e \in ready)]
Only(ready) == [k \in Kinds |-> [i \in 1 .. Len(slots[k]) |->
                  IF slots[k][i] \in ready THEN slots[k][i] ELSE NULL]]

WaitTimeout ==
  /\ pc = "waiting"
  /\ Monitored # {}
  /\ Ready = {}
  /\ slots' = Only({})
  /\ pc' = "app"
  /\ UNCHANGED <<created, registered, valid, size, cursor, pending>>

(* Everything ready is reported; the middleware may also report an entity    *)
(* from which nothing can be taken.                                          *)
WaitReady ==
  /\ pc = "waiting"
  /\ \E spurious \in SUBSET Monitored :
       /\ Ready \cup spurious # {}
       /\ slots' = Only(Ready \cup spurious)
  /\ pc' = "dispatching"
  /\ loop' = 1
  /\ index' = 1
  /\ UNCHANGED <<created, registered, valid, size, pending>>

(* Any other return code (an error, RCL_RET_WAIT_SET_EMPTY) leaves the slots *)
(* as they are, and spin dispatches as if all of them were ready.            *)
WaitError ==
  /\ pc = "waiting"
  /\ pc' = "dispatching"
  /\ loop' = 1
  /\ index' = 1
  /\ UNCHANGED <<created, registered, waitSet, pending>>

Wait == WaitTimeout \/ WaitReady \/ WaitError

-----------------------------------------------------------------------------
(* The dispatch loops.  Reading an array beyond its size is undefined: it may *)
(* yield a null or a non-null pointer, or end the process.                    *)
List == registered[DispatchOrder[loop]]
Capacity == size[DispatchOrder[loop]]
Array == slots[DispatchOrder[loop]]

HasEntry == pc = "dispatching" /\ index <= Len(List)
InBounds == index <= Capacity
SlotReads == IF InBounds THEN {index <= Len(Array) /\ Array[index] # NULL} ELSE BOOLEAN

SkipEntry ==
  /\ HasEntry
  /\ FALSE \in SlotReads
  /\ index' = index + 1
  /\ UNCHANGED <<created, registered, waitSet, pc, loop, pending>>

(* The callbacks of the programs take one datum, and do nothing but report   *)
(* when there is none.                                                       *)
Taken_WithoutCheck(e) == [pending EXCEPT ![e] = @ - 1]
Taken(e) == [pending EXCEPT ![e] = IF @ > 0 THEN @ - 1 ELSE @]

InvokeCallback_UntilEmpty ==
  /\ HasEntry
  /\ TRUE \in SlotReads
  /\ pending' = Taken(List[index])
  /\ index' = IF pending'[List[index]] > 0 THEN index ELSE index + 1
  /\ UNCHANGED <<created, registered, waitSet, pc, loop>>

InvokeCallback_OnePerSpin ==
  /\ HasEntry
  /\ TRUE \in SlotReads
  /\ pending' = Taken(List[index])
  /\ pc' = "app"
  /\ UNCHANGED <<created, registered, waitSet, cursor>>

InvokeCallback ==
  /\ HasEntry
  /\ TRUE \in SlotReads
  /\ pending' = Taken(List[index])
  /\ index' = index + 1
  /\ UNCHANGED <<created, registered, waitSet, pc, loop>>

BadRead ==
  /\ HasEntry
  /\ ~InBounds
  /\ pc' = "terminated"
  /\ UNCHANGED <<created, registered, waitSet, cursor, pending>>

NextLoop ==
  /\ pc = "dispatching"
  /\ index > Len(List)
  /\ index' = 1
  /\ IF loop < Len(DispatchOrder)
     THEN loop' = loop + 1 /\ UNCHANGED pc
     ELSE loop' = 1 /\ pc' = "app"
  /\ UNCHANGED <<created, registered, waitSet, pending>>

Dispatch == SkipEntry \/ InvokeCallback \/ BadRead \/ NextLoop

-----------------------------------------------------------------------------
(* The middleware: data arrive for an entity at any moment after it exists.  *)
Arrive(e) ==
  /\ pc # "terminated"
  /\ IsCreated(e)
  /\ pending[e] < QueueDepth
  /\ pending' = [pending EXCEPT ![e] = @ + 1]
  /\ UNCHANGED <<created, registered, waitSet, pc, cursor>>

Terminated == pc = "terminated" /\ UNCHANGED vars

Next ==
  \/ \E n \in Nodes : CreateEntity(n) \/ AddMyNode(n)
  \/ SpinBegin \/ Wait \/ Dispatch
  \/ \E e \in Entities : Arrive(e)
  \/ Terminated

(* The programs call spin in an endless loop, rcl_wait returns (its timeout  *)
(* is one second), and the dispatch loops run on.                            *)
Fairness == WF_vars(valid /\ SpinBegin) /\ WF_vars(Wait) /\ WF_vars(Dispatch)

Spec == Init /\ [][Next]_vars /\ Fairness

-----------------------------------------------------------------------------
(* Properties.                                                               *)

TypeOK ==
  /\ created \in [Nodes -> [Kinds -> Seq(Entities)]]
  /\ registered \in [Kinds -> Seq(Entities)]
  /\ valid \in BOOLEAN
  /\ size \in [Kinds -> Nat]
  /\ slots \in [Kinds -> Seq(Entities \cup {NULL})]
  /\ pc \in {"app", "waiting", "dispatching", "terminated"}
  /\ loop \in 1 .. 3
  /\ index \in Nat \ {0}
  /\ pending \in [Entities -> 0 .. QueueDepth]

(* What makes the reads of the dispatch loops safe, as an inductive invariant: *)
(* the wait set has as many slots as the lists have entries, and spin reads it *)
(* only once it is initialised.                                                *)
SizedToLists ==
  pc # "terminated" =>
    /\ valid => \A k \in Kinds : size[k] = Len(registered[k])
    /\ pc # "app" => valid

(* No dispatch loop of spin reads a wait set array beyond its size, although *)
(* the loops are bounded by the lists and the arrays were sized by an        *)
(* earlier call: this is so as long as addMyNode's exception ends the        *)
(* process, as it does in every program of the repository.                   *)
NoOutOfBoundsRead == HasEntry => InBounds

(* Between the filling of the wait set and the end of the dispatch loops, an *)
(* occupied slot i holds the handle of the i-th list entry, so the callback  *)
(* that is run is the one of the entity that was ready.                      *)
HandleMatchesEntry ==
  pc \in {"waiting", "dispatching"} =>
    \A k \in Kinds : \A i \in 1 .. Len(slots[k]) :
      slots[k][i] # NULL => i <= Len(registered[k]) /\ slots[k][i] = registered[k][i]

(* What the wait set has room for: the entities the executor really watches. *)
Watched ==
  {e \in Entities : valid /\ \E k \in Kinds : \E i \in 1 .. size[k] : registered[k][i] = e}

(* The executor implements the abstract dispatcher: whatever rcl_wait        *)
(* returns, callbacks get data one at a time, and only those of the entities *)
(* given to the executor by the one addMyNode that succeeded.                *)
ED == INSTANCE EventDispatch WITH watched <- Watched, running <- pc # "terminated"
ImplementsEventDispatch == ED!Safety

(* And it never starves one of them, whatever the others receive.            *)
NoEntityStarves == \A e \in Entities : ED!Served(e)

(* An entity that has room in the wait set keeps being served also when the  *)
(* application survives a failed addMyNode, until a read out of bounds ends  *)
(* the process.                                                              *)
WatchedServed ==
  \A e \in Entities : [](e \in Watched /\ pending[e] = QueueDepth
                          => <>(pending[e] < QueueDepth \/ pc = "terminated"))
================================================================================
