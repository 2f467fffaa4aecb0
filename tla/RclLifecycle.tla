---------------------------- MODULE RclLifecycle ----------------------------
(* What rcl demands of the client library that owns its objects: a node is  *)
(* initialised in an initialised context, an entity (publisher, subscription,*)
(* service, client) in an initialised node; every entity is finalised, once, *)
(* while its node still is; a node is finalised after its entities, and a    *)
(* context is shut down after everything that was initialised in it.         *)
CONSTANT Entities

VARIABLES context, node, entity, waitSet

lifecycleVars == <<context, node, entity, waitSet>>

Live(e) == entity[e] = "init"

LifecycleInit ==
  /\ context = "none"
  /\ node = "none"
  /\ entity = [e \in Entities |-> "none"]
  /\ waitSet = "none"

InitContext ==
  /\ context = "none"
  /\ context' = "init"
  /\ UNCHANGED <<node, entity, waitSet>>

InitNode ==
  /\ context = "init" /\ node = "none"
  /\ node' = "init"
  /\ UNCHANGED <<context, entity, waitSet>>

InitEntity(e) ==
  /\ node = "init" /\ entity[e] = "none"
  /\ entity' = [entity EXCEPT ![e] = "init"]
  /\ UNCHANGED <<context, node, waitSet>>

InitWaitSet ==
  /\ context = "init" /\ waitSet = "none"
  /\ waitSet' = "init"
  /\ UNCHANGED <<context, node, entity>>

FiniEntity(e) ==
  /\ node = "init" /\ Live(e)
  /\ entity' = [entity EXCEPT ![e] = "fini"]
  /\ UNCHANGED <<context, node, waitSet>>

FiniWaitSet ==
  /\ waitSet = "init"
  /\ waitSet' = "fini"
  /\ UNCHANGED <<context, node, entity>>

FiniNode ==
  /\ node = "init"
  /\ ~ \E e \in Entities : Live(e)
  /\ node' = "fini"
  /\ UNCHANGED <<context, entity, waitSet>>

ShutdownContext ==
  /\ context = "init" /\ node # "init" /\ waitSet # "init"
  /\ ~ \E e \in Entities : Live(e)
  /\ context' = "shutdown"
  /\ UNCHANGED <<node, entity, waitSet>>

LifecycleNext ==
  \/ InitContext \/ InitNode \/ InitWaitSet
  \/ FiniWaitSet \/ FiniNode \/ ShutdownContext
  \/ \E e \in Entities : InitEntity(e) \/ FiniEntity(e)

LifecycleSpec == LifecycleInit /\ [][LifecycleNext]_lifecycleVars
=============================================================================
