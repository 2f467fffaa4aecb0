------------------------------ MODULE Lifetime ------------------------------
(* Who owns what, and in which order it is initialised and destroyed: the    *)
(* programs' block, from RCLUtils::init to RCLUtils::shutdown, with a node,   *)
(* its publishers, subscriptions, services and clients, a parameter service   *)
(* and an executor.  Any call of rcl may fail; the library then throws.       *)
EXTENDS Naturals, Sequences

CONSTANTS
  Programs,    \* the bodies of the block: sequences of statements
  MaxLines,    \* the bound on their length
  AppCatches   \* TRUE: a handler around the block catches what is thrown in it

Creations == {"publisher", "subscription", "service", "client", "parameter_service"}

\* The statements that declare a local variable of the block.
Locals == {"node", "publisher", "client", "parameter_service", "executor"}

Statements == Creations \cup Locals \cup {"addMyNode", "request", "loop"}

\* A program declares one node, before everything else, and at most one
\* executor, which it gives the node once, afterwards.
ASSUME ProgramsAssumption ==
  /\ MaxLines \in Nat
  /\ AppCatches \in BOOLEAN
  /\ \A p \in Programs :
       /\ p \in Seq(Statements) /\ Len(p) <= MaxLines
       /\ \A i \in DOMAIN p : p[i] = "node" <=> i = 1
       /\ \A i, j \in DOMAIN p : p[i] = p[j] /\ p[i] \in {"executor", "addMyNode"} => i = j
       /\ \A i \in DOMAIN p : p[i] = "addMyNode" => \E j \in 1 .. i : p[j] = "executor"

\* The constructor of MyParameterService creates four services.
EntityCount(kind) == IF kind = "parameter_service" THEN 4 ELSE 1

\* <<i, k>> is the k-th entity that the i-th statement creates.
Entities == (1 .. MaxLines) \X (1 .. 4)

\* Whose shared_ptr keeps an entity.
Owners(kind) ==
  CASE kind = "publisher" -> {"app"}
    [] kind = "client" -> {"app", "node"}
    [] OTHER -> {"node"}

VARIABLES
  program,    \* the body of the block
  phase,      \* of the process: start, block, leaving (it), after, ended, terminated
  line,       \* the statement to execute
  made,       \* how many entities it has created
  scope,      \* the lines of the local variables that exist
  context, node, waitSet,
  entity,     \* the state of every entity's handle
  holders,    \* the owners of every entity
  watched     \* the entities in the executor's lists

resources == <<context, node, waitSet, entity>>
vars == <<program, phase, line, made, scope, context, node, waitSet, entity, holders, watched>>

Init ==
  /\ program \in Programs
  /\ phase = "start" /\ line = 1 /\ made = 0 /\ scope = <<>>
  /\ context = "none" /\ node = "none" /\ waitSet = "none"
  /\ entity = [e \in Entities |-> "none"]
  /\ holders = [e \in Entities |-> {}]
  /\ watched = {}

Kind(e) == program[e[1]]

\* An exception leaves the block, or ends the process without unwinding.
Throw ==
  /\ phase' = IF AppCatches THEN "leaving" ELSE "terminated"
  /\ UNCHANGED <<line, made, scope>>

\* RCLUtils::init: nothing surrounds it that would catch.
InitContext ==
  /\ phase = "start"
  /\ \/ context' = "init" /\ phase' = "block"
     \/ phase' = "terminated" /\ UNCHANGED context
  /\ UNCHANGED <<program, line, made, scope, node, waitSet, entity, holders, watched>>

At(kinds) == phase = "block" /\ line <= Len(program) /\ program[line] \in kinds

NextLine ==
  /\ line' = line + 1 /\ made' = 0
  /\ scope' = IF program[line] \in Locals THEN Append(scope, line) ELSE scope
  /\ UNCHANGED phase

ConstructNode ==
  /\ At({"node"})
  /\ \/ node' = "init" /\ NextLine
     \/ Throw /\ UNCHANGED node
  /\ UNCHANGED <<program, context, waitSet, entity, holders, watched>>

\* The constructor of an entity and the list or pointer that then holds it.
Construction ==
  /\ LET e == <<line, made + 1>> IN
       \/ /\ entity' = [entity EXCEPT ![e] = "init"]
          /\ holders' = [holders EXCEPT ![e] = Owners(Kind(e))]
          /\ \/ made + 1 = EntityCount(program[line]) /\ NextLine
             \/ /\ made + 1 < EntityCount(program[line])
                /\ made' = made + 1
                /\ UNCHANGED <<phase, line, scope>>
       \/ Throw /\ UNCHANGED <<entity, holders>>
  /\ UNCHANGED <<program, context, node, waitSet, watched>>

CreatePublisher == At({"publisher"}) /\ Construction

CreateSubscription == At({"subscription"}) /\ Construction

CreateService == At({"service"}) /\ Construction

CreateClient == At({"client"}) /\ Construction

CreateParameterService == At({"parameter_service"}) /\ Construction

CreateEntity ==
  \/ CreatePublisher \/ CreateSubscription \/ CreateService \/ CreateClient
  \/ CreateParameterService

ConstructExecutor ==
  /\ At({"executor"})
  /\ NextLine
  /\ UNCHANGED <<program, resources, holders, watched>>

\* The executor's lists grow before the wait set is initialised.
AddMyNode ==
  /\ At({"addMyNode"})
  /\ watched' = {e \in Entities : "node" \in holders[e]}
  /\ \/ waitSet' = "init" /\ NextLine
     \/ Throw /\ UNCHANGED waitSet
  /\ UNCHANGED <<program, context, node, entity, holders>>

\* MyClient::request, and one round of the endless loop, in which spin or
\* publish may throw.
Request ==
  /\ At({"request"})
  /\ NextLine \/ Throw
  /\ UNCHANGED <<program, resources, holders, watched>>

LoopThrows ==
  /\ At({"loop"})
  /\ Throw
  /\ UNCHANGED <<program, resources, holders, watched>>

\* Mutant: the variables are destroyed in the order of their declarations.
InnermostIndex_Outermost == 1

\* The local variable that is destroyed next.
InnermostIndex == Len(scope)

Destroys(kinds) ==
  /\ phase = "leaving" /\ scope # <<>>
  /\ program[scope[InnermostIndex]] \in kinds

\* The scope without it.
Pop ==
  scope' = [k \in 1 .. Len(scope) - 1 |-> IF k < InnermostIndex THEN scope[k] ELSE scope[k + 1]]

\* An owner lets go of an entity; the last one destroys it, which needs the node.
Drop(e, owner) ==
  /\ holders' = [holders EXCEPT ![e] = @ \ {owner}]
  /\ entity' = IF holders[e] = {owner}
                 THEN [entity EXCEPT ![e] = IF node = "init" THEN "fini" ELSE "refused"]
                 ELSE entity

\* Mutant: the destructor leaves the wait set alone.
DestroyExecutor_WithoutFini ==
  /\ Destroys({"executor"})
  /\ watched' = {} /\ Pop
  /\ UNCHANGED <<program, phase, line, made, resources, holders>>

\* The destructor lets an exception out, which terminates the process: it is
\* noexcept.  A wait set that addMyNode has not initialised is left as it is.
DestroyExecutor ==
  /\ Destroys({"executor"})
  /\ \/ /\ waitSet' = IF waitSet = "init" THEN "fini" ELSE waitSet
        /\ watched' = {} /\ Pop /\ UNCHANGED phase
     \/ waitSet = "init" /\ phase' = "terminated" /\ UNCHANGED <<waitSet, watched, scope>>
  /\ UNCHANGED <<program, line, made, context, node, entity, holders>>

DestroyPointer ==
  /\ Destroys({"publisher", "client"})
  /\ Drop(<<scope[InnermostIndex], 1>>, "app")
  /\ Pop
  /\ UNCHANGED <<program, phase, line, made, context, node, waitSet, watched>>

\* MyParameterService has no destructor of its own: its services stay.
DestroyParameterService ==
  /\ Destroys({"parameter_service"})
  /\ Pop
  /\ UNCHANGED <<program, phase, line, made, resources, holders, watched>>

\* Mutant: the node's destructor forgets its clients, as that of old/my_node.cpp does.
ClearedLists_WithoutClients == <<{"subscription"}, {"service", "parameter_service"}>>

\* The lists that the node's destructor clears, in this order.
ClearedLists == <<{"subscription"}, {"service", "parameter_service"}, {"client"}>>

InList(k) == {e \in Entities : "node" \in holders[e] /\ Kind(e) \in ClearedLists[k]}

ClearLists ==
  /\ Destroys({"node"})
  /\ \E k \in DOMAIN ClearedLists : \E e \in InList(k) :
       /\ \A j \in 1 .. k - 1 : InList(j) = {}
       /\ Drop(e, "node")
  /\ UNCHANGED <<program, phase, line, made, scope, context, node, waitSet, watched>>

\* Mutant: the lists are left to the destruction of the members, after the body.
FiniNode_BeforeLists ==
  /\ Destroys({"node"})
  /\ \/ node = "init" /\ node' = "fini" /\ UNCHANGED scope
     \/ node = "fini" /\ (\A k \in DOMAIN ClearedLists : InList(k) = {}) /\ Pop /\ UNCHANGED node
  /\ UNCHANGED <<program, phase, line, made, context, waitSet, entity, holders, watched>>

FiniNode ==
  /\ Destroys({"node"})
  /\ \A k \in DOMAIN ClearedLists : InList(k) = {}
  /\ node' = "fini"
  /\ Pop
  /\ UNCHANGED <<program, phase, line, made, context, waitSet, entity, holders, watched>>

LeaveBlock ==
  /\ phase = "leaving" /\ scope = <<>>
  /\ phase' = "after"
  /\ UNCHANGED <<program, line, made, scope, resources, holders, watched>>

\* RCLUtils::shutdown, which throws outside the block if rcl refuses.
Shutdown ==
  /\ phase = "after"
  /\ \/ context' = "shutdown" /\ phase' = "ended"
     \/ phase' = "terminated" /\ UNCHANGED context
  /\ UNCHANGED <<program, line, made, scope, node, waitSet, entity, holders, watched>>

Next ==
  \/ InitContext \/ ConstructNode \/ CreateEntity \/ ConstructExecutor \/ AddMyNode
  \/ Request \/ LoopThrows
  \/ DestroyExecutor \/ DestroyPointer \/ DestroyParameterService
  \/ ClearLists \/ FiniNode \/ LeaveBlock \/ Shutdown

\* A single thread: as long as a statement or a destructor is left, it goes on.
Fairness ==
  WF_vars(DestroyExecutor \/ DestroyPointer \/ DestroyParameterService
          \/ ClearLists \/ FiniNode \/ LeaveBlock \/ Shutdown)

Spec == Init /\ [][Next]_vars /\ Fairness
-----------------------------------------------------------------------------
(* Properties.                                                               *)

\* Every variable stays in its range; in particular no entity is destroyed
\* without its node, which would leave it "refused".
TypeOK ==
  /\ program \in Programs
  /\ phase \in {"start", "block", "leaving", "after", "ended", "terminated"}
  /\ line \in 1 .. MaxLines + 1
  /\ made \in 0 .. 3
  /\ scope \in Seq(DOMAIN program)
  /\ context \in {"none", "init", "shutdown"}
  /\ node \in {"none", "init", "fini"}
  /\ waitSet \in {"none", "init", "fini"}
  /\ entity \in [Entities -> {"none", "init", "fini"}]
  /\ holders \in [Entities -> SUBSET {"app", "node"}]
  /\ watched \subseteq Entities

\* The raw pointers that the library's objects keep point to something as long
\* as the objects can be used: an entity that the application or the node holds
\* keeps the node's handle (and its own, which nobody may have finalised), the
\* node and the executor keep the context.  It depends on the order in which the
\* variables of the block, the lists of the node and the node itself go.
RawPointersValid ==
  /\ \A e \in Entities : holders[e] # {} => entity[e] = "init" /\ node = "init"
  /\ node = "init" \/ waitSet = "init" => context = "init"

\* Everything the executor could call is there as long as the executor is: the
\* handles in its lists, and the parameter service its handlers refer to.
WatchedOutliveExecutor ==
  \A e \in watched :
    /\ entity[e] = "init"
    /\ Kind(e) = "parameter_service" => \E k \in DOMAIN scope : scope[k] = e[1]

RL == INSTANCE RclLifecycle

\* However the block is left, rcl's objects are initialised and finalised in
\* the order and under the conditions rcl demands, each of them once.
ImplementsRclLifecycle == RL!LifecycleSpec

\* Nothing of rcl's is left: the context is shut down, and nothing is initialised.
AllReleased ==
  /\ context = "shutdown" /\ waitSet # "init" /\ node # "init"
  /\ \A e \in Entities : entity[e] # "init"

\* Nothing but the context is left.
OnlyContextLeft ==
  /\ context = "init" /\ waitSet # "init" /\ node # "init"
  /\ \A e \in Entities : entity[e] # "init"

\* An exception that the application catches ends with everything released.  The
\* process ends before that in two places only: in the destructor of the executor,
\* whose wait set then is still there, or in RCLUtils::shutdown, when everything
\* else is released.
LeavingReleasesAll ==
  (phase = "leaving") ~>
    AllReleased \/ (phase = "terminated" /\ (waitSet = "init" \/ OnlyContextLeft))
=============================================================================
