-------------------------------- MODULE OldNode --------------------------------
(***************************************************************************)
(* The earlier MyNode, old/my_node.cpp, with the constructors and          *)
(* destructors of its entities and the blocks of the earlier programs.     *)
(* The node owns one entity of each kind through a unique_ptr, and a copy  *)
(* of the context.                                                         *)
(***************************************************************************)
EXTENDS Naturals, Sequences

CONSTANTS
  Programs,     (* the bodies of the block, after the node's declaration    *)
  MaxLines,     (* the bound on their length                                *)
  AppCatches    (* TRUE: a handler around the block catches exceptions      *)

Kinds == {"publisher", "subscription", "service", "client"}

ASSUME OldProgramsAssumption ==
  /\ MaxLines \in Nat /\ AppCatches \in BOOLEAN
  /\ \A p \in Programs : p \in Seq(Kinds \cup {"use"}) /\ Len(p) <= MaxLines

(* <<i, k>> is the k-th handle of the entity that the i-th line creates; a   *)
(* subscription has two.                                                     *)
Handles == (1 .. MaxLines) \X {1, 2}

VARIABLES
  program,    (* the body of the block                                      *)
  phase,      (* of the process: start, node, block, leaving (it), after,   *)
              (* ended or terminated                                        *)
  line,       (* the line to execute                                        *)
  made,       (* is its entity constructed, and not yet the member's?       *)
  member,     (* the line whose entity each member of the node owns, or 0   *)
  context, node,   (* states of rcl's objects                               *)
  handle      (* of every handle: none, init, fini, or refused              *)

vars == <<program, phase, line, made, member, context, node, handle>>

Init ==
  /\ program \in Programs
  /\ phase = "start" /\ line = 1 /\ made = FALSE
  /\ member = [k \in Kinds |-> 0]
  /\ context = "none" /\ node = "none"
  /\ handle = [h \in Handles |-> "none"]

(* Nothing catches an exception, or the handler around the block does.       *)
Throw == phase' = IF AppCatches THEN "leaving" ELSE "terminated"

(* main: the options and the context, before the block.                      *)
InitContext ==
  /\ phase = "start"
  /\ \/ phase' = "node" /\ context' = "init"
     \/ phase' = "terminated" /\ UNCHANGED context
  /\ UNCHANGED <<program, line, made, member, node, handle>>

(* The node is initialised with the address of a parameter, which dangles    *)
(* when the constructor has returned: whatever uses the node's context later *)
(* fails, works, or ends the process.                                        *)
ConstructNode ==
  /\ phase = "node"
  /\ \/ phase' = "block" /\ node' = "init"
     \/ Throw /\ UNCHANGED node
  /\ UNCHANGED <<program, line, made, member, context, handle>>

At(statements) == phase = "block" /\ line <= Len(program) /\ program[line] \in statements

(* A member function creates an entity: make_unique runs the constructor,    *)
(* which may fail at any of its handles and leave those before behind ...    *)
Construct(kind, count) ==
  /\ At({kind}) /\ ~made
  /\ \E good \in 0 .. count :
       /\ handle' = [h \in Handles |->
            IF h[1] = line /\ h[2] <= good THEN "init" ELSE handle[h]]
       /\ IF good = count THEN made' = TRUE /\ UNCHANGED phase
          ELSE (Throw \/ phase' = "terminated") /\ UNCHANGED made
  /\ UNCHANGED <<program, line, member, context, node>>

MyPublisher == Construct("publisher", 1)

MySubscription == Construct("subscription", 2)

MyService == Construct("service", 1)

MyClient == Construct("client", 1)

(* The destructor of an entity finalises its first handle, which rcl refuses *)
(* without the node; the second handle of a subscription is forgotten.       *)
Destroy(entity) ==
  handle' = [handle EXCEPT ![<<entity, 1>>] = IF node = "init" THEN "fini" ELSE "refused"]

Assign_Releases ==
  /\ At(Kinds) /\ made
  /\ member' = [member EXCEPT ![program[line]] = line]
  /\ made' = FALSE /\ line' = line + 1
  /\ UNCHANGED <<program, phase, context, node, handle>>

(* ... and the assignment then destroys the entity that was there before.    *)
Assign ==
  /\ At(Kinds) /\ made
  /\ LET old == member[program[line]]
     IN  IF old = 0 THEN UNCHANGED handle ELSE Destroy(old)
  /\ member' = [member EXCEPT ![program[line]] = line]
  /\ made' = FALSE /\ line' = line + 1
  /\ UNCHANGED <<program, phase, context, node>>

(* publish, subscribe, service, sendRequest: all but the first may throw, and *)
(* each of them uses the context.                                            *)
Use ==
  /\ At({"use"})
  /\ \/ line' = line + 1 /\ UNCHANGED phase
     \/ (\E k \in Kinds \ {"publisher"} : member[k] # 0) /\ Throw /\ UNCHANGED line
     \/ (\E k \in Kinds : member[k] # 0) /\ phase' = "terminated" /\ UNCHANGED line
  /\ UNCHANGED <<program, made, member, context, node, handle>>

(* publish, subscribe and sendRequest return, and the block is left.         *)
LeaveBlock ==
  /\ phase = "block" /\ line > Len(program)
  /\ phase' = "leaving"
  /\ UNCHANGED <<program, line, made, member, context, node, handle>>

-----------------------------------------------------------------------------
(* The destructor of the node resets three of its members in this order.     *)
ResetOrder_WithoutService == <<"publisher", "subscription">>

ResetOrder == <<"publisher", "subscription", "service">>

Reset(kind) ==
  /\ Destroy(member[kind])
  /\ member' = [member EXCEPT ![kind] = 0]
  /\ UNCHANGED <<program, phase, line, made, context, node>>

ResetMember ==
  /\ phase = "leaving" /\ node = "init"
  /\ \E i \in DOMAIN ResetOrder :
       /\ member[ResetOrder[i]] # 0
       /\ \A j \in 1 .. i - 1 : member[ResetOrder[j]] = 0
       /\ Reset(ResetOrder[i])

FiniNode ==
  /\ phase = "leaving" /\ node = "init"
  /\ \A i \in DOMAIN ResetOrder : member[ResetOrder[i]] = 0
  /\ node' = "fini"
  /\ UNCHANGED <<program, phase, line, made, member, context, handle>>

(* What is left goes with the members, after the destructor's body.          *)
DestroyMember ==
  /\ phase = "leaving" /\ node = "fini"
  /\ \E kind \in Kinds : member[kind] # 0 /\ Reset(kind)

NodeDestroyed ==
  /\ phase = "leaving" /\ node # "init"
  /\ \A kind \in Kinds : member[kind] = 0
  /\ phase' = "after"
  /\ UNCHANGED <<program, line, made, member, context, node, handle>>

Shutdown ==
  /\ phase = "after"
  /\ \/ phase' = "ended" /\ context' = "shutdown"
     \/ phase' = "terminated" /\ UNCHANGED context
  /\ UNCHANGED <<program, line, made, member, node, handle>>

Leaving == ResetMember \/ FiniNode \/ DestroyMember \/ NodeDestroyed \/ Shutdown

Next ==
  \/ InitContext \/ ConstructNode
  \/ MyPublisher \/ MySubscription \/ MyService \/ MyClient
  \/ Assign \/ Use \/ LeaveBlock \/ Leaving

(* A single thread: it goes on as long as something is to be destroyed.      *)
Spec == Init /\ [][Next]_vars /\ WF_vars(Leaving)

-----------------------------------------------------------------------------
(* Properties.                                                               *)

Kind(h) == program[h[1]]

(* The last client the node has owned.                                       *)
LastClient(i) ==
  /\ i < line /\ program[i] = "client"
  /\ \A j \in i + 1 .. line - 1 : program[j] # "client"

(* The handles that the code fails to finalise: the client's, destroyed      *)
(* after the node; the second one of each subscription; the first one of a   *)
(* subscription whose constructor threw.                                     *)
Forgotten(h) ==
  \/ LastClient(h[1]) /\ h[2] = 1
  \/ h[1] < line /\ Kind(h) = "subscription" /\ h[2] = 2
  \/ h[1] = line /\ ~made /\ handle[h] = "init"

(* At the end the client's finalisation has been refused, those of the other  *)
(* forgotten handles were never tried, and all the rest are finalised.       *)
LeaksAreKnown ==
  \A h \in Handles :
    handle[h] \in (IF ~Forgotten(h) THEN {"none", "fini"}
                   ELSE IF LastClient(h[1]) THEN {"refused"} ELSE {"init"})

(* Whatever is created, replaced, or fails on the way out of the block, the  *)
(* process ends, and then only the handles that the code fails to finalise   *)
(* are left.                                                                 *)
OnlyKnownLeaks ==
  (phase = "leaving") ~> phase = "terminated" \/ (phase = "ended" /\ LeaksAreKnown)

(* The handles as rcl knows them, but for those the code may forget.         *)
Remembered == [h \in Handles |->
  IF h[1] > Len(program) THEN "none"
  ELSE IF Kind(h) = "client" \/ h[2] = 2 \/ (h[1] = line /\ ~made) THEN "none"
  ELSE handle[h]]

RL == INSTANCE RclLifecycle WITH
  Entities <- Handles, waitSet <- "none", entity <- Remembered

(* But for the forgotten handles and the clients, the node initialises and   *)
(* finalises in the order rcl demands: every entity while the node is there, *)
(* also one that is replaced.                                                *)
ImplementsRclLifecycle == RL!LifecycleSpec
================================================================================
