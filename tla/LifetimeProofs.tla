--------------------------- MODULE LifetimeProofs ---------------------------
(* What is proved of Lifetime for every set of programs, of every length.    *)
EXTENDS Lifetime, SequenceTheorems, TLAPS

-----------------------------------------------------------------------------
(* The inductive invariant: the scope is a stack of the local variables whose *)
(* statements have been executed, with the node at its bottom; entities are   *)
(* created in the order of the statements and held by variables of the scope  *)
(* or by a node that is still there; the wait set belongs to the executor.    *)

Declared == {scope[k] : k \in 1 .. Len(scope)}

ScopeInv ==
  /\ \A k \in 1 .. Len(scope) : scope[k] < line /\ program[scope[k]] \in Locals
  /\ \A j, k \in 1 .. Len(scope) : j < k => scope[j] < scope[k]
  /\ scope # <<>> => scope[1] = 1
  /\ phase = "start" => line = 1 /\ made = 0
  /\ phase \in {"start", "after", "ended"} => scope = <<>>
  /\ phase = "block" => \A i \in 1 .. line - 1 : program[i] \in Locals => i \in Declared
  /\ line <= Len(program) + 1

NodeInv ==
  /\ node = "init" <=> scope # <<>>
  /\ phase \in {"start", "block"} /\ line = 1 => node = "none"
  /\ phase = "start" => context = "none"
  /\ phase \in {"block", "leaving", "after"} => context = "init"
  /\ node = "init" => context = "init"

\* An entity's handle is initialised exactly as long as somebody holds the entity.
LiveIffHeld == \A e \in Entities : entity[e] = "init" <=> holders[e] # {}

HeldInv ==
  \A e \in Entities :
    /\ holders[e] # {} => /\ node = "init"
                          /\ e[1] \in 1 .. Len(program) /\ e[1] <= line
                          /\ Kind(e) \in Creations
    /\ "app" \in holders[e] => /\ e[2] = 1 /\ e[1] \in Declared
                               /\ Kind(e) \in {"publisher", "client"}
    /\ "node" \in holders[e] => Kind(e) # "publisher"

FreshInv ==
  phase \in {"start", "block"} =>
    \A e \in Entities : (e[1] > line \/ (e[1] = line /\ e[2] > made)) => entity[e] = "none"

ExecutorInScope == \E i \in Declared : program[i] = "executor"

WaitSetInv ==
  /\ waitSet = "init" => ExecutorInScope
  /\ phase \in {"start", "block"} /\ waitSet # "none" =>
       \E i \in 1 .. line - 1 : program[i] = "addMyNode"

IInv ==
  /\ TypeOK /\ ScopeInv /\ NodeInv /\ LiveIffHeld /\ HeldInv /\ FreshInv /\ WaitSetInv

\* What is watched, as long as the executor is there.
WatchedInv ==
  \A e \in watched :
    /\ ExecutorInScope
    /\ "node" \in holders[e]
    /\ Kind(e) = "parameter_service" => e[1] \in Declared

-----------------------------------------------------------------------------
(* Lemmas about programs and the scope.                                      *)

(* A program is a bounded sequence of statements and declares its node       *)
(* first, and once.                                                          *)
LEMMA ProgramFacts ==
  ASSUME NEW p \in Programs
  PROVE  /\ Len(p) \in Nat /\ Len(p) <= MaxLines /\ MaxLines \in Nat
         /\ DOMAIN p = 1 .. Len(p)
         /\ \A i \in 1 .. Len(p) : p[i] \in Statements /\ (p[i] = "node" <=> i = 1)
  BY ProgramsAssumption

(* An entity is a pair of a line and a number. *)
LEMMA EntityFacts ==
  ASSUME NEW e \in Entities
  PROVE  /\ e[1] \in 1 .. MaxLines /\ e[2] \in 1 .. 4
         /\ e = <<e[1], e[2]>>
  BY DEF Entities

(* The scope is a sequence of lines of the program. *)
LEMMA ScopeFacts ==
  ASSUME TypeOK
  PROVE  /\ Len(scope) \in Nat /\ DOMAIN scope = 1 .. Len(scope)
         /\ scope # <<>> <=> Len(scope) > 0
         /\ \A k \in 1 .. Len(scope) : scope[k] \in 1 .. Len(program)
<1>1. program \in Programs /\ scope \in Seq(DOMAIN program)
  BY DEF TypeOK
<1>2. DOMAIN program = 1 .. Len(program)
  BY <1>1, ProgramFacts
<1> QED  BY <1>1, <1>2, EmptySeq, LenProperties, ElementOfSeq

(* Destroying the innermost variable leaves the others where they are. *)
LEMMA PopFacts ==
  ASSUME TypeOK, scope # <<>>, Pop
  PROVE  /\ scope' \in Seq(DOMAIN program)
         /\ Len(scope') = Len(scope) - 1
         /\ DOMAIN scope' = 1 .. Len(scope')
         /\ \A k \in 1 .. Len(scope') : scope'[k] = scope[k]
<1> DEFINE n == Len(scope) - 1
<1>1. scope \in Seq(DOMAIN program) /\ n \in Nat
  BY ScopeFacts DEF TypeOK
<1>2. scope' = [k \in 1 .. n |-> scope[k]]
  BY <1>1 DEF Pop, InnermostIndex
<1>3. \A k \in 1 .. n : scope[k] \in DOMAIN program
  BY <1>1
<1> HIDE DEF n
<1>4. scope' \in [1 .. n -> DOMAIN program]
  BY <1>2, <1>3
<1>5. scope' \in Seq(DOMAIN program)
  BY <1>1, <1>4, SeqDef
<1>6. Len(scope') = n
  BY <1>1, <1>2
<1> QED  BY <1>2, <1>5, <1>6 DEF n

(* Declaring a variable puts it on top of the others. *)
LEMMA PushFacts ==
  ASSUME TypeOK, line \in DOMAIN program, scope' = Append(scope, line)
  PROVE  /\ scope' \in Seq(DOMAIN program)
         /\ Len(scope') = Len(scope) + 1
         /\ DOMAIN scope' = 1 .. Len(scope')
         /\ scope' # <<>>
         /\ \A k \in 1 .. Len(scope) : scope'[k] = scope[k]
         /\ scope'[Len(scope')] = line
  BY ScopeFacts DEF TypeOK

-----------------------------------------------------------------------------
(* The invariant holds at the start and is kept by every step.               *)

(* At the start nothing is declared, created, or held. *)
LEMMA InitIInv == Init => IInv
<1> SUFFICES ASSUME Init PROVE IInv
  OBVIOUS
<1>1. program \in Programs /\ scope = <<>> /\ Len(scope) = 0 /\ 1 <= MaxLines + 1
  BY ProgramFacts DEF Init
<1>2. \A S : <<>> \in Seq(S)
  BY EmptySeq
<1>3. TypeOK
  BY <1>1, <1>2, ProgramFacts DEF Init, TypeOK
<1>4. ScopeInv /\ NodeInv
  BY <1>1, ProgramFacts DEF Init, ScopeInv, NodeInv, Declared
<1>5. LiveIffHeld /\ HeldInv /\ FreshInv /\ WaitSetInv
  BY DEF Init, LiveIffHeld, HeldInv, FreshInv, WaitSetInv
<1> QED  BY <1>3, <1>4, <1>5 DEF IInv

(* The exception of a statement changes nothing but where the thread goes. *)
LEMMA ThrowKeepsIInv ==
  ASSUME IInv, phase = "block", line <= Len(program), Throw,
         watched' \subseteq Entities,
         UNCHANGED <<program, context, node, entity, holders, waitSet>>
  PROVE  IInv'
<1>1. program' \in Programs /\ phase' \in {"leaving", "terminated"}
  BY DEF IInv, TypeOK, Throw
<1>2. TypeOK' /\ ScopeInv' /\ NodeInv'
  BY <1>1 DEF IInv, TypeOK, ScopeInv, NodeInv, Throw, Declared
<1>3. LiveIffHeld' /\ HeldInv' /\ FreshInv' /\ WaitSetInv'
  BY <1>1 DEF IInv, LiveIffHeld, HeldInv, FreshInv, WaitSetInv, Throw, Declared, Kind, ExecutorInScope
<1> QED  BY <1>2, <1>3 DEF IInv

(* The next statement: the variable it declares, if any, goes onto the scope. *)
LEMMA NextLineKeepsScope ==
  ASSUME IInv, phase = "block", line <= Len(program), NextLine, program' = program
  PROVE  /\ scope' \in Seq(DOMAIN program')
         /\ ScopeInv'
         /\ scope' # <<>> <=> (scope # <<>> \/ line = 1)
         /\ Declared \subseteq Declared'
         /\ ExecutorInScope => ExecutorInScope'
         /\ program[line] \in Locals => line \in Declared'
<1>1. TypeOK /\ program \in Programs /\ line \in 1 .. Len(program)
  BY DEF IInv, TypeOK
<1>2. DOMAIN program = 1 .. Len(program) /\ Len(program) \in Nat
  BY <1>1, ProgramFacts
<1>3. program[1] = "node"
  BY <1>1, <1>2, ProgramFacts
<1>4. phase' = "block" /\ line' = line + 1
  BY DEF NextLine
<1>5. CASE program[line] \in Locals
  <2>1. scope' = Append(scope, line)
    BY <1>5 DEF NextLine
  <2>2. /\ scope' \in Seq(DOMAIN program) /\ scope' # <<>>
        /\ Len(scope') = Len(scope) + 1 /\ DOMAIN scope' = 1 .. Len(scope')
        /\ \A k \in 1 .. Len(scope) : scope'[k] = scope[k]
        /\ scope'[Len(scope')] = line
    BY <1>1, <1>2, <2>1, PushFacts
  <2>3. /\ Len(scope) \in Nat /\ DOMAIN scope = 1 .. Len(scope)
        /\ scope # <<>> <=> Len(scope) > 0
        /\ \A k \in 1 .. Len(scope) : scope[k] \in 1 .. Len(program)
    BY <1>1, ScopeFacts
  <2>4. Declared \subseteq Declared' /\ line \in Declared'
    <3>1. Len(scope') \in 1 .. Len(scope')
      BY <2>2, <2>3
    <3>2. \A k \in 1 .. Len(scope) : k \in 1 .. Len(scope') /\ scope'[k] = scope[k]
      BY <2>2, <2>3
    <3> QED  BY <2>2, <3>1, <3>2 DEF Declared
  <2>5. scope # <<>> \/ line = 1
    <3> SUFFICES ASSUME line # 1 PROVE 1 \in Declared
      BY <2>3 DEF Declared
    <3> QED  BY <1>1, <1>3 DEF IInv, ScopeInv, Locals
  <2>6. scope'[1] = 1
    BY <2>2, <2>3, <2>5 DEF IInv, ScopeInv
  <2>7. \A k \in 1 .. Len(scope') : scope'[k] < line' /\ program[scope'[k]] \in Locals
    BY <1>1, <1>4, <1>5, <2>2, <2>3 DEF IInv, ScopeInv
  <2>8. \A j, k \in 1 .. Len(scope') : j < k => scope'[j] < scope'[k]
    <3> SUFFICES ASSUME NEW j \in 1 .. Len(scope'), NEW k \in 1 .. Len(scope'), j < k
                 PROVE  scope'[j] < scope'[k]
      OBVIOUS
    <3>1. j \in 1 .. Len(scope) /\ scope'[j] = scope[j] /\ scope[j] < line
      BY <2>2, <2>3 DEF IInv, ScopeInv
    <3>2. CASE k = Len(scope')
      BY <2>2, <3>1, <3>2
    <3>3. CASE k # Len(scope')
      <4>1. Len(scope') = Len(scope) + 1 /\ Len(scope) \in Nat
        BY <2>2, <2>3
      <4>2. k \in 1 .. Len(scope)
        BY <3>3, <4>1
      <4> QED  BY <2>2, <3>1, <4>2 DEF IInv, ScopeInv
    <3> QED  BY <3>2, <3>3
  <2>9. \A i \in 1 .. line' - 1 : program[i] \in Locals => i \in Declared'
    BY <1>1, <1>4, <2>4 DEF IInv, ScopeInv
  <2>10. ScopeInv'
    BY <1>1, <1>2, <1>4, <2>2, <2>6, <2>7, <2>8, <2>9 DEF ScopeInv
  <2> QED  BY <2>2, <2>4, <2>5, <2>10 DEF ExecutorInScope
<1>6. CASE program[line] \notin Locals
  <2>1. scope' = scope /\ line # 1
    BY <1>3, <1>6 DEF NextLine, Locals
  <2>2. ScopeInv'
    <3>1. /\ Len(scope) \in Nat
          /\ \A k \in 1 .. Len(scope) : scope[k] \in 1 .. Len(program)
      BY <1>1, ScopeFacts
    <3>2. \A k \in 1 .. Len(scope') : scope'[k] < line' /\ program[scope'[k]] \in Locals
      BY <1>1, <1>4, <2>1, <3>1 DEF IInv, ScopeInv
    <3>3. \A i \in 1 .. line' - 1 : program[i] \in Locals => i \in Declared'
      BY <1>1, <1>4, <1>6, <2>1 DEF IInv, ScopeInv, Declared
    <3> QED  BY <1>1, <1>2, <1>4, <2>1, <3>2, <3>3 DEF IInv, ScopeInv
  <2> QED  BY <1>1, <1>6, <2>1, <2>2 DEF TypeOK, Declared, ExecutorInScope
<1> QED  BY <1>5, <1>6

(* The innermost variable is destroyed: what is declared below it stays. *)
LEMMA PopKeepsScope ==
  ASSUME IInv, phase = "leaving", scope # <<>>, Pop,
         UNCHANGED <<program, line, phase>>
  PROVE  /\ scope' \in Seq(DOMAIN program')
         /\ ScopeInv'
         /\ scope' # <<>> <=> scope[Len(scope)] # 1
         /\ Declared' = Declared \ {scope[Len(scope)]}
         /\ scope[Len(scope)] \in Declared
<1>1. TypeOK
  BY DEF IInv
<1>2. /\ Len(scope) \in Nat \ {0}
      /\ \A k \in 1 .. Len(scope) : scope[k] \in 1 .. Len(program)
  BY <1>1, ScopeFacts
<1>3. /\ scope' \in Seq(DOMAIN program)
      /\ Len(scope') = Len(scope) - 1
      /\ \A k \in 1 .. Len(scope') : scope'[k] = scope[k]
  BY <1>1, PopFacts
<1>4. \A k \in 1 .. Len(scope') : k \in 1 .. Len(scope) /\ k # Len(scope)
  BY <1>2, <1>3
<1>5. scope' # <<>> <=> Len(scope) # 1
  <2>1. scope' = <<>> <=> Len(scope') = 0
    BY <1>3, EmptySeq
  <2>2. Len(scope') = 0 <=> Len(scope) = 1
    BY <1>2, <1>3
  <2> QED  BY <2>1, <2>2
<1>6. scope[Len(scope)] = 1 <=> Len(scope) = 1
  <2>1. 1 \in 1 .. Len(scope) /\ Len(scope) \in 1 .. Len(scope) /\ scope[1] = 1
    BY <1>2 DEF IInv, ScopeInv
  <2>2. Len(scope) # 1 => 1 < Len(scope)
    BY <1>2
  <2>3. Len(scope) # 1 => scope[1] < scope[Len(scope)]
    BY <2>1, <2>2 DEF IInv, ScopeInv
  <2> QED  BY <2>1, <2>3
<1>7. Declared' = Declared \ {scope[Len(scope)]}
  <2>1. \A k \in 1 .. Len(scope) : scope[k] = scope[Len(scope)] => k = Len(scope)
    <3> SUFFICES ASSUME NEW k \in 1 .. Len(scope), k # Len(scope)
                 PROVE  scope[k] # scope[Len(scope)]
      OBVIOUS
    <3>1. k < Len(scope) /\ Len(scope) \in 1 .. Len(scope)
      BY <1>2
    <3>2. scope[k] < scope[Len(scope)]
      BY <3>1 DEF IInv, ScopeInv
    <3> QED  BY <1>2, <3>2
  <2>2. \A k \in 1 .. Len(scope) : k # Len(scope) => k \in 1 .. Len(scope')
    BY <1>2, <1>3
  <2> QED  BY <1>3, <1>4, <2>1, <2>2 DEF Declared
<1>8. scope[Len(scope)] \in Declared
  BY <1>2 DEF Declared
<1>9. ScopeInv'
  <2>1. scope' # <<>> => scope'[1] = 1
    <3> SUFFICES ASSUME scope' # <<>> PROVE scope'[1] = 1
      OBVIOUS
    <3>1. 1 \in 1 .. Len(scope')
      BY <1>2, <1>3, <1>5
    <3> QED  BY <1>3, <3>1 DEF IInv, ScopeInv
  <2>2. \A j, k \in 1 .. Len(scope') : j < k => scope'[j] < scope'[k]
    BY <1>3, <1>4 DEF IInv, ScopeInv
  <2>3. \A k \in 1 .. Len(scope') : scope'[k] < line' /\ program'[scope'[k]] \in Locals
    BY <1>3, <1>4 DEF IInv, ScopeInv
  <2> QED  BY <2>1, <2>2, <2>3 DEF IInv, ScopeInv
<1> QED  BY <1>3, <1>5, <1>6, <1>7, <1>8, <1>9

(* Statements that create no entity keep the invariant. *)
LEMMA ConstructionKeepsIInv ==
  ASSUME IInv, InitContext \/ ConstructNode \/ ConstructExecutor \/ AddMyNode
               \/ Request \/ LoopThrows
  PROVE  IInv'
<1>1. /\ TypeOK /\ program \in Programs /\ line \in 1 .. MaxLines + 1
      /\ Len(program) \in Nat /\ Len(program) <= MaxLines /\ MaxLines \in Nat
      /\ DOMAIN program = 1 .. Len(program)
      /\ \A i \in 1 .. Len(program) : program[i] = "node" <=> i = 1
  BY ProgramFacts DEF IInv, TypeOK
<1>2. CASE InitContext
  <2>1. program' \in Programs /\ Declared' = Declared /\ line = 1 /\ scope = <<>>
    BY <1>1, <1>2 DEF InitContext, IInv, ScopeInv, Declared
  <2>2. TypeOK' /\ NodeInv'
    BY <1>2, <2>1 DEF InitContext, IInv, TypeOK, NodeInv
  <2>3. ScopeInv'
    BY <1>1, <1>2, <2>1 DEF InitContext, IInv, ScopeInv
  <2>4. LiveIffHeld' /\ HeldInv' /\ FreshInv' /\ WaitSetInv'
    BY <1>2, <2>1 DEF InitContext, IInv, LiveIffHeld, HeldInv, FreshInv, WaitSetInv, Kind,
                      ExecutorInScope
  <2> QED  BY <2>2, <2>3, <2>4 DEF IInv
<1>3. ASSUME phase = "block", line <= Len(program), NextLine,
             UNCHANGED <<program, context, entity, holders>>,
             program[line] \notin Creations, watched' \subseteq Entities,
             waitSet' = waitSet \/ (program[line] = "addMyNode" /\ waitSet' = "init" /\ ExecutorInScope),
             node' = node \/ (line = 1 /\ node' = "init"),
             line = 1 => node' = "init"
      PROVE  IInv'
  <2>1. /\ scope' \in Seq(DOMAIN program') /\ ScopeInv' /\ Declared \subseteq Declared'
        /\ ExecutorInScope => ExecutorInScope'
        /\ scope' # <<>> <=> (scope # <<>> \/ line = 1)
    BY <1>3, NextLineKeepsScope
  <2>2. line' = line + 1 /\ made' = 0 /\ phase' = "block"
    BY <1>3 DEF NextLine
  <2>3. TypeOK'
    BY <1>1, <1>3, <2>1, <2>2 DEF IInv, TypeOK
  <2>4. NodeInv'
    BY <1>1, <1>3, <2>1, <2>2 DEF IInv, NodeInv, TypeOK
  <2>5. LiveIffHeld'
    BY <1>3 DEF IInv, LiveIffHeld
  <2>6. HeldInv'
    BY <1>1, <1>3, <2>1, <2>2, EntityFacts DEF IInv, HeldInv, Kind
  <2>7. FreshInv'
    <3> SUFFICES ASSUME NEW e \in Entities,
                        e[1] > line' \/ (e[1] = line' /\ e[2] > made')
                 PROVE  entity'[e] = "none"
      BY DEF FreshInv
    <3>1. e[1] > line
      BY <1>1, <2>2, EntityFacts
    <3> QED  BY <1>3, <3>1 DEF IInv, FreshInv
  <2>8. WaitSetInv'
    BY <1>1, <1>3, <2>1, <2>2 DEF IInv, WaitSetInv
  <2> QED  BY <2>1, <2>3, <2>4, <2>5, <2>6, <2>7, <2>8 DEF IInv
<1>4. CASE ConstructNode
  <2>1. /\ phase = "block" /\ line <= Len(program) /\ line = 1 /\ program[line] \notin Creations
        /\ UNCHANGED <<program, context, waitSet, entity, holders, watched>>
    BY <1>1, <1>4 DEF ConstructNode, At, Creations
  <2>2. CASE node' = "init" /\ NextLine
    BY <1>1, <1>3, <2>1, <2>2 DEF TypeOK
  <2>3. CASE Throw /\ UNCHANGED node
    BY <1>1, <2>1, <2>3, ThrowKeepsIInv DEF TypeOK
  <2> QED  BY <1>4, <2>2, <2>3 DEF ConstructNode
<1>5. CASE ConstructExecutor
  <2>1. /\ phase = "block" /\ line <= Len(program) /\ line # 1 /\ program[line] \notin Creations
        /\ UNCHANGED <<program, context, node, waitSet, entity, holders, watched>>
    BY <1>1, <1>5 DEF ConstructExecutor, At, Creations, resources
  <2> QED  BY <1>1, <1>3, <1>5, <2>1 DEF ConstructExecutor, TypeOK
<1>6. CASE AddMyNode
  <2>1. /\ phase = "block" /\ line \in 1 .. Len(program) /\ program[line] = "addMyNode"
        /\ watched' \subseteq Entities /\ program[line] \notin Creations /\ line # 1
        /\ UNCHANGED <<program, context, node, entity, holders>>
    BY <1>1, <1>6 DEF AddMyNode, At, Creations
  <2>2. ExecutorInScope
    <3>1. PICK j \in 1 .. line : program[j] = "executor"
      BY <1>1, <2>1, ProgramsAssumption
    <3>2. j \in 1 .. line - 1
      BY <1>1, <2>1, <3>1
    <3> QED  BY <2>1, <3>1, <3>2 DEF IInv, ScopeInv, ExecutorInScope, Locals
  <2>3. CASE waitSet' = "init" /\ NextLine
    BY <1>3, <2>1, <2>2, <2>3
  <2>4. CASE Throw /\ UNCHANGED waitSet
    BY <2>1, <2>4, ThrowKeepsIInv
  <2> QED  BY <1>6, <2>3, <2>4 DEF AddMyNode
<1>7. CASE Request \/ LoopThrows
  <2>1. /\ phase = "block" /\ line <= Len(program) /\ line # 1 /\ program[line] \notin Creations
        /\ UNCHANGED <<program, context, node, waitSet, entity, holders, watched>>
        /\ NextLine \/ Throw
    BY <1>1, <1>7 DEF Request, LoopThrows, At, Creations, resources
  <2>2. CASE NextLine
    BY <1>1, <1>3, <2>1, <2>2 DEF TypeOK
  <2>3. CASE Throw
    BY <1>1, <2>1, <2>3, ThrowKeepsIInv DEF TypeOK
  <2> QED  BY <2>1, <2>2, <2>3
<1> QED  BY <1>2, <1>4, <1>5, <1>6, <1>7

(* Whatever kind of entity a statement creates, its constructor runs. *)
LEMMA EntityCreation == CreateEntity => At(Creations) /\ Construction
BY DEF CreateEntity, CreatePublisher, CreateSubscription, CreateService, CreateClient,
       CreateParameterService, At, Creations

(* A new entity: it was not initialised before, and its node is there. *)
LEMMA CreationFacts ==
  ASSUME IInv, CreateEntity
  PROVE  LET e == <<line, made + 1>> IN
           /\ phase = "block" /\ line \in 2 .. Len(program) /\ program[line] \in Creations
           /\ e \in Entities /\ entity[e] = "none" /\ node = "init"
<1>1. /\ TypeOK /\ program \in Programs /\ line \in 1 .. MaxLines + 1 /\ made \in 0 .. 3
      /\ Len(program) \in Nat /\ Len(program) <= MaxLines /\ MaxLines \in Nat
      /\ program[1] = "node" \/ Len(program) = 0
  BY ProgramFacts DEF IInv, TypeOK
<1>2. phase = "block" /\ line <= Len(program) /\ program[line] \in Creations
  BY EntityCreation DEF Construction, At
<1>3. line \in 2 .. Len(program)
  BY <1>1, <1>2 DEF Creations
<1>4. <<line, made + 1>> \in Entities
  BY <1>1, <1>3 DEF Entities
<1>5. entity[<<line, made + 1>>] = "none"
  BY <1>1, <1>2, <1>4 DEF IInv, FreshInv
<1>6. 1 \in Declared
  BY <1>1, <1>2, <1>3 DEF IInv, ScopeInv, Locals
<1>7. node = "init"
  BY <1>1, <1>6, ScopeFacts DEF IInv, NodeInv, Declared
<1> QED  BY <1>2, <1>3, <1>4, <1>5, <1>7

(* So does the creation of an entity, failed or not. *)
LEMMA CreateEntityKeepsIInv == IInv /\ CreateEntity => IInv'
<1> SUFFICES ASSUME IInv, CreateEntity PROVE IInv'
  OBVIOUS
<1> DEFINE new == <<line, made + 1>>
<1>1. /\ TypeOK /\ program \in Programs /\ made \in 0 .. 3 /\ watched \subseteq Entities
      /\ Len(program) \in Nat /\ Len(program) <= MaxLines /\ MaxLines \in Nat
      /\ DOMAIN program = 1 .. Len(program)
  BY ProgramFacts DEF IInv, TypeOK
<1>2. /\ phase = "block" /\ line \in 2 .. Len(program) /\ program[line] \in Creations
      /\ new \in Entities /\ entity[new] = "none" /\ node = "init"
      /\ UNCHANGED <<program, context, node, waitSet, watched>>
  BY CreationFacts, EntityCreation DEF Construction
<1>3. CASE Throw /\ UNCHANGED <<entity, holders>>
  BY <1>1, <1>2, <1>3, ThrowKeepsIInv
<1>4. ASSUME entity' = [entity EXCEPT ![new] = "init"],
             holders' = [holders EXCEPT ![new] = Owners(Kind(new))],
             \/ made + 1 = EntityCount(program[line]) /\ NextLine
             \/ /\ made + 1 < EntityCount(program[line])
                /\ made' = made + 1
                /\ UNCHANGED <<phase, line, scope>>
      PROVE  IInv'
  <2>1. Kind(new) = program[line] /\ new[1] = line /\ new[2] = made + 1
    BY DEF Kind
  <2>2. /\ Owners(Kind(new)) \subseteq {"app", "node"} /\ Owners(Kind(new)) # {}
        /\ "node" \in Owners(Kind(new)) => Kind(new) # "publisher"
        /\ "app" \in Owners(Kind(new)) => Kind(new) \in {"publisher", "client"}
    BY <1>2, <2>1 DEF Owners, Creations
  <2>3. /\ scope' \in Seq(DOMAIN program') /\ ScopeInv' /\ Declared \subseteq Declared'
        /\ ExecutorInScope => ExecutorInScope'
        /\ scope' # <<>> <=> scope # <<>>
        /\ phase' = "block" /\ line' \in {line, line + 1} /\ made' \in 0 .. 3
        /\ line' = line => made' = made + 1
        /\ Kind(new) \in {"publisher", "client"} => made = 0 /\ line \in Declared'
    <3>1. CASE made + 1 = EntityCount(program[line]) /\ NextLine
      BY <1>1, <1>2, <2>1, <3>1, NextLineKeepsScope DEF NextLine, EntityCount, Locals
    <3>2. CASE /\ made + 1 < EntityCount(program[line])
               /\ made' = made + 1
               /\ UNCHANGED <<phase, line, scope>>
      <4>1. ScopeInv' /\ Declared' = Declared /\ ExecutorInScope' = ExecutorInScope
        BY <1>2, <3>2 DEF IInv, ScopeInv, Declared, ExecutorInScope
      <4> QED  BY <1>1, <1>2, <2>1, <3>2, <4>1 DEF TypeOK, EntityCount
    <3> QED  BY <1>4, <3>1, <3>2
  <2>4. TypeOK'
    <3>1. /\ entity' \in [Entities -> {"none", "init", "fini"}]
          /\ holders' \in [Entities -> SUBSET {"app", "node"}]
      BY <1>1, <1>2, <1>4, <2>2 DEF TypeOK
    <3>2. line' \in 1 .. MaxLines + 1
      BY <1>1, <1>2, <2>3
    <3> QED  BY <1>1, <1>2, <2>3, <3>1, <3>2 DEF TypeOK
  <2>5. NodeInv'
    BY <1>1, <1>2, <2>3 DEF IInv, NodeInv
  <2>6. LiveIffHeld'
    BY <1>1, <1>2, <1>4, <2>2 DEF IInv, LiveIffHeld, TypeOK
  <2>7. HeldInv'
    <3> SUFFICES ASSUME NEW e \in Entities
                 PROVE  /\ holders'[e] # {} => /\ node' = "init"
                                                /\ e[1] \in 1 .. Len(program') /\ e[1] <= line'
                                                /\ Kind(e)' \in Creations
                        /\ "app" \in holders'[e] => /\ e[2] = 1 /\ e[1] \in Declared'
                                                     /\ Kind(e)' \in {"publisher", "client"}
                        /\ "node" \in holders'[e] => Kind(e)' # "publisher"
      BY DEF HeldInv
    <3>1. CASE e = new
      BY <1>1, <1>2, <1>4, <2>1, <2>2, <2>3, <3>1 DEF TypeOK, Kind
    <3>2. CASE e # new
      <4>1. holders'[e] = holders[e]
        BY <1>1, <1>4, <3>2 DEF TypeOK
      <4> QED  BY <1>1, <1>2, <2>3, <4>1, EntityFacts DEF IInv, HeldInv, Kind
    <3> QED  BY <3>1, <3>2
  <2>8. FreshInv'
    <3> SUFFICES ASSUME NEW e \in Entities,
                        e[1] > line' \/ (e[1] = line' /\ e[2] > made')
                 PROVE  entity'[e] = "none"
      BY DEF FreshInv
    <3>1. e[1] \in Nat /\ e[2] \in Nat
      BY EntityFacts
    <3>2. e # new /\ (e[1] > line \/ (e[1] = line /\ e[2] > made))
      BY <1>1, <1>2, <2>1, <2>3, <3>1
    <3> QED  BY <1>1, <1>2, <1>4, <3>2 DEF IInv, FreshInv, TypeOK
  <2>9. WaitSetInv'
    <3>1. waitSet' = "init" => ExecutorInScope'
      BY <1>2, <2>3 DEF IInv, WaitSetInv
    <3>2. 1 .. line - 1 \subseteq 1 .. line' - 1
      <4>1. CASE line' = line
        BY <4>1
      <4>2. CASE line' = line + 1
        BY <1>2, <4>2
      <4> QED  BY <2>3, <4>1, <4>2
    <3>3. waitSet' # "none" => \E i \in 1 .. line' - 1 : program[i] = "addMyNode"
      BY <1>2, <3>2 DEF IInv, WaitSetInv
    <3> QED  BY <1>2, <3>1, <3>3 DEF WaitSetInv
  <2> QED  BY <2>3, <2>4, <2>5, <2>6, <2>7, <2>8, <2>9 DEF IInv
<1> QED  BY <1>3, <1>4, EntityCreation DEF Construction

(* So does every destructor, in the order of the scope, and what follows the *)
(* block.                                                                    *)
LEMMA DestructionKeepsIInv ==
  ASSUME IInv, DestroyExecutor \/ DestroyPointer \/ DestroyParameterService
               \/ ClearLists \/ FiniNode \/ LeaveBlock \/ Shutdown
  PROVE  IInv'
<1> DEFINE top == scope[Len(scope)]
<1>1. /\ TypeOK /\ program \in Programs
      /\ DOMAIN program = 1 .. Len(program) /\ Len(program) \in Nat
      /\ Len(program) <= MaxLines /\ MaxLines \in Nat
      /\ \A i \in 1 .. Len(program) : program[i] = "node" <=> i = 1
  BY ProgramFacts DEF IInv, TypeOK
<1>2. ASSUME NEW kinds, Destroys(kinds)
      PROVE  /\ phase = "leaving" /\ scope # <<>> /\ node = "init"
             /\ top \in 1 .. Len(program) /\ program[top] \in kinds /\ top \in Declared
  <2>1. phase = "leaving" /\ scope # <<>> /\ program[top] \in kinds
    BY <1>2 DEF Destroys, InnermostIndex
  <2>2. Len(scope) \in 1 .. Len(scope) /\ top \in 1 .. Len(program)
    BY <1>1, <2>1, ScopeFacts
  <2> QED  BY <2>1, <2>2 DEF IInv, NodeInv, Declared
<1>3. ASSUME phase = "leaving", scope # <<>>, Pop, UNCHANGED <<program, line, phase>>
      PROVE  /\ scope' \in Seq(DOMAIN program') /\ ScopeInv'
             /\ scope' # <<>> <=> top # 1
             /\ Declared' = Declared \ {top}
  BY <1>3, PopKeepsScope
(* What every destruction leaves alone. *)
<1>4. ASSUME phase = "leaving", UNCHANGED <<program, line, made, context>>,
             phase' \in {"leaving", "after", "terminated"},
             scope' \in Seq(DOMAIN program'), waitSet' \in {"none", "init", "fini"},
             node' \in {"init", "fini"} \/ node' = node,
             entity' \in [Entities -> {"none", "init", "fini"}],
             holders' \in [Entities -> SUBSET {"app", "node"}],
             watched' \subseteq Entities,
             ScopeInv', node' = "init" <=> scope' # <<>>,
             LiveIffHeld', HeldInv', waitSet' = "init" => ExecutorInScope'
      PROVE  IInv'
  <2>1. TypeOK'
    BY <1>1, <1>4 DEF TypeOK
  <2>2. NodeInv' /\ FreshInv' /\ WaitSetInv'
    BY <1>4 DEF IInv, NodeInv, FreshInv, WaitSetInv
  <2> QED  BY <1>4, <2>1, <2>2 DEF IInv
<1>5. CASE DestroyExecutor
  <2>1. /\ phase = "leaving" /\ scope # <<>> /\ node = "init" /\ top # 1
        /\ program[top] = "executor" /\ top \in Declared /\ top \in 1 .. Len(program)
        /\ UNCHANGED <<program, line, made, context, node, entity, holders>>
    BY <1>1, <1>2, <1>5 DEF DestroyExecutor
  <2>2. CASE /\ waitSet' = IF waitSet = "init" THEN "fini" ELSE waitSet
             /\ watched' = {} /\ Pop /\ UNCHANGED phase
    <3>1. /\ scope' \in Seq(DOMAIN program') /\ ScopeInv' /\ scope' # <<>>
          /\ Declared' = Declared \ {top}
      BY <1>3, <2>1, <2>2
    <3>2. HeldInv' /\ LiveIffHeld'
      <4>1. \A e \in Entities : "app" \in holders[e] => e[1] # top
        BY <2>1 DEF IInv, HeldInv, Kind, Creations
      <4> QED  BY <1>1, <2>1, <2>2, <3>1, <4>1 DEF IInv, HeldInv, LiveIffHeld, Kind
    <3> QED  BY <1>1, <1>4, <2>1, <2>2, <3>1, <3>2 DEF TypeOK
  <2>3. CASE waitSet = "init" /\ phase' = "terminated" /\ UNCHANGED <<waitSet, watched, scope>>
    <3>1. ScopeInv' /\ HeldInv' /\ LiveIffHeld' /\ ExecutorInScope' = ExecutorInScope
      BY <2>1, <2>3 DEF IInv, ScopeInv, HeldInv, LiveIffHeld, Kind, Declared, ExecutorInScope
    <3> QED  BY <1>1, <1>4, <2>1, <2>3, <3>1 DEF IInv, NodeInv, WaitSetInv, TypeOK
  <2> QED  BY <1>5, <2>2, <2>3 DEF DestroyExecutor
<1>6. ASSUME Destroys({"publisher", "client", "parameter_service"}), Pop,
             UNCHANGED <<program, phase, line, made, context, node, waitSet, watched>>,
             entity' \in [Entities -> {"none", "init", "fini"}],
             holders' \in [Entities -> SUBSET {"app", "node"}],
             \A e \in Entities : /\ holders'[e] \subseteq holders[e]
                                 /\ e = <<top, 1>> => "app" \notin holders'[e]
                                 /\ entity'[e] = "init" <=> holders'[e] # {}
      PROVE  IInv'
  <2>1. /\ phase = "leaving" /\ scope # <<>> /\ node = "init"
        /\ top \in 1 .. Len(program) /\ top # 1 /\ program[top] # "executor"
    BY <1>1, <1>2, <1>6
  <2>2. /\ scope' \in Seq(DOMAIN program') /\ ScopeInv' /\ scope' # <<>>
        /\ Declared' = Declared \ {top}
    BY <1>3, <1>6, <2>1
  <2>3. LiveIffHeld'
    BY <1>6 DEF LiveIffHeld
  <2>4. HeldInv'
    <3> SUFFICES ASSUME NEW e \in Entities
                 PROVE  /\ holders'[e] # {} => /\ node' = "init"
                                                /\ e[1] \in 1 .. Len(program') /\ e[1] <= line'
                                                /\ Kind(e)' \in Creations
                        /\ "app" \in holders'[e] => /\ e[2] = 1 /\ e[1] \in Declared'
                                                     /\ Kind(e)' \in {"publisher", "client"}
                        /\ "node" \in holders'[e] => Kind(e)' # "publisher"
      BY DEF HeldInv
    <3>1. holders'[e] \subseteq holders[e] /\ (e = <<top, 1>> => "app" \notin holders'[e])
      BY <1>6
    <3>2. e = <<e[1], e[2]>>
      BY EntityFacts
    <3>3. "app" \in holders'[e] => e[2] = 1 /\ e[1] \in Declared'
      BY <2>2, <3>1, <3>2 DEF IInv, HeldInv
    <3> QED  BY <1>6, <3>1, <3>3 DEF IInv, HeldInv, Kind
  <2>5. ExecutorInScope => ExecutorInScope'
    BY <1>6, <2>1, <2>2 DEF ExecutorInScope
  <2> QED  BY <1>1, <1>4, <1>6, <2>1, <2>2, <2>3, <2>4, <2>5 DEF IInv, WaitSetInv, TypeOK
(* An owner lets go of an entity while the node is there. *)
<1>7. ASSUME NEW e \in Entities, NEW owner \in {"app", "node"}, Drop(e, owner), node = "init"
      PROVE  /\ entity' \in [Entities -> {"none", "init", "fini"}]
             /\ holders' \in [Entities -> SUBSET {"app", "node"}]
             /\ holders'[e] = holders[e] \ {owner}
             /\ \A f \in Entities : f # e => holders'[f] = holders[f]
             /\ \A f \in Entities : entity'[f] = "init" <=> holders'[f] # {}
  <2>1. /\ holders' = [holders EXCEPT ![e] = holders[e] \ {owner}]
        /\ entity' = IF holders[e] = {owner} THEN [entity EXCEPT ![e] = "fini"] ELSE entity
    BY <1>7 DEF Drop
  <2>2. /\ entity \in [Entities -> {"none", "init", "fini"}]
        /\ holders \in [Entities -> SUBSET {"app", "node"}]
        /\ \A f \in Entities : entity[f] = "init" <=> holders[f] # {}
    BY DEF IInv, TypeOK, LiveIffHeld
  <2>3. /\ entity' \in [Entities -> {"none", "init", "fini"}]
        /\ holders' \in [Entities -> SUBSET {"app", "node"}]
        /\ holders'[e] = holders[e] \ {owner}
        /\ \A f \in Entities : f # e => holders'[f] = holders[f] /\ entity'[f] = entity[f]
    BY <2>1, <2>2
  <2>4. entity'[e] = "init" <=> holders'[e] # {}
    <3>1. CASE holders[e] = {owner}
      BY <2>1, <2>2, <2>3, <3>1
    <3>2. CASE holders[e] # {owner}
      BY <2>1, <2>2, <2>3, <3>2
    <3> QED  BY <3>1, <3>2
  <2> QED  BY <2>2, <2>3, <2>4
<1>8. CASE DestroyPointer
  <2>1. /\ Destroys({"publisher", "client"}) /\ Pop /\ Drop(<<top, 1>>, "app")
        /\ UNCHANGED <<program, phase, line, made, context, node, waitSet, watched>>
    BY <1>8 DEF DestroyPointer, InnermostIndex
  <2>2. top \in 1 .. Len(program) /\ node = "init"
    BY <1>2, <2>1
  <2>3. <<top, 1>> \in Entities
    BY <1>1, <2>2 DEF Entities
  <2> QED
    <3>1. /\ entity' \in [Entities -> {"none", "init", "fini"}]
          /\ holders' \in [Entities -> SUBSET {"app", "node"}]
          /\ holders'[<<top, 1>>] = holders[<<top, 1>>] \ {"app"}
          /\ \A f \in Entities : f # <<top, 1>> => holders'[f] = holders[f]
          /\ \A f \in Entities : entity'[f] = "init" <=> holders'[f] # {}
      BY <1>7, <2>1, <2>2, <2>3
    <3>2. Destroys({"publisher", "client", "parameter_service"})
      BY <2>1 DEF Destroys
    <3> HIDE DEF top
    <3> QED  BY <1>6, <2>1, <3>1, <3>2
<1>9. CASE DestroyParameterService
  <2>1. Destroys({"publisher", "client", "parameter_service"})
    BY <1>9 DEF DestroyParameterService, Destroys
  <2>2. /\ Pop /\ program[top] = "parameter_service"
        /\ UNCHANGED <<program, phase, line, made, context, node, waitSet, entity, holders, watched>>
    BY <1>2, <1>9 DEF DestroyParameterService, resources
  <2>3. \A e \in Entities : /\ holders'[e] \subseteq holders[e]
                            /\ e = <<top, 1>> => "app" \notin holders'[e]
                            /\ entity'[e] = "init" <=> holders'[e] # {}
    <3> SUFFICES ASSUME NEW e \in Entities
                 PROVE  /\ e = <<top, 1>> => "app" \notin holders[e]
                        /\ entity[e] = "init" <=> holders[e] # {}
      BY <2>2
    <3>1. e = <<top, 1>> => Kind(e) = "parameter_service"
      BY <2>2 DEF Kind
    <3> QED  BY <3>1 DEF IInv, HeldInv, LiveIffHeld
  <2>4. /\ entity' \in [Entities -> {"none", "init", "fini"}]
        /\ holders' \in [Entities -> SUBSET {"app", "node"}]
    BY <1>1, <2>2 DEF TypeOK
  <2>5. Pop /\ UNCHANGED <<program, phase, line, made, context, node, waitSet, watched>>
    BY <2>2
  <2> HIDE DEF top
  <2> QED  BY <1>6, <2>1, <2>3, <2>4, <2>5
<1>10. CASE ClearLists
  <2>1. PICK e \in Entities : "node" \in holders[e] /\ Drop(e, "node")
    BY <1>10 DEF ClearLists, InList
  <2>2. /\ phase = "leaving" /\ scope # <<>> /\ node = "init"
        /\ UNCHANGED <<program, phase, line, made, scope, context, node, waitSet, watched>>
    BY <1>2, <1>10 DEF ClearLists
  <2>3. /\ entity' \in [Entities -> {"none", "init", "fini"}]
        /\ holders' \in [Entities -> SUBSET {"app", "node"}]
        /\ holders'[e] = holders[e] \ {"node"}
        /\ \A f \in Entities : f # e => holders'[f] = holders[f]
        /\ \A f \in Entities : entity'[f] = "init" <=> holders'[f] # {}
    BY <1>7, <2>1, <2>2
  <2>4. ScopeInv' /\ Declared' = Declared /\ ExecutorInScope' = ExecutorInScope
    BY <2>2 DEF IInv, ScopeInv, Declared, ExecutorInScope
  <2>5. LiveIffHeld'
    BY <2>3 DEF LiveIffHeld
  <2>6. HeldInv'
    <3>1. \A f \in Entities : holders'[f] \subseteq holders[f]
      BY <2>3
    <3> QED  BY <2>2, <2>4, <3>1 DEF IInv, HeldInv, Kind
  <2> QED  BY <1>1, <1>4, <2>2, <2>3, <2>4, <2>5, <2>6 DEF IInv, NodeInv, WaitSetInv, TypeOK
<1>11. CASE FiniNode
  <2>1. /\ phase = "leaving" /\ scope # <<>> /\ top = 1 /\ Pop /\ node' = "fini"
        /\ \A k \in DOMAIN ClearedLists : InList(k) = {}
        /\ UNCHANGED <<program, phase, line, made, context, waitSet, entity, holders, watched>>
    BY <1>1, <1>2, <1>11 DEF FiniNode
  <2>2. /\ scope' \in Seq(DOMAIN program') /\ ScopeInv' /\ scope' = <<>>
        /\ Declared' = Declared \ {1}
    BY <1>3, <2>1
  <2>3. Declared' = {}
    BY <2>2, EmptySeq DEF Declared
  <2>4. Declared \subseteq {1}
    BY <2>2, <2>3
  <2>5. \A e \in Entities : holders[e] = {}
    <3> SUFFICES ASSUME NEW e \in Entities, holders[e] # {} PROVE FALSE
      OBVIOUS
    <3>1. /\ e[1] \in 1 .. Len(program) /\ Kind(e) \in Creations
          /\ "app" \in holders[e] => e[1] = 1
          /\ "node" \in holders[e] => Kind(e) # "publisher"
      BY <2>4 DEF IInv, HeldInv
    <3>2. e[1] # 1
      BY <1>1, <3>1 DEF Kind, Creations
    <3>3. "node" \in holders[e]
      BY <1>1, <3>1, <3>2 DEF TypeOK
    <3>4. Kind(e) \in ClearedLists[1] \/ Kind(e) \in ClearedLists[2] \/ Kind(e) \in ClearedLists[3]
      BY <3>1, <3>3 DEF ClearedLists, Creations
    <3>5. DOMAIN ClearedLists = {1, 2, 3}
      BY DEF ClearedLists
    <3> QED  BY <2>1, <3>3, <3>4, <3>5 DEF InList
  <2>6. waitSet # "init"
    <3>1. program[1] = "node"
      BY <1>1, <1>2, <1>11, <2>1 DEF FiniNode
    <3> QED  BY <2>4, <3>1 DEF IInv, WaitSetInv, ExecutorInScope
  <2>7. LiveIffHeld' /\ HeldInv'
    BY <2>1, <2>5 DEF IInv, LiveIffHeld, HeldInv
  <2> QED  BY <1>1, <1>4, <2>1, <2>2, <2>6, <2>7 DEF TypeOK
<1>12. CASE LeaveBlock \/ Shutdown
  <2>1. /\ scope = <<>> /\ phase \in {"leaving", "after"}
        /\ phase' \in {"after", "ended", "terminated"}
        /\ context' \in {context, "shutdown"} /\ (phase' = "after" => context' = context)
        /\ phase' = "after" => phase = "leaving"
        /\ UNCHANGED <<program, line, made, scope, node, waitSet, entity, holders, watched>>
    BY <1>12 DEF LeaveBlock, Shutdown, IInv, ScopeInv, resources
  <2>2. TypeOK' /\ NodeInv'
    BY <1>1, <2>1 DEF IInv, TypeOK, NodeInv
  <2>3. ScopeInv'
    BY <2>1 DEF IInv, ScopeInv, Declared
  <2>4. LiveIffHeld' /\ HeldInv' /\ FreshInv' /\ WaitSetInv'
    BY <2>1 DEF IInv, LiveIffHeld, HeldInv, FreshInv, WaitSetInv, Kind, Declared, ExecutorInScope
  <2> QED  BY <2>2, <2>3, <2>4 DEF IInv
<1> QED  BY <1>5, <1>8, <1>9, <1>10, <1>11, <1>12

(* Every step of the program keeps the invariant. *)
LEMMA NextKeepsIInv == IInv /\ [Next]_vars => IInv'
<1> SUFFICES ASSUME IInv, [Next]_vars PROVE IInv'
  OBVIOUS
<1>1. CASE UNCHANGED vars
  BY <1>1 DEF vars, IInv, TypeOK, ScopeInv, NodeInv, LiveIffHeld, HeldInv, FreshInv, WaitSetInv,
              Kind, Declared, ExecutorInScope
<1>2. CASE InitContext \/ ConstructNode \/ ConstructExecutor \/ AddMyNode \/ Request \/ LoopThrows
  BY <1>2, ConstructionKeepsIInv
<1>3. CASE CreateEntity
  BY <1>3, CreateEntityKeepsIInv
<1>4. CASE DestroyExecutor \/ DestroyPointer \/ DestroyParameterService
           \/ ClearLists \/ FiniNode \/ LeaveBlock \/ Shutdown
  BY <1>4, DestructionKeepsIInv
<1> QED  BY <1>1, <1>2, <1>3, <1>4 DEF Next

(* The invariant holds in every state of every run. *)
THEOREM Invariance == Spec => []IInv
BY InitIInv, NextKeepsIInv, PTL DEF Spec

-----------------------------------------------------------------------------
(* What follows from the invariant.                                          *)

\* No entity is destroyed without its node, whatever fails: the state of every
\* object stays in its range, "refused" excluded (the destructors of
\* include/rclmine/my_node.h and of the entities).
THEOREM LifetimeTypeCorrect == Spec => []TypeOK
BY Invariance, PTL DEF IInv

\* No raw pointer dangles while the object that keeps it can be used: entities go
\* before their node, whoever holds them, and node and wait set before the context.
THEOREM PointersStayValid == Spec => []RawPointersValid
<1>1. IInv => RawPointersValid
  <2> SUFFICES ASSUME IInv PROVE RawPointersValid
    OBVIOUS
  <2>1. \A e \in Entities : holders[e] # {} => entity[e] = "init" /\ node = "init"
    BY DEF IInv, LiveIffHeld, HeldInv
  <2>2. waitSet = "init" => node = "init"
    <3>1. waitSet = "init" => Declared # {}
      BY DEF IInv, WaitSetInv, ExecutorInScope
    <3>2. Declared # {} => scope # <<>>
      BY DEF Declared
    <3> QED  BY <3>1, <3>2 DEF IInv, NodeInv
  <2>3. node = "init" => context = "init"
    BY DEF IInv, NodeInv
  <2> QED  BY <2>1, <2>2, <2>3 DEF RawPointersValid
<1> QED  BY <1>1, Invariance, PTL

\* A process that gets past RCLUtils::shutdown has released everything, whichever
\* constructors failed and however the block was left: no entity, node or wait
\* set remains initialised, and the context is shut down.
THEOREM EndsReleased == Spec => [](phase = "ended" => AllReleased)
<1> DEFINE ShutDown == phase = "ended" => context = "shutdown"
<1>1. Init => ShutDown
  BY DEF Init
<1>2. ShutDown /\ [Next]_vars => ShutDown'
  <2> SUFFICES ASSUME ShutDown, [Next]_vars PROVE ShutDown'
    OBVIOUS
  <2>1. CASE Shutdown
    BY <2>1 DEF Shutdown
  <2>2. CASE UNCHANGED vars
    BY <2>2 DEF vars
  <2>3. CASE InitContext
    BY <2>3 DEF InitContext
  <2>4. CASE ConstructNode \/ CreateEntity \/ ConstructExecutor \/ AddMyNode \/ Request \/ LoopThrows
    <3>1. phase = "block" /\ (phase' = phase \/ phase' = "leaving" \/ phase' = "terminated")
      BY <2>4 DEF At, ConstructNode, CreateEntity, CreatePublisher, CreateSubscription, CreateService,
                  CreateClient, CreateParameterService, Construction, ConstructExecutor, AddMyNode,
                  Request, LoopThrows, NextLine, Throw
    <3> QED  BY <3>1
  <2>5. CASE DestroyExecutor \/ DestroyPointer \/ DestroyParameterService \/ ClearLists \/ FiniNode
             \/ LeaveBlock
    <3>1. phase = "leaving" /\ (phase' = phase \/ phase' = "terminated" \/ phase' = "after")
      BY <2>5 DEF Destroys, DestroyExecutor, DestroyPointer, DestroyParameterService, ClearLists,
                  FiniNode, LeaveBlock
    <3> QED  BY <3>1
  <2> QED  BY <2>1, <2>2, <2>3, <2>4, <2>5 DEF Next
<1>3. IInv /\ ShutDown => (phase = "ended" => AllReleased)
  <2> SUFFICES ASSUME IInv, ShutDown, phase = "ended" PROVE AllReleased
    OBVIOUS
  <2>1. scope = <<>> /\ Declared = {}
    BY ScopeFacts DEF IInv, ScopeInv, Declared
  <2>2. node # "init" /\ waitSet # "init"
    BY <2>1 DEF IInv, NodeInv, WaitSetInv, ExecutorInScope
  <2>3. \A e \in Entities : entity[e] # "init"
    BY <2>2 DEF IInv, HeldInv, LiveIffHeld
  <2> QED  BY <2>2, <2>3 DEF AllReleased
<1> QED  BY <1>1, <1>2, <1>3, Invariance, PTL DEF Spec

(* Letting go of an entity finalises it, or changes nothing that rcl knows. *)
LEMMA DropRefines ==
  ASSUME IInv, NEW e \in Entities, NEW owner \in {"app", "node"}, Drop(e, owner), node = "init",
         UNCHANGED <<context, node, waitSet>>
  PROVE  RL!FiniEntity(e) \/ UNCHANGED RL!lifecycleVars
<1>1. CASE holders[e] = {owner}
  <2>1. entity[e] = "init"
    BY <1>1 DEF IInv, LiveIffHeld
  <2> QED  BY <1>1, <2>1 DEF Drop, RL!FiniEntity, RL!Live
<1>2. CASE holders[e] # {owner}
  BY <1>2 DEF Drop, RL!lifecycleVars
<1> QED  BY <1>1, <1>2

(* A statement initialises what rcl allows at its place in a program. *)
LEMMA ConstructionRefines ==
  ASSUME IInv, InitContext \/ ConstructNode \/ CreateEntity \/ ConstructExecutor \/ AddMyNode
               \/ Request \/ LoopThrows
  PROVE  [RL!LifecycleNext]_RL!lifecycleVars
<1>1. /\ program \in Programs /\ line \in 1 .. MaxLines + 1 /\ made \in 0 .. 3
      /\ Len(program) \in Nat /\ DOMAIN program = 1 .. Len(program)
      /\ \A i \in 1 .. Len(program) : program[i] = "node" <=> i = 1
  BY ProgramFacts DEF IInv, TypeOK
<1>2. CASE InitContext
  BY <1>2 DEF InitContext, IInv, NodeInv, RL!LifecycleNext, RL!InitContext, RL!lifecycleVars
<1>3. CASE ConstructNode
  <2>1. line = 1 /\ phase = "block"
    BY <1>1, <1>3 DEF ConstructNode, At
  <2>2. node = "none" /\ context = "init"
    BY <2>1 DEF IInv, NodeInv
  <2> QED  BY <1>3, <2>2 DEF ConstructNode, RL!LifecycleNext, RL!InitNode, RL!lifecycleVars
<1>4. CASE CreateEntity
  <2>1. /\ <<line, made + 1>> \in Entities /\ entity[<<line, made + 1>>] = "none"
        /\ node = "init" /\ UNCHANGED <<context, node, waitSet>>
    BY <1>4, CreationFacts, EntityCreation DEF Construction
  <2>2. entity' = [entity EXCEPT ![<<line, made + 1>>] = "init"] \/ UNCHANGED entity
    BY <1>4, EntityCreation DEF Construction
  <2>3. RL!InitEntity(<<line, made + 1>>) \/ UNCHANGED RL!lifecycleVars
    BY <2>1, <2>2 DEF RL!InitEntity, RL!lifecycleVars
  <2> QED  BY <2>1, <2>3 DEF RL!LifecycleNext
<1>5. CASE ConstructExecutor \/ Request \/ LoopThrows
  BY <1>5 DEF ConstructExecutor, Request, LoopThrows, resources, RL!lifecycleVars
<1>6. CASE AddMyNode
  <2>1. /\ phase = "block" /\ line \in 1 .. Len(program) /\ program[line] = "addMyNode"
        /\ UNCHANGED <<context, node, entity>>
        /\ waitSet' = "init" \/ UNCHANGED waitSet
    BY <1>1, <1>6 DEF AddMyNode, At
  <2>2. \A i \in 1 .. line - 1 : program[i] # "addMyNode"
    <3> SUFFICES ASSUME NEW i \in 1 .. line - 1, program[i] = "addMyNode" PROVE FALSE
      OBVIOUS
    <3>1. i \in 1 .. Len(program) /\ i # line
      BY <1>1, <2>1
    <3> QED  BY <1>1, <2>1, <3>1, ProgramsAssumption
  <2>3. waitSet = "none" /\ context = "init"
    BY <2>1, <2>2 DEF IInv, WaitSetInv, NodeInv
  <2> QED  BY <2>1, <2>3 DEF RL!LifecycleNext, RL!InitWaitSet, RL!lifecycleVars
<1> QED  BY <1>2, <1>3, <1>4, <1>5, <1>6

(* A destructor finalises what rcl allows at its place in the scope. *)
LEMMA DestructionRefines ==
  ASSUME IInv, IInv', DestroyExecutor \/ DestroyPointer \/ DestroyParameterService
                      \/ ClearLists \/ FiniNode \/ LeaveBlock \/ Shutdown
  PROVE  [RL!LifecycleNext]_RL!lifecycleVars
<1>1. /\ program \in Programs /\ Len(scope) \in Nat
      /\ scope # <<>> <=> Len(scope) > 0
      /\ \A k \in 1 .. Len(scope) : scope[k] \in 1 .. MaxLines
      /\ MaxLines \in Nat
      /\ node = "init" <=> scope # <<>>
  BY ScopeFacts, ProgramFacts DEF IInv, TypeOK, NodeInv
<1>2. CASE DestroyExecutor
  BY <1>2 DEF DestroyExecutor, RL!LifecycleNext, RL!FiniWaitSet, RL!lifecycleVars
<1>3. CASE DestroyPointer
  <2> DEFINE e == <<scope[Len(scope)], 1>>
  <2>1. /\ scope # <<>> /\ Drop(e, "app") /\ UNCHANGED <<context, node, waitSet>>
    BY <1>3 DEF DestroyPointer, Destroys, InnermostIndex
  <2>2. Len(scope) \in 1 .. Len(scope)
    BY <1>1, <2>1
  <2>3. e \in Entities
    BY <1>1, <2>2 DEF Entities
  <2> HIDE DEF e
  <2>4. RL!FiniEntity(e) \/ UNCHANGED RL!lifecycleVars
    BY <1>1, <2>1, <2>3, DropRefines
  <2> QED  BY <2>3, <2>4 DEF RL!LifecycleNext
<1>4. CASE ClearLists
  <2>1. PICK e \in Entities : Drop(e, "node")
    BY <1>4 DEF ClearLists, InList
  <2>2. scope # <<>> /\ UNCHANGED <<context, node, waitSet>>
    BY <1>4 DEF ClearLists, Destroys
  <2>3. RL!FiniEntity(e) \/ UNCHANGED RL!lifecycleVars
    BY <1>1, <2>1, <2>2, DropRefines
  <2> QED  BY <2>3 DEF RL!LifecycleNext
<1>5. CASE FiniNode
  <2>1. scope # <<>> /\ node' = "fini" /\ UNCHANGED <<context, waitSet, entity>>
    BY <1>5 DEF FiniNode, Destroys
  <2>2. ~ \E e \in Entities : RL!Live(e)
    BY <2>1 DEF IInv, HeldInv, LiveIffHeld, RL!Live
  <2> QED  BY <1>1, <2>1, <2>2 DEF RL!LifecycleNext, RL!FiniNode
<1>6. CASE Shutdown
  <2>1. /\ phase = "after" /\ UNCHANGED <<node, entity, waitSet>>
        /\ context' = "shutdown" \/ UNCHANGED context
    BY <1>6 DEF Shutdown
  <2>2. scope = <<>> /\ context = "init"
    BY <2>1 DEF IInv, ScopeInv, NodeInv
  <2>3. waitSet # "init"
    <3>1. Declared = {}
      BY <1>1, <2>2 DEF Declared
    <3> QED  BY <3>1 DEF IInv, WaitSetInv, ExecutorInScope
  <2>4. node # "init"
    BY <1>1, <2>2
  <2>5. ~ \E e \in Entities : RL!Live(e)
    BY <2>4 DEF IInv, HeldInv, LiveIffHeld, RL!Live
  <2> QED  BY <2>1, <2>2, <2>3, <2>4, <2>5 DEF RL!LifecycleNext, RL!ShutdownContext, RL!lifecycleVars
<1>7. CASE DestroyParameterService \/ LeaveBlock
  BY <1>7 DEF DestroyParameterService, LeaveBlock, resources, RL!lifecycleVars
<1> QED  BY <1>2, <1>3, <1>4, <1>5, <1>6, <1>7

\* Whichever call fails, and whether or not the application catches it, the
\* library initialises and finalises rcl's objects in an order rcl allows: the
\* classes of include/rclmine implement the life cycle that rcl demands.
THEOREM FollowsRclLifecycle == Spec => ImplementsRclLifecycle
<1>1. Init => RL!LifecycleInit
  BY DEF Init, RL!LifecycleInit
<1>2. IInv /\ IInv' /\ [Next]_vars => [RL!LifecycleNext]_RL!lifecycleVars
  <2>1. ASSUME UNCHANGED vars PROVE UNCHANGED RL!lifecycleVars
    BY <2>1 DEF vars, RL!lifecycleVars
  <2> QED  BY <2>1, ConstructionRefines, DestructionRefines DEF Next
<1> QED  BY <1>1, <1>2, Invariance, PTL DEF Spec, ImplementsRclLifecycle, RL!LifecycleSpec

-----------------------------------------------------------------------------
(* What the executor refers to, for programs that declare their parameter     *)
(* services before the executor, as main_parameter.cpp does.                  *)

ServicesBeforeExecutor ==
  \A p \in Programs : \A i, j \in DOMAIN p :
    p[i] = "parameter_service" /\ p[j] = "executor" => i < j

(* The innermost variable is the one that was declared last. *)
LEMMA InnermostIsLast ==
  ASSUME IInv, scope # <<>>
  PROVE  /\ scope[Len(scope)] \in 1 .. Len(program) /\ Len(program) \in Nat
         /\ \A i \in Declared : i \in 1 .. Len(program) /\ i <= scope[Len(scope)]
<1>1. /\ Len(scope) \in Nat \ {0} /\ Len(program) \in Nat
      /\ \A k \in 1 .. Len(scope) : scope[k] \in 1 .. Len(program)
  BY ScopeFacts, ProgramFacts DEF IInv, TypeOK
<1>2. Len(scope) \in 1 .. Len(scope)
  BY <1>1
<1>3. ASSUME NEW k \in 1 .. Len(scope) PROVE scope[k] <= scope[Len(scope)]
  <2>1. CASE k = Len(scope)
    BY <1>1, <1>2, <2>1
  <2>2. CASE k < Len(scope)
    BY <1>1, <1>2, <2>2 DEF IInv, ScopeInv
  <2> QED  BY <1>1, <2>1, <2>2
<1> QED  BY <1>1, <1>2, <1>3 DEF Declared

(* As long as the scope only grows, what was watched may stay so. *)
LEMMA GrowingKeepsWatched ==
  ASSUME WatchedInv, UNCHANGED <<program, watched>>, Declared \subseteq Declared',
         \A e \in watched : "node" \in holders[e] => "node" \in holders'[e]
  PROVE  WatchedInv'
<1>1. ExecutorInScope => ExecutorInScope'
  BY DEF ExecutorInScope
<1> QED  BY <1>1 DEF WatchedInv, Kind

(* Only addMyNode adds to the executor's lists, and the node holds what it   *)
(* adds.                                                                     *)
LEMMA ConstructionKeepsWatched ==
  ASSUME IInv, WatchedInv,
         InitContext \/ ConstructNode \/ CreateEntity \/ ConstructExecutor \/ AddMyNode
         \/ Request \/ LoopThrows
  PROVE  WatchedInv'
<1>1. ASSUME phase = "block", line <= Len(program), NextLine \/ Throw, program' = program
      PROVE  Declared \subseteq Declared' /\ (ExecutorInScope => ExecutorInScope')
  <2>1. CASE NextLine
    BY <1>1, <2>1, NextLineKeepsScope
  <2>2. CASE Throw
    BY <1>1, <2>2 DEF Throw, Declared, ExecutorInScope
  <2> QED  BY <1>1, <2>1, <2>2
<1>2. CASE InitContext
  <2>1. Declared' = Declared /\ UNCHANGED <<program, watched, holders>>
    BY <1>2 DEF InitContext, Declared
  <2> QED  BY <2>1, GrowingKeepsWatched
<1>3. CASE ConstructNode \/ ConstructExecutor \/ Request \/ LoopThrows
  <2>1. /\ phase = "block" /\ line <= Len(program)
        /\ NextLine \/ Throw
        /\ UNCHANGED <<program, watched, holders>>
    BY <1>3 DEF ConstructNode, ConstructExecutor, Request, LoopThrows, At
  <2>2. Declared \subseteq Declared'
    BY <1>1, <2>1
  <2>3. \A e \in watched : "node" \in holders[e] => "node" \in holders'[e]
    BY <2>1
  <2> QED  BY <2>1, <2>2, <2>3, GrowingKeepsWatched
<1>4. CASE CreateEntity
  <2> DEFINE new == <<line, made + 1>>
  <2>1. /\ phase = "block" /\ line <= Len(program) /\ UNCHANGED <<program, watched>>
        /\ NextLine \/ Throw \/ UNCHANGED scope
    BY <1>4, EntityCreation DEF Construction, At
  <2>2. Declared \subseteq Declared'
    <3>1. CASE UNCHANGED scope
      BY <3>1 DEF Declared
    <3> QED  BY <1>1, <2>1, <3>1
  <2>3. holders[new] = {} /\ new \in Entities
    BY <1>4, CreationFacts DEF IInv, LiveIffHeld
  <2>4. \A e \in Entities : "node" \in holders[e] => holders'[e] = holders[e]
    BY <1>4, <2>3, EntityCreation DEF Construction, IInv, TypeOK
  <2> QED  BY <2>1, <2>2, <2>4, GrowingKeepsWatched DEF IInv, TypeOK
<1>5. CASE AddMyNode
  <2>1. /\ phase = "block" /\ program[line] = "addMyNode" /\ line \in 1 .. Len(program)
        /\ NextLine \/ Throw
        /\ UNCHANGED <<program, holders>>
        /\ watched' = {e \in Entities : "node" \in holders[e]}
        /\ program \in Programs /\ DOMAIN program = 1 .. Len(program) /\ Len(program) \in Nat
    BY <1>5, ProgramFacts DEF AddMyNode, At, IInv, TypeOK
  <2>2. Declared \subseteq Declared' /\ (ExecutorInScope => ExecutorInScope')
    BY <1>1, <2>1
  <2>3. \A i \in 1 .. line - 1 : program[i] \in Locals => i \in Declared
    BY <2>1 DEF IInv, ScopeInv
  <2>4. ExecutorInScope
    <3>1. PICK j \in 1 .. line : program[j] = "executor"
      BY <2>1, ProgramsAssumption
    <3>2. j \in 1 .. line - 1
      BY <2>1, <3>1
    <3> QED  BY <2>3, <3>1, <3>2 DEF ExecutorInScope, Locals
  <2>5. ASSUME NEW e \in watched', Kind(e) = "parameter_service" PROVE e[1] \in Declared
    <3>1. e[1] \in 1 .. Len(program) /\ e[1] <= line /\ e[1] # line
      BY <2>1, <2>5 DEF IInv, HeldInv, Kind
    <3>2. e[1] \in 1 .. line - 1
      BY <2>1, <3>1
    <3> QED  BY <2>3, <2>5, <3>2 DEF Kind, Locals
  <2> QED  BY <2>1, <2>2, <2>4, <2>5 DEF WatchedInv, Kind
<1> QED  BY <1>2, <1>3, <1>4, <1>5

(* The executor goes before what it watches if parameter services are        *)
(* declared first.                                                           *)
LEMMA DestructionKeepsWatched ==
  ASSUME ServicesBeforeExecutor, IInv, WatchedInv,
         DestroyExecutor \/ DestroyPointer \/ DestroyParameterService
         \/ ClearLists \/ FiniNode \/ LeaveBlock \/ Shutdown
  PROVE  WatchedInv'
<1> DEFINE top == scope[Len(scope)]
<1>1. /\ program \in Programs /\ DOMAIN program = 1 .. Len(program)
      /\ \A i \in 1 .. Len(program) : program[i] = "node" <=> i = 1
      /\ watched \subseteq Entities
  BY ProgramFacts DEF IInv, TypeOK
<1>2. ASSUME NEW kinds, Destroys(kinds)
      PROVE  /\ phase = "leaving" /\ scope # <<>> /\ program[top] \in kinds
             /\ top \in 1 .. Len(program) /\ Len(program) \in Nat
             /\ \A i \in Declared : i \in 1 .. Len(program) /\ i <= top
  BY <1>2, InnermostIsLast DEF Destroys, InnermostIndex
<1>3. CASE DestroyExecutor
  <2>1. CASE watched' = {}
    BY <2>1 DEF WatchedInv
  <2>2. CASE UNCHANGED <<program, holders, watched, scope>>
    <3>1. Declared' = Declared
      BY <2>2 DEF Declared
    <3> QED  BY <2>2, <3>1, GrowingKeepsWatched
  <2> QED  BY <1>3, <2>1, <2>2 DEF DestroyExecutor
<1>4. CASE DestroyPointer
  <2>1. /\ phase = "leaving" /\ scope # <<>> /\ program[top] \in {"publisher", "client"}
        /\ Pop /\ UNCHANGED <<program, phase, line, watched>>
        /\ holders' = [holders EXCEPT ![<<top, 1>>] = @ \ {"app"}]
    BY <1>2, <1>4 DEF DestroyPointer, Drop, InnermostIndex
  <2>2. Declared' = Declared \ {top}
    BY <2>1, PopKeepsScope
  <2>3. \A e \in watched : "node" \in holders'[e]
    BY <1>1, <2>1 DEF WatchedInv, IInv, TypeOK
  <2>4. \A e \in watched : ExecutorInScope'
    BY <2>1, <2>2 DEF WatchedInv, ExecutorInScope
  <2> QED  BY <2>1, <2>2, <2>3, <2>4 DEF WatchedInv, Kind
<1>5. CASE DestroyParameterService
  <2>1. /\ program[top] = "parameter_service" /\ top \in 1 .. Len(program) /\ Len(program) \in Nat
        /\ \A i \in Declared : i \in 1 .. Len(program) /\ i <= top
        /\ UNCHANGED watched
    BY <1>2, <1>5 DEF DestroyParameterService
  <2>2. ~ ExecutorInScope
    <3> SUFFICES ASSUME NEW i \in Declared, program[i] = "executor" PROVE FALSE
      BY DEF ExecutorInScope
    <3>1. top < i
      BY <1>1, <2>1 DEF ServicesBeforeExecutor
    <3> QED  BY <2>1, <3>1
  <2> QED  BY <2>1, <2>2 DEF WatchedInv
<1>6. CASE ClearLists \/ FiniNode
  <2>1. /\ top = 1 /\ program[1] = "node" /\ UNCHANGED watched
        /\ \A i \in Declared : i \in 1 .. Len(program) /\ i <= top
    BY <1>1, <1>2, <1>6 DEF ClearLists, FiniNode
  <2>2. ~ ExecutorInScope
    <3> SUFFICES ASSUME NEW i \in Declared, program[i] = "executor" PROVE FALSE
      BY DEF ExecutorInScope
    <3>1. i = 1
      BY <2>1
    <3> QED  BY <2>1, <3>1
  <2> QED  BY <2>1, <2>2 DEF WatchedInv
<1>7. CASE LeaveBlock \/ Shutdown
  <2>1. Declared' = Declared /\ UNCHANGED <<program, holders, watched>>
    BY <1>7 DEF LeaveBlock, Shutdown, Declared
  <2> QED  BY <2>1, GrowingKeepsWatched
<1> QED  BY <1>3, <1>4, <1>5, <1>6, <1>7

\* If the parameter service is declared before the executor, nothing that the
\* executor's lists and handlers refer to is destroyed while the executor
\* exists, whether the block is left normally or by an exception.
THEOREM WatchedOutlive ==
  ASSUME ServicesBeforeExecutor
  PROVE  Spec => []WatchedOutliveExecutor
<1>1. Init => WatchedInv
  BY DEF Init, WatchedInv
<1>2. IInv /\ WatchedInv /\ [Next]_vars => WatchedInv'
  <2> SUFFICES ASSUME IInv, WatchedInv, [Next]_vars PROVE WatchedInv'
    OBVIOUS
  <2>1. CASE UNCHANGED vars
    <3>1. Declared' = Declared /\ UNCHANGED <<program, holders, watched>>
      BY <2>1 DEF vars, Declared
    <3> QED  BY <3>1, GrowingKeepsWatched
  <2> QED  BY <2>1, ConstructionKeepsWatched, DestructionKeepsWatched DEF Next
<1>3. IInv /\ WatchedInv => WatchedOutliveExecutor
  <2> SUFFICES ASSUME IInv, WatchedInv, NEW e \in watched
               PROVE  /\ entity[e] = "init"
                      /\ Kind(e) = "parameter_service" => \E k \in DOMAIN scope : scope[k] = e[1]
    BY DEF WatchedOutliveExecutor
  <2>1. entity[e] = "init"
    BY DEF IInv, TypeOK, WatchedInv, LiveIffHeld
  <2>2. DOMAIN scope = 1 .. Len(scope)
    BY ScopeFacts DEF IInv
  <2> QED  BY <2>1, <2>2 DEF WatchedInv, Declared
<1> QED  BY <1>1, <1>2, <1>3, Invariance, PTL DEF Spec
=============================================================================
