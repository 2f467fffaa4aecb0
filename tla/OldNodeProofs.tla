------------------------------ MODULE OldNodeProofs ------------------------------
(***************************************************************************)
(* What is proved of the earlier node for every set of programs, of every  *)
(* length, and whether or not the application catches what is thrown: it   *)
(* follows rcl's life cycle but for the handles the code forgets, and in   *)
(* the end those, and no others, are left.                                 *)
(***************************************************************************)
EXTENDS OldNode, TLAPS

-----------------------------------------------------------------------------
(* The inductive invariant.                                                  *)

(* The ranges of the variables; a member is the line that assigned it.       *)
States == {"none", "init", "fini", "refused"}
Phases == {"start", "node", "block", "leaving", "after", "ended", "terminated"}

NodeTypeInv ==
  /\ program \in Programs
  /\ phase \in Phases
  /\ line \in 1 .. Len(program) + 1
  /\ made \in BOOLEAN
  /\ member \in [Kinds -> Nat]
  /\ \A k \in Kinds : member[k] < line
  /\ context \in {"none", "init", "shutdown"}
  /\ node \in {"none", "init", "fini"}
  /\ handle \in [Handles -> States]

(* Has the process not left the block yet?                                   *)
Before == phase \in {"start", "node", "block"}

(* What there is in each phase: a node exists in the block and while its     *)
(* destructor runs, and a destroyed one has no members.                      *)
PhaseInv ==
  /\ phase = "start" => context = "none"
  /\ phase \in {"node", "block", "leaving", "after"} => context = "init"
  /\ phase \in {"start", "node"} => node = "none"
  /\ phase = "block" => node = "init"
  /\ phase \in {"after", "ended"} => node # "init" /\ \A k \in Kinds : member[k] = 0
  /\ node = "none" => line = 1
  /\ made => phase = "block" /\ line <= Len(program) /\ program[line] \in Kinds

(* A member is of its kind, the node's destructor resets all members but the *)
(* client, and the client is the one that was assigned last.                 *)
MemberInv ==
  /\ \A k \in Kinds : member[k] # 0 => program[member[k]] = k
  /\ node = "fini" => \A k \in Kinds : k # "client" => member[k] = 0
  /\ member["client"] # 0 => LastClient(member["client"])
  /\ \A i \in 1 .. MaxLines : LastClient(i) => member["client"] = i \/ node = "fini"

(* The states a handle may be in, by its place relative to the line that is  *)
(* executed: not made yet, under construction, held by a member, replaced,   *)
(* or one of those the code forgets.                                         *)
Expected(h) ==
  IF h[1] > line \/ (h[1] = line /\ ~made /\ Before) THEN {"none"}
  ELSE IF h[1] = line /\ ~made THEN {"none", "init"}
  ELSE IF program[h[1]] = "use" THEN {"none"}
  ELSE IF h[2] = 2 THEN IF program[h[1]] = "subscription" THEN {"init"} ELSE {"none"}
  ELSE IF h[1] = line \/ member[program[h[1]]] = h[1] THEN {"init"}
  ELSE IF LastClient(h[1]) THEN {"refused"} ELSE {"fini"}

HandleInv == \A h \in Handles : handle[h] \in Expected(h)

IInv == NodeTypeInv /\ PhaseInv /\ MemberInv /\ HandleInv

(* A body is a sequence of creations and uses within the bound.              *)
LEMMA ProgramTyped ==
  ASSUME NodeTypeInv
  PROVE  /\ MaxLines \in Nat /\ Len(program) \in Nat /\ Len(program) <= MaxLines
         /\ \A i \in 1 .. Len(program) : program[i] \in Kinds \cup {"use"}
         /\ line \in Nat \ {0}
<1>1. program \in Seq(Kinds \cup {"use"}) /\ Len(program) <= MaxLines /\ MaxLines \in Nat
  BY OldProgramsAssumption DEF NodeTypeInv
<1> QED  BY <1>1 DEF NodeTypeInv

(* Nothing is created yet.                                                   *)
LEMMA IInvInitially == Init => IInv
<1> SUFFICES ASSUME Init PROVE IInv
  OBVIOUS
<1>1. Len(program) \in Nat /\ MaxLines \in Nat
  BY OldProgramsAssumption DEF Init
<1>2. NodeTypeInv
  <2>1. handle \in [Handles -> States] /\ member \in [Kinds -> Nat]
    BY DEF Init, States
  <2>2. line \in 1 .. Len(program) + 1 /\ \A k \in Kinds : member[k] < line
    BY <1>1 DEF Init
  <2> QED  BY <2>1, <2>2 DEF Init, NodeTypeInv, Phases
<1>3. PhaseInv /\ MemberInv
  BY <1>1 DEF Init, PhaseInv, MemberInv, LastClient, Kinds
<1>4. HandleInv
  BY <1>1 DEF Init, HandleInv, Expected, Before, Handles
<1> QED  BY <1>2, <1>3, <1>4 DEF IInv

(* Steps that touch neither the lines, nor the members, nor the handles. *)
LEMMA PhaseStepKeepsIInv ==
  ASSUME IInv, UNCHANGED <<program, line, made, member, handle>>,
         phase' \in Phases, context' \in {"none", "init", "shutdown"},
         node' \in {"none", "init", "fini"}, PhaseInv',
         node = "fini" => node' = "fini",
         node' = "fini" => \A k \in Kinds : k # "client" => member[k] = 0,
         Before' => Before
  PROVE  IInv'
<1>1. NodeTypeInv'
  BY DEF IInv, NodeTypeInv
<1>2. \A i : LastClient(i)' <=> LastClient(i)
  BY DEF LastClient
<1>3. MemberInv'
  BY <1>2 DEF IInv, MemberInv
<1>4. HandleInv'
  BY <1>2 DEF IInv, HandleInv, Expected
<1> QED  BY <1>1, <1>3, <1>4 DEF IInv

(* The destructor resets every member but the client. *)
LEMMA ResetOrderIs ==
  /\ DOMAIN ResetOrder = 1 .. 3
  /\ ResetOrder[1] = "publisher" /\ ResetOrder[2] = "subscription" /\ ResetOrder[3] = "service"
BY DEF ResetOrder

(* Whoever ends or begins a phase. *)
LEMMA PhaseActionsKeepIInv ==
  ASSUME IInv,
         InitContext \/ ConstructNode \/ LeaveBlock \/ NodeDestroyed \/ Shutdown
         \/ FiniNode \/ (Use /\ UNCHANGED line)
  PROVE  IInv'
<1>1. CASE FiniNode
  <2>1. \A k \in Kinds : k # "client" => member[k] = 0
    BY <1>1, ResetOrderIs DEF FiniNode, Kinds
  <2>2. PhaseInv'
    BY <1>1, <2>1 DEF FiniNode, IInv, PhaseInv
  <2> QED
    BY <1>1, <2>1, <2>2, PhaseStepKeepsIInv DEF FiniNode, IInv, NodeTypeInv, Before
<1>2. CASE InitContext \/ ConstructNode \/ LeaveBlock \/ NodeDestroyed \/ Shutdown
           \/ (Use /\ UNCHANGED line)
  <2>1. PhaseInv'
    <3>1. CASE InitContext \/ ConstructNode
      BY <3>1 DEF IInv, PhaseInv, InitContext, ConstructNode, Throw
    <3>2. CASE NodeDestroyed \/ Shutdown
      BY <3>2 DEF IInv, PhaseInv, NodeDestroyed, Shutdown
    <3>3. CASE LeaveBlock \/ (Use /\ UNCHANGED line)
      <4>1. ~made /\ phase = "block" /\ phase' \in {"block", "leaving", "terminated"}
            /\ UNCHANGED <<line, made, member, context, node, program>>
        BY <3>3, ProgramTyped DEF IInv, PhaseInv, LeaveBlock, Use, At, Throw, Kinds
      <4> QED  BY <4>1 DEF IInv, PhaseInv
    <3> QED  BY <1>2, <3>1, <3>2, <3>3
  <2>2. UNCHANGED <<program, line, made, member, handle>> /\ phase' \in Phases
        /\ context' \in {"none", "init", "shutdown"} /\ node' \in {"none", "init", "fini"}
        /\ (node = "fini" => node' = "fini") /\ (Before' => Before)
        /\ (node' = "fini" => node = "fini")
    BY <1>2 DEF IInv, NodeTypeInv, PhaseInv, InitContext, ConstructNode, LeaveBlock,
                NodeDestroyed, Shutdown, Use, At, Throw, Before, Phases
  <2> QED
    BY <2>1, <2>2, PhaseStepKeepsIInv DEF IInv, MemberInv
<1> QED  BY <1>1, <1>2

(* A constructor that succeeds, or fails at one of its handles. *)
LEMMA ConstructKeepsIInv ==
  ASSUME IInv, NEW kind \in Kinds, NEW count \in {1, 2}, count = 2 <=> kind = "subscription",
         Construct(kind, count)
  PROVE  IInv'
<1>1. PICK good \in 0 .. count :
        /\ handle' = [h \in Handles |-> IF h[1] = line /\ h[2] <= good THEN "init" ELSE handle[h]]
        /\ IF good = count THEN made' = TRUE /\ UNCHANGED phase
           ELSE (Throw \/ phase' = "terminated") /\ UNCHANGED made
  BY DEF Construct
<1>2. /\ UNCHANGED <<program, line, member, context, node>> /\ ~made
      /\ phase = "block" /\ line <= Len(program) /\ program[line] = kind
  BY DEF Construct, At
<1>3. NodeTypeInv' /\ PhaseInv'
  <2>1. phase' \in {"leaving", "terminated", "block"} /\ made' \in BOOLEAN
        /\ (made' => phase' = "block")
    <3>1. CASE good = count
      BY <1>1, <1>2, <3>1
    <3>2. CASE good # count
      BY <1>1, <1>2, <3>2 DEF Throw, IInv, NodeTypeInv
    <3> QED  BY <3>1, <3>2
  <2>2. handle' \in [Handles -> States]
    BY <1>1 DEF IInv, NodeTypeInv, States
  <2> QED  BY <1>2, <2>1, <2>2 DEF IInv, NodeTypeInv, PhaseInv, Phases
<1>4. \A i : LastClient(i)' <=> LastClient(i)
  BY <1>2 DEF LastClient
<1>5. MemberInv'
  BY <1>2, <1>4 DEF IInv, MemberInv
<1>6. ASSUME NEW h \in Handles PROVE handle'[h] \in Expected(h)'
  <2>1. handle[h] \in Expected(h) /\ h[2] \in {1, 2} /\ h[1] \in Nat /\ line \in Nat
    BY ProgramTyped DEF IInv, HandleInv, Handles
  <2>2. CASE h[1] = line
    BY <1>1, <1>2, <2>1, <2>2 DEF Expected, Before, Throw, Kinds
  <2>3. CASE h[1] # line
    BY <1>1, <1>2, <1>4, <2>1, <2>3 DEF Expected
  <2> QED  BY <2>2, <2>3
<1> QED  BY <1>3, <1>5, <1>6 DEF IInv, HandleInv

(* A line that only uses the entities. *)
LEMMA UseKeepsIInv ==
  ASSUME IInv, Use, line' = line + 1
  PROVE  IInv'
<1>1. /\ UNCHANGED <<program, phase, made, member, context, node, handle>>
      /\ phase = "block" /\ line <= Len(program) /\ program[line] = "use"
  BY ProgramTyped DEF Use, At, IInv
<1>2. /\ line \in Nat \ {0} /\ Len(program) \in Nat /\ MaxLines \in Nat
      /\ ~made /\ node = "init"
  BY <1>1, ProgramTyped DEF IInv, PhaseInv, Kinds
<1>3. \A i \in Nat : LastClient(i)' <=> LastClient(i)
  BY <1>1, <1>2 DEF LastClient
<1>4. NodeTypeInv' /\ PhaseInv'
  BY <1>1, <1>2 DEF IInv, NodeTypeInv, PhaseInv
<1>5. MemberInv'
  BY <1>1, <1>2, <1>3 DEF IInv, NodeTypeInv, MemberInv, Kinds
<1>6. ASSUME NEW h \in Handles PROVE handle'[h] \in Expected(h)'
  <2>1. handle[h] \in Expected(h) /\ h[2] \in {1, 2} /\ h[1] \in Nat
    BY <1>2 DEF IInv, HandleInv, Handles
  <2> QED
    BY <1>1, <1>2, <1>3, <2>1 DEF Expected, Before
<1> QED  BY <1>4, <1>5, <1>6 DEF IInv, HandleInv

(* A member takes the new entity, and the one before is finalised. *)
LEMMA AssignKeepsIInv ==
  ASSUME IInv, Assign
  PROVE  IInv'
<1> DEFINE kind == program[line]
           old == member[kind]
<1>1. /\ UNCHANGED <<program, phase, context, node>> /\ line' = line + 1
      /\ made /\ ~made' /\ made' = FALSE
      /\ phase = "block" /\ line <= Len(program) /\ kind \in Kinds /\ node = "init"
      /\ member' = [member EXCEPT ![kind] = line]
      /\ IF old = 0 THEN UNCHANGED handle ELSE Destroy(old)
  BY DEF Assign, At, IInv, PhaseInv
<1>2. /\ line \in Nat \ {0} /\ Len(program) \in Nat /\ MaxLines \in Nat /\ Len(program) <= MaxLines
      /\ \A i \in 1 .. Len(program) : program[i] \in Kinds \cup {"use"}
  BY ProgramTyped DEF IInv
<1>3. /\ member \in [Kinds -> Nat] /\ \A k \in Kinds : member[k] < line
      /\ old \in Nat /\ old < line /\ (old # 0 => program[old] = kind)
  BY <1>1 DEF IInv, NodeTypeInv, MemberInv
<1>4. old # 0 => <<old, 1>> \in Handles
  BY <1>1, <1>2, <1>3 DEF Handles
<1>5. handle' = IF old = 0 THEN handle ELSE [handle EXCEPT ![<<old, 1>>] = "fini"]
  BY <1>1 DEF Destroy
<1>6. handle \in [Handles -> States]
  BY DEF IInv, NodeTypeInv
<1> HIDE DEF kind, old
<1>7. NodeTypeInv'
  <2>1. member' \in [Kinds -> Nat] /\ \A k \in Kinds : member'[k] < line'
    BY <1>1, <1>2, <1>3
  <2>2. handle' \in [Handles -> States]
    BY <1>4, <1>5, <1>6 DEF States
  <2>3. line' \in 1 .. Len(program') + 1
    BY <1>1, <1>2
  <2> QED  BY <1>1, <2>1, <2>2, <2>3 DEF IInv, NodeTypeInv
<1>8. PhaseInv'
  BY <1>1 DEF IInv, PhaseInv
<1>9. \A i \in Nat : LastClient(i)' <=>
        IF kind = "client" THEN i = line ELSE LastClient(i)
  BY <1>1, <1>2 DEF LastClient, kind
<1>10. MemberInv'
  <2>1. \A k \in Kinds : member'[k] # 0 => program'[member'[k]] = k
    BY <1>1, <1>3 DEF IInv, MemberInv, kind
  <2>2. member'["client"] # 0 => LastClient(member["client"])' \/ kind = "client"
    BY <1>1, <1>3, <1>9 DEF IInv, MemberInv, Kinds
  <2> QED
    BY <1>1, <1>2, <1>3, <1>9, <2>1 DEF IInv, MemberInv, Kinds
<1>11. ASSUME NEW h \in Handles PROVE handle'[h] \in Expected(h)'
  <2>1. handle[h] \in Expected(h) /\ h[2] \in {1, 2} /\ h[1] \in Nat /\ h = <<h[1], h[2]>>
        /\ h[1] \in 1 .. MaxLines
    BY <1>2 DEF IInv, HandleInv, Handles
  <2>2. CASE h[1] > line
    <3>1. handle'[h] = handle[h]
      BY <1>2, <1>3, <1>5, <1>6, <2>1, <2>2
    <3> QED  BY <1>1, <1>2, <2>1, <2>2, <3>1 DEF Expected, Before
  <2>3. CASE h[1] = line
    BY <1>1, <1>2, <1>3, <1>5, <1>6, <2>1, <2>3 DEF Expected, Before, kind, Kinds
  <2>4. CASE h[1] < line /\ h[2] = 2
    BY <1>1, <1>2, <1>3, <1>5, <1>6, <2>1, <2>4 DEF Expected, Before
  <2>5. CASE h[1] < line /\ h[2] = 1 /\ h[1] = old
    <3>1. handle'[h] = "fini"
      BY <1>2, <1>3, <1>4, <1>5, <1>6, <2>1, <2>5
    <3>2. program'[h[1]] = kind /\ member'[kind] = line /\ h[1] # line /\ h[1] < line'
      BY <1>1, <1>2, <1>3, <2>1, <2>5
    <3>3. kind # "use" /\ ~LastClient(h[1])'
      BY <1>1, <1>9, <2>1, <3>2 DEF Kinds, LastClient
    <3> QED  BY <1>1, <1>2, <2>1, <2>5, <3>1, <3>2, <3>3 DEF Expected, Before
  <2>6. CASE h[1] < line /\ h[2] = 1 /\ h[1] # old
    <3>1. handle'[h] = handle[h]
      BY <1>4, <1>5, <1>6, <2>1, <2>6
    <3>2. /\ h[1] \in 1 .. line - 1 /\ h[1] \in 1 .. line' - 1
          /\ program'[h[1]] = program[h[1]]
      BY <1>1, <1>2, <2>1, <2>6
    <3>3. \A k \in Kinds : member'[k] = IF k = kind THEN line ELSE member[k]
      BY <1>1, <1>3
    <3>4. member'[program[h[1]]] = h[1] <=> member[program[h[1]]] = h[1]
      BY <1>1, <1>2, <1>3, <2>1, <2>6, <3>2, <3>3 DEF IInv, MemberInv, old, kind
    <3>5. LastClient(h[1])' <=> LastClient(h[1])
      BY <1>1, <1>2, <1>9, <2>1, <2>6, <3>2 DEF IInv, MemberInv, old, kind
    <3>6. ~(h[1] > line) /\ h[1] # line /\ ~(h[1] > line') /\ h[1] # line'
      BY <1>1, <1>2, <3>2
    <3>7. Expected(h)' = Expected(h)
      BY <2>6, <3>2, <3>4, <3>5, <3>6 DEF Expected
    <3> QED  BY <2>1, <3>1, <3>7
  <2> QED  BY <1>2, <2>1, <2>2, <2>3, <2>4, <2>5, <2>6
<1> QED  BY <1>7, <1>8, <1>10, <1>11 DEF IInv, HandleInv

(* What is destroyed while the node exists is finalised, afterwards refused. *)
LEMMA ResetKeepsIInv ==
  ASSUME IInv, NEW kind \in Kinds, member[kind] # 0, Reset(kind), phase = "leaving",
         node # "none", kind = "client" <=> node = "fini"
  PROVE  IInv'
<1> DEFINE old == member[kind]
<1>1. /\ UNCHANGED <<program, phase, line, made, context, node>>
      /\ member' = [member EXCEPT ![kind] = 0] /\ Destroy(old)
  BY DEF Reset
<1>2. /\ line \in Nat \ {0} /\ Len(program) \in Nat /\ MaxLines \in Nat /\ Len(program) <= MaxLines
      /\ line <= Len(program) + 1
  BY ProgramTyped DEF IInv, NodeTypeInv
<1>3. /\ member \in [Kinds -> Nat] /\ \A k \in Kinds : member[k] < line
      /\ old \in 1 .. line - 1 /\ program[old] = kind
  BY <1>2 DEF IInv, NodeTypeInv, MemberInv
<1>4. <<old, 1>> \in Handles
  BY <1>2, <1>3 DEF Handles
<1>5. handle' = [handle EXCEPT ![<<old, 1>>] = IF kind = "client" THEN "refused" ELSE "fini"]
  BY <1>1 DEF Destroy, IInv, NodeTypeInv
<1>6. handle \in [Handles -> States]
  BY DEF IInv, NodeTypeInv
<1> HIDE DEF old
<1>7. NodeTypeInv'
  <2>1. member' \in [Kinds -> Nat] /\ \A k \in Kinds : member'[k] < line'
    BY <1>1, <1>2, <1>3
  <2>2. handle' \in [Handles -> States]
    BY <1>4, <1>5, <1>6 DEF States
  <2> QED  BY <1>1, <2>1, <2>2 DEF IInv, NodeTypeInv
<1>8. PhaseInv'
  BY <1>1 DEF IInv, PhaseInv
<1>9. \A i : LastClient(i)' <=> LastClient(i)
  BY <1>1 DEF LastClient
<1>10. MemberInv'
  <2>1. \A k \in Kinds : member'[k] = IF k = kind THEN 0 ELSE member[k]
    BY <1>1, <1>3
  <2>2. "client" \in Kinds
    BY DEF Kinds
  <2> QED
    BY <1>1, <1>9, <2>1, <2>2 DEF IInv, MemberInv
<1>11. ASSUME NEW h \in Handles PROVE handle'[h] \in Expected(h)'
  <2>1. handle[h] \in Expected(h) /\ h[2] \in {1, 2} /\ h[1] \in Nat /\ h = <<h[1], h[2]>>
    BY <1>2 DEF IInv, HandleInv, Handles
  <2>2. CASE h = <<old, 1>>
    <3>1. handle'[h] = IF kind = "client" THEN "refused" ELSE "fini"
      BY <1>4, <1>5, <1>6, <2>2
    <3>2. h[1] = old /\ h[2] = 1 /\ kind # "use"
      BY <2>2 DEF Kinds
    <3>3. member'[kind] = 0 /\ old # 0 /\ old < line
      BY <1>1, <1>2, <1>3
    <3>4. LastClient(old) <=> kind = "client"
      BY <1>3, <3>3 DEF IInv, MemberInv, LastClient, old
    <3>5. LastClient(h[1])' <=> kind = "client"
      BY <1>9, <3>2, <3>4
    <3>6. /\ program'[h[1]] = kind /\ line' = line /\ h[1] \in Nat /\ line \in Nat /\ h[1] < line
      BY <1>1, <1>2, <1>3, <3>2
    <3> QED
      BY <3>1, <3>2, <3>3, <3>5, <3>6 DEF Expected
  <2>3. CASE h # <<old, 1>>
    <3>1. handle'[h] = handle[h]
      BY <1>4, <1>5, <1>6, <2>1, <2>3
    <3>2. CASE h[2] = 2 \/ h[1] >= line
      BY <1>1, <1>2, <2>1, <3>1, <3>2 DEF Expected, Before
    <3>3. CASE h[2] = 1 /\ h[1] < line
      <4>1. h[1] # old
        BY <2>1, <2>3, <3>3
      <4>2. program[h[1]] \in Kinds \cup {"use"}
        BY <1>2, <2>1, <3>3, ProgramTyped DEF IInv, Handles
      <4>3. program[h[1]] \in Kinds =>
              (member'[program[h[1]]] = h[1] <=> member[program[h[1]]] = h[1])
        BY <1>1, <1>3, <2>1, <4>1 DEF old, Handles
      <4> QED
        BY <1>1, <1>2, <1>9, <2>1, <3>1, <3>3, <4>2, <4>3 DEF Expected, Before
    <3> QED  BY <1>2, <2>1, <3>2, <3>3
  <2> QED  BY <2>2, <2>3
<1> QED  BY <1>7, <1>8, <1>10, <1>11 DEF IInv, HandleInv

(* Every step keeps the invariant. *)
LEMMA StepKeepsIInv == IInv /\ [Next]_vars => IInv'
<1> SUFFICES ASSUME IInv, [Next]_vars PROVE IInv'
  OBVIOUS
<1>1. CASE InitContext \/ ConstructNode \/ LeaveBlock
  BY <1>1, PhaseActionsKeepIInv
<1>2. CASE MyPublisher \/ MySubscription \/ MyService \/ MyClient
  BY <1>2, ConstructKeepsIInv DEF MyPublisher, MySubscription, MyService, MyClient, Kinds
<1>3. CASE Assign
  BY <1>3, AssignKeepsIInv
<1>4. CASE Use
  <2>1. line' = line + 1 \/ UNCHANGED line
    BY <1>4 DEF Use
  <2> QED  BY <1>4, <2>1, UseKeepsIInv, PhaseActionsKeepIInv
<1>5. CASE Leaving
  <2>1. CASE FiniNode \/ NodeDestroyed \/ Shutdown
    BY <2>1, PhaseActionsKeepIInv
  <2>2. CASE ResetMember
    <3>1. \E k \in Kinds : k # "client" /\ member[k] # 0 /\ Reset(k)
      BY <2>2, ResetOrderIs DEF ResetMember, Kinds
    <3> QED  BY <2>2, <3>1, ResetKeepsIInv DEF ResetMember
  <2>3. CASE DestroyMember
    <3>1. PICK k \in Kinds : member[k] # 0 /\ Reset(k)
      BY <2>3 DEF DestroyMember
    <3>2. k = "client" /\ node = "fini" /\ phase = "leaving"
      BY <2>3, <3>1 DEF DestroyMember, IInv, MemberInv
    <3> QED  BY <3>1, <3>2, ResetKeepsIInv
  <2> QED  BY <1>5, <2>1, <2>2, <2>3 DEF Leaving
<1>6. CASE UNCHANGED vars
  <2>1. PhaseInv' /\ (Before' => Before)
    BY <1>6 DEF vars, IInv, PhaseInv, Before
  <2> QED  BY <1>6, <2>1, PhaseStepKeepsIInv DEF vars, IInv, NodeTypeInv, MemberInv
<1> QED  BY <1>1, <1>2, <1>3, <1>4, <1>5, <1>6 DEF Next

(* So it always holds. *)
LEMMA Invariance == Spec => []IInv
BY IInvInitially, StepKeepsIInv, PTL DEF Spec

-----------------------------------------------------------------------------
(* At the end of the process exactly the known handles are left. *)
THEOREM OnlyKnownLeaksAtEnd == Spec => [](phase = "ended" => LeaksAreKnown)
<1>1. IInv => (phase = "ended" => LeaksAreKnown)
  <2> SUFFICES ASSUME IInv, phase = "ended", NEW h \in Handles
               PROVE  handle[h] \in (IF ~Forgotten(h) THEN {"none", "fini"}
                                ELSE IF LastClient(h[1]) THEN {"refused"} ELSE {"init"})
    BY DEF LeaksAreKnown
  <2>1. handle[h] \in Expected(h) /\ h[2] \in {1, 2} /\ h[1] \in Nat \ {0}
        /\ line \in Nat \ {0} /\ line <= Len(program) + 1 /\ Len(program) \in Nat
    BY ProgramTyped DEF IInv, HandleInv, Handles, NodeTypeInv
  <2>2. ~made /\ ~Before /\ \A k \in Kinds : member[k] = 0
    BY DEF IInv, PhaseInv, Before
  <2>3. CASE h[1] >= line
    BY <2>1, <2>2, <2>3 DEF Expected, Forgotten, LastClient
  <2>4. CASE h[1] < line
    <3>1. program[h[1]] \in Kinds \cup {"use"}
      BY <2>1, <2>4, ProgramTyped DEF IInv
    <3> QED
      BY <2>1, <2>2, <2>4, <3>1 DEF Expected, Forgotten, Kind, LastClient
  <2> QED  BY <2>1, <2>3, <2>4
<1> QED  BY <1>1, Invariance, PTL

-----------------------------------------------------------------------------
(* What rcl knows of a handle, if it is not masked. *)
LEMMA RememberedIs ==
  ASSUME IInv, NEW h \in Handles
  PROVE  /\ h[1] \in Nat \ {0} /\ h[1] <= MaxLines /\ h[2] \in {1, 2} /\ h = <<h[1], h[2]>>
         /\ line \in Nat \ {0} /\ Len(program) \in Nat /\ line <= Len(program) + 1
         /\ Remembered[h] =
              IF h[1] > Len(program) \/ h[2] = 2 \/ program[h[1]] = "client"
                 \/ (h[1] = line /\ ~made)
              THEN "none" ELSE handle[h]
         /\ handle[h] \in Expected(h)
BY ProgramTyped DEF IInv, HandleInv, NodeTypeInv, Handles, Remembered, Kind

(* Only an entity that a member other than the client owns is alive. *)
LEMMA LiveIsMember ==
  ASSUME IInv, ~made, NEW h \in Handles, RL!Live(h)
  PROVE  \E k \in Kinds : k # "client" /\ member[k] # 0
<1>1. /\ h[1] <= Len(program) /\ h[2] = 1 /\ program[h[1]] # "client" /\ h[1] # line
      /\ handle[h] = "init" /\ h[1] \in Nat \ {0} /\ handle[h] \in Expected(h)
      /\ Len(program) \in Nat /\ line \in Nat
  BY RememberedIs DEF RL!Live
<1>2. program[h[1]] \in Kinds \cup {"use"}
  BY <1>1, ProgramTyped DEF IInv
<1>3. h[1] < line /\ program[h[1]] # "use" /\ member[program[h[1]]] = h[1]
  BY <1>1, <1>2 DEF Expected
<1> QED  BY <1>1, <1>2, <1>3

(* Whoever leaves lines, entities and handles alone does not change what rcl knows. *)
LEMMA SameRemembered ==
  ASSUME UNCHANGED <<program, line, made, handle>>
  PROVE  UNCHANGED Remembered
BY DEF Remembered, Kind

(* A constructor initialises its entity if it succeeds; otherwise rcl knows of *)
(* nothing that is not forgotten.                                            *)
LEMMA ConstructMapped ==
  ASSUME IInv, NEW kind \in Kinds, NEW count \in {1, 2}, Construct(kind, count)
  PROVE  [RL!LifecycleNext]_RL!lifecycleVars
<1> DEFINE e == <<line, 1>>
<1>1. /\ UNCHANGED <<program, line, member, context, node>> /\ ~made /\ made \in BOOLEAN
      /\ line <= Len(program) /\ program[line] = kind /\ node = "init"
  BY DEF Construct, At, IInv, PhaseInv, NodeTypeInv
<1>2. PICK good \in 0 .. count :
        /\ handle' = [h \in Handles |-> IF h[1] = line /\ h[2] <= good THEN "init" ELSE handle[h]]
        /\ IF good = count THEN made' = TRUE ELSE UNCHANGED made
  BY DEF Construct
<1>3. line \in Nat \ {0} /\ Len(program) \in Nat /\ Len(program) <= MaxLines /\ MaxLines \in Nat
  BY ProgramTyped DEF IInv
<1>4. e \in Handles
  BY <1>1, <1>3 DEF Handles
<1>5. \A h \in Handles : h[1] # line => Remembered'[h] = Remembered[h]
  BY <1>1, <1>2 DEF Remembered, Kind
<1>6. \A h \in Handles : h[1] = line => Remembered[h] = "none"
  BY <1>1 DEF Remembered
<1>7. CASE good = count /\ kind # "client"
  <2>1. \A h \in Handles : h[1] = line => Remembered'[h] = IF h[2] = 2 THEN "none" ELSE "init"
    BY <1>1, <1>2, <1>3, <1>7 DEF Remembered, Kind, Handles
  <2>2. \A h \in Handles : Remembered'[h] = IF h = e THEN "init" ELSE Remembered[h]
    BY <1>3, <1>5, <1>6, <2>1 DEF Handles
  <2>3. Remembered' = [Remembered EXCEPT ![e] = "init"]
    BY <1>4, <2>2 DEF Remembered
  <2>4. RL!InitEntity(e)
    BY <1>1, <1>4, <1>6, <2>3 DEF RL!InitEntity
  <2> QED  BY <1>4, <2>4 DEF RL!LifecycleNext
<1>8. CASE good # count \/ kind = "client"
  <2>1. \A h \in Handles : h[1] = line => Remembered'[h] = "none"
    BY <1>1, <1>2, <1>3, <1>8 DEF Remembered, Kind
  <2>2. Remembered' = Remembered
    BY <1>5, <1>6, <2>1 DEF Remembered
  <2> QED  BY <1>1, <2>2 DEF RL!lifecycleVars
<1> QED  BY <1>7, <1>8

(* The entity that a member gives up is finalised in rcl's order, unless it is *)
(* the client, whose handle rcl is not known to keep.                        *)
LEMMA DestroyMapped ==
  ASSUME IInv, NEW kind \in Kinds, member[kind] # 0, UNCHANGED <<context, node>>,
         \A h \in Handles : Remembered'[h] =
           IF h = <<member[kind], 1>> /\ kind # "client" THEN "fini" ELSE Remembered[h],
         kind # "client" => node = "init"
  PROVE  [RL!LifecycleNext]_RL!lifecycleVars
<1> DEFINE e == <<member[kind], 1>>
<1>1. /\ line \in Nat \ {0} /\ Len(program) \in Nat /\ MaxLines \in Nat /\ Len(program) <= MaxLines
      /\ line <= Len(program) + 1 /\ member[kind] \in Nat /\ member[kind] < line
      /\ program[member[kind]] = kind
  BY ProgramTyped DEF IInv, NodeTypeInv, MemberInv
<1>2. e \in Handles
  BY <1>1 DEF Handles
<1>3. CASE kind = "client"
  <2>1. Remembered' = Remembered
    BY <1>3 DEF Remembered
  <2> QED  BY <2>1 DEF RL!lifecycleVars
<1>4. CASE kind # "client"
  <2>1. handle[e] \in Expected(e) /\ Remembered[e] = handle[e]
    BY <1>1, <1>2, <1>4, RememberedIs
  <2>2. Remembered[e] = "init"
    BY <1>1, <2>1, <1>4 DEF Expected, Kinds
  <2>3. Remembered' = [Remembered EXCEPT ![e] = "fini"]
    BY <1>2, <1>4 DEF Remembered
  <2>4. RL!FiniEntity(e)
    BY <1>4, <2>2, <2>3 DEF RL!FiniEntity, RL!Live
  <2> QED  BY <1>2, <2>4 DEF RL!LifecycleNext
<1> QED  BY <1>3, <1>4

(* An assignment finalises what it replaces, and adds nothing. *)
LEMMA AssignMapped ==
  ASSUME IInv, Assign
  PROVE  [RL!LifecycleNext]_RL!lifecycleVars
<1> DEFINE kind == program[line]
           old == member[kind]
<1>1. /\ UNCHANGED <<program, context, node>> /\ line' = line + 1
      /\ made /\ made' = FALSE /\ line <= Len(program) /\ kind \in Kinds /\ node = "init"
      /\ handle' = IF old = 0 THEN handle ELSE [handle EXCEPT ![<<old, 1>>] = "fini"]
  BY DEF Assign, At, Destroy, IInv, PhaseInv
<1>2. handle \in [Handles -> States] /\ old \in Nat /\ old < line /\ (old # 0 => program[old] = kind)
  BY <1>1 DEF IInv, NodeTypeInv, MemberInv
<1> HIDE DEF kind, old
<1>3. ASSUME NEW h \in Handles
      PROVE  Remembered'[h] =
               IF old # 0 /\ h = <<old, 1>> /\ kind # "client" THEN "fini" ELSE Remembered[h]
  <2>1. /\ h[1] \in Nat \ {0} /\ h = <<h[1], h[2]>> /\ h[2] \in {1, 2}
        /\ line \in Nat /\ Len(program) \in Nat
        /\ Remembered[h] =
             IF h[1] > Len(program) \/ h[2] = 2 \/ program[h[1]] = "client"
                \/ (h[1] = line /\ ~made)
             THEN "none" ELSE handle[h]
        /\ handle[h] \in Expected(h)
    BY RememberedIs
  <2>2. Remembered'[h] =
          IF h[1] > Len(program) \/ h[2] = 2 \/ program[h[1]] = "client" \/ h[1] = line + 1
          THEN "none" ELSE handle'[h]
    BY <1>1, <2>1 DEF Remembered, Kind
  <2>3. h[1] = line + 1 => handle[h] = "none"
    BY <2>1 DEF Expected
  <2>4. handle'[h] = IF old # 0 /\ h = <<old, 1>> THEN "fini" ELSE handle[h]
    BY <1>1, <1>2
  <2> QED
    BY <1>1, <1>2, <2>1, <2>2, <2>3, <2>4
<1>4. CASE old = 0
  <2>1. Remembered' = Remembered
    BY <1>3, <1>4 DEF Remembered
  <2> QED  BY <1>1, <2>1 DEF RL!lifecycleVars
<1>5. CASE old # 0
  BY <1>1, <1>3, <1>5, DestroyMapped DEF old
<1> QED  BY <1>4, <1>5

(* The destructor of the node finalises in rcl's order, but for the client. *)
LEMMA ResetMapped ==
  ASSUME IInv, NEW kind \in Kinds, member[kind] # 0, Reset(kind), ~made,
         kind # "client" => node = "init"
  PROVE  [RL!LifecycleNext]_RL!lifecycleVars
<1> DEFINE old == member[kind]
<1>1. /\ UNCHANGED <<program, line, made, context, node>>
      /\ handle' = [handle EXCEPT ![<<old, 1>>] = IF node = "init" THEN "fini" ELSE "refused"]
  BY DEF Reset, Destroy
<1>2. handle \in [Handles -> States] /\ old \in Nat /\ old < line /\ program[old] = kind
  BY <1>1 DEF IInv, NodeTypeInv, MemberInv
<1> HIDE DEF old
<1>3. ASSUME NEW h \in Handles
      PROVE  Remembered'[h] = IF h = <<old, 1>> /\ kind # "client" THEN "fini" ELSE Remembered[h]
  <2>1. /\ h[1] \in Nat \ {0} /\ h = <<h[1], h[2]>> /\ h[2] \in {1, 2}
        /\ line \in Nat /\ Len(program) \in Nat /\ line <= Len(program) + 1
        /\ Remembered[h] =
             IF h[1] > Len(program) \/ h[2] = 2 \/ program[h[1]] = "client"
                \/ (h[1] = line /\ ~made)
             THEN "none" ELSE handle[h]
    BY RememberedIs
  <2>2. Remembered'[h] =
          IF h[1] > Len(program) \/ h[2] = 2 \/ program[h[1]] = "client" \/ (h[1] = line /\ ~made)
          THEN "none" ELSE handle'[h]
    BY <1>1, <2>1 DEF Remembered, Kind
  <2>3. h # <<old, 1>> => handle'[h] = handle[h]
    BY <1>1, <1>2
  <2>4. h = <<old, 1>> /\ kind # "client" => handle'[h] = "fini"
    BY <1>1, <1>2
  <2> QED
    BY <1>2, <2>1, <2>2, <2>3, <2>4
<1> QED
  BY <1>1, <1>3, DestroyMapped DEF old

(* Every other step stutters, or initialises or ends the node or the context. *)
LEMMA StepMapped ==
  ASSUME IInv, Next
  PROVE  [RL!LifecycleNext]_RL!lifecycleVars
<1>1. CASE InitContext
  BY <1>1, SameRemembered
     DEF InitContext, IInv, PhaseInv, RL!LifecycleNext, RL!InitContext, RL!lifecycleVars
<1>2. CASE ConstructNode
  BY <1>2, SameRemembered
     DEF ConstructNode, IInv, PhaseInv, RL!LifecycleNext, RL!InitNode, RL!lifecycleVars
<1>3. CASE MyPublisher \/ MySubscription \/ MyService \/ MyClient
  BY <1>3, ConstructMapped DEF MyPublisher, MySubscription, MyService, MyClient, Kinds
<1>4. CASE Assign
  BY <1>4, AssignMapped
<1>5. CASE Use
  <2>1. /\ UNCHANGED <<program, made, context, node, handle>> /\ phase = "block"
        /\ program[line] = "use" /\ (line' = line + 1 \/ line' = line) /\ line <= Len(program)
    BY <1>5 DEF Use, At
  <2>2. ~made
    BY <2>1 DEF IInv, PhaseInv, Kinds
  <2>3. ASSUME NEW h \in Handles PROVE Remembered'[h] = Remembered[h]
    <3>1. /\ h[1] \in Nat \ {0} /\ line \in Nat /\ Len(program) \in Nat
          /\ Remembered[h] =
               IF h[1] > Len(program) \/ h[2] = 2 \/ program[h[1]] = "client"
                  \/ (h[1] = line /\ ~made)
               THEN "none" ELSE handle[h]
          /\ handle[h] \in Expected(h)
      BY RememberedIs
    <3>2. Remembered'[h] =
            IF h[1] > Len(program) \/ h[2] = 2 \/ program[h[1]] = "client" \/ h[1] = line'
            THEN "none" ELSE handle[h]
      BY <2>1, <2>2, <3>1 DEF Remembered, Kind
    <3>3. h[1] >= line => handle[h] = "none"
      BY <2>1, <2>2, <3>1 DEF Expected, Before
    <3> QED  BY <2>1, <2>2, <3>1, <3>2, <3>3
  <2>4. Remembered' = Remembered
    BY <2>3 DEF Remembered
  <2> QED  BY <2>1, <2>4 DEF RL!lifecycleVars
<1>6. CASE LeaveBlock \/ NodeDestroyed
  BY <1>6, SameRemembered DEF LeaveBlock, NodeDestroyed, RL!lifecycleVars
<1>7. CASE ResetMember
  <2>1. \E k \in Kinds : k # "client" /\ member[k] # 0 /\ Reset(k)
    BY <1>7, ResetOrderIs DEF ResetMember, Kinds
  <2>2. ~made /\ node = "init"
    BY <1>7 DEF ResetMember, IInv, PhaseInv
  <2> QED  BY <2>1, <2>2, ResetMapped
<1>8. CASE DestroyMember
  <2>1. PICK k \in Kinds : member[k] # 0 /\ Reset(k)
    BY <1>8 DEF DestroyMember
  <2>2. k = "client" /\ ~made
    BY <1>8, <2>1 DEF DestroyMember, IInv, MemberInv, PhaseInv
  <2> QED  BY <2>1, <2>2, ResetMapped
<1>9. CASE FiniNode
  <2>1. ~made /\ \A k \in Kinds : k # "client" => member[k] = 0
    BY <1>9, ResetOrderIs DEF FiniNode, Kinds, IInv, PhaseInv
  <2>2. ~ \E h \in Handles : RL!Live(h)
    BY <2>1, LiveIsMember
  <2> QED
    BY <1>9, <2>2, SameRemembered DEF FiniNode, RL!LifecycleNext, RL!FiniNode
<1>10. CASE Shutdown
  <2>1. ~made /\ context = "init" /\ node # "init" /\ \A k \in Kinds : member[k] = 0
    BY <1>10 DEF Shutdown, IInv, PhaseInv
  <2>2. ~ \E h \in Handles : RL!Live(h)
    BY <2>1, LiveIsMember
  <2> QED
    BY <1>10, <2>1, <2>2, SameRemembered
       DEF Shutdown, RL!LifecycleNext, RL!ShutdownContext, RL!lifecycleVars
<1> QED
  BY <1>1, <1>2, <1>3, <1>4, <1>5, <1>6, <1>7, <1>8, <1>9, <1>10 DEF Next, Leaving

(* The node follows the order rcl demands, as far as it remembers. *)
THEOREM OldNodeFollowsRclLifecycle == Spec => ImplementsRclLifecycle
<1>1. Init => RL!LifecycleInit
  BY DEF Init, RL!LifecycleInit, Remembered
<1>2. IInv /\ [Next]_vars => [RL!LifecycleNext]_RL!lifecycleVars
  <2>1. UNCHANGED vars => UNCHANGED RL!lifecycleVars
    BY SameRemembered DEF vars, RL!lifecycleVars
  <2> QED  BY <2>1, StepMapped
<1> QED  BY <1>1, <1>2, Invariance, PTL DEF Spec, ImplementsRclLifecycle, RL!LifecycleSpec
================================================================================
