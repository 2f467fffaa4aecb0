---------------------------- MODULE MyExecutorProofs ----------------------------
(***************************************************************************)
(* What is proved of MyExecutor for every set of nodes and entities, every *)
(* queue depth and every length of the lists.                              *)
(***************************************************************************)
EXTENDS MyExecutorBypass, SequenceTheorems, TLAPS

-----------------------------------------------------------------------------
(* Lemmas about the operators of the module.                                 *)

(* A node creates an entity of one of the three kinds. *)
LEMMA CreateEntityCreates ==
  ASSUME NEW n \in Nodes, CreateEntity(n)
  PROVE  \E k \in Kinds, e \in Entities : Create(n, k, e)
  BY DEF CreateEntity, createSubscription, createService, createClient, Kinds, Entities

(* The getters copy the node's lists. *)
LEMMA PairsAreLists == \A n \in Nodes, k \in Kinds : Pairs(n)[k] = created[n][k]
  BY DEF Pairs, getSubscriptions, getServices, getClients, Kinds

(* Each of the three loops is for a kind. *)
LEMMA DispatchOrderIsKinds ==
  /\ Len(DispatchOrder) = 3
  /\ \A l \in 1 .. 3 : DispatchOrder[l] \in Kinds
  BY DEF DispatchOrder, Kinds

(* Empty lists are lists of anything. *)
LEMMA EmptyListsType == \A S : EmptyLists \in [Kinds -> Seq(S)]
<1>1. \A S : <<>> \in Seq(S)
  BY EmptySeq
<1> QED  BY <1>1 DEF EmptyLists

(* Refilling a cleared array yields the longest prefix of the handles that *)
(* fits into the array.                                                    *)
LEMMA RefillCleared ==
  ASSUME NEW k \in Kinds, NEW handles \in Seq(Entities), NEW capacity \in Nat
  PROVE  LET array == AddAll(Cleared[k], handles, capacity) IN
           /\ array \in Seq(Entities)
           /\ Len(array) <= Len(handles)
           /\ Len(array) <= capacity
           /\ \A i \in 1 .. Len(array) : array[i] = handles[i]
<1> DEFINE m == IF Len(handles) <= capacity THEN Len(handles) ELSE capacity
<1>1. Cleared[k] = <<>>
  BY DEF Cleared, EmptyLists
<1>2. m \in 0 .. Len(handles) /\ m <= capacity
  OBVIOUS
<1>3. /\ SubSeq(handles, 1, m) \in Seq(Entities)
      /\ Len(SubSeq(handles, 1, m)) = m
      /\ \A i \in 1 .. m : SubSeq(handles, 1, m)[i] = handles[i]
  BY <1>2
<1>4. AddAll(Cleared[k], handles, capacity) = <<>> \o SubSeq(handles, 1, m)
  BY <1>1 DEF AddAll
<1>5. <<>> \o SubSeq(handles, 1, m) = SubSeq(handles, 1, m)
  BY <1>3
<1> QED  BY <1>2, <1>3, <1>4, <1>5

(* What rcl_wait leaves of an array: every slot is kept or blanked. *)
LEMMA OnlyKeepsOrBlanks ==
  ASSUME NEW ready, slots \in [Kinds -> Seq(Entities \cup {NULL})]
  PROVE  /\ Only(ready) \in [Kinds -> Seq(Entities \cup {NULL})]
         /\ \A k \in Kinds :
              /\ Len(Only(ready)[k]) = Len(slots[k])
              /\ \A i \in 1 .. Len(slots[k]) : Only(ready)[k][i] \in {slots[k][i], NULL}
<1> SUFFICES ASSUME NEW k \in Kinds
             PROVE  /\ Only(ready)[k] \in Seq(Entities \cup {NULL})
                    /\ Len(Only(ready)[k]) = Len(slots[k])
                    /\ \A i \in 1 .. Len(slots[k]) : Only(ready)[k][i] \in {slots[k][i], NULL}
  BY DEF Only
<1> DEFINE a == [i \in 1 .. Len(slots[k]) |-> IF slots[k][i] \in ready THEN slots[k][i] ELSE NULL]
<1>1. Only(ready)[k] = a
  BY DEF Only
<1>2. Len(slots[k]) \in Nat /\ \A i \in 1 .. Len(slots[k]) : slots[k][i] \in Entities \cup {NULL}
  OBVIOUS
<1>3. a \in Seq(Entities \cup {NULL}) /\ Len(a) = Len(slots[k])
  BY <1>2
<1> QED  BY <1>1, <1>3

-----------------------------------------------------------------------------
(* No step of the executor or of the middleware breaks the types.            *)
LEMMA TypeInvariant == Init /\ [][Next]_vars => []TypeOK
<1>1. Init => TypeOK
  <2> SUFFICES ASSUME Init PROVE TypeOK
    OBVIOUS
  <2>1. /\ created \in [Nodes -> [Kinds -> Seq(Entities)]]
        /\ registered \in [Kinds -> Seq(Entities)]
        /\ slots \in [Kinds -> Seq(Entities \cup {NULL})]
    BY EmptyListsType DEF Init
  <2>2. size \in [Kinds -> Nat] /\ pending \in [Entities -> 0 .. QueueDepth]
    BY ConstantsAssumption DEF Init
  <2>3. valid \in BOOLEAN /\ pc \in {"app", "waiting", "dispatching", "terminated"}
    BY DEF Init
  <2>4. loop \in 1 .. 3 /\ index \in Nat \ {0}
    BY DEF Init
  <2> QED  BY <2>1, <2>2, <2>3, <2>4 DEF TypeOK
<1>2. TypeOK /\ [Next]_vars => TypeOK'
  <2> SUFFICES ASSUME TypeOK, [Next]_vars PROVE TypeOK'
    OBVIOUS
  <2> USE DEF TypeOK
  <2>1. ASSUME NEW n \in Nodes, CreateEntity(n) PROVE TypeOK'
    <3> PICK k \in Kinds, e \in Entities : Create(n, k, e)
      BY <2>1, CreateEntityCreates
    <3>1. created' \in [Nodes -> [Kinds -> Seq(Entities)]]
      <4> DEFINE longer == Append(created[n][k], e)
      <4>1. longer \in Seq(Entities)
        OBVIOUS
      <4>2. \/ created' = [created EXCEPT ![n][k] = longer]
            \/ UNCHANGED created
        BY DEF Create
      <4> HIDE DEF longer
      <4>3. [created EXCEPT ![n][k] = longer] \in [Nodes -> [Kinds -> Seq(Entities)]]
        BY <4>1
      <4> QED  BY <4>2, <4>3
    <3> QED  BY <3>1 DEF Create, Throw, waitSet, cursor
  <2>2. ASSUME NEW n \in Nodes, AddMyNode(n) PROVE TypeOK'
    <3>1. registered' \in [Kinds -> Seq(Entities)]
      <4>1. \A k \in Kinds : registered[k] \o created[n][k] \in Seq(Entities)
        OBVIOUS
      <4> QED  BY <2>2, <4>1, PairsAreLists DEF AddMyNode
    <3>2. size' \in [Kinds -> Nat]
      <4>1. \A k \in Kinds : Len(registered'[k]) \in Nat
        BY <3>1
      <4>2. size' = [k \in Kinds |-> Len(registered'[k])] \/ size' = size
        BY <2>2 DEF AddMyNode, waitSet
      <4> QED  BY <4>1, <4>2
    <3>3. slots' \in [Kinds -> Seq(Entities \cup {NULL})]
      BY <2>2, EmptyListsType DEF AddMyNode, waitSet
    <3> QED  BY <2>2, <3>1, <3>2, <3>3 DEF AddMyNode, Throw, waitSet, cursor
  <2>3. ASSUME SpinBegin PROVE TypeOK'
    <3>1. slots' \in [Kinds -> Seq(Entities \cup {NULL})]
      <4>1. \A k \in Kinds :
              AddAll(Cleared[k], registered[k], size[k]) \in Seq(Entities \cup {NULL})
        <5> SUFFICES ASSUME NEW k \in Kinds
                     PROVE  AddAll(Cleared[k], registered[k], size[k]) \in Seq(Entities \cup {NULL})
          OBVIOUS
        <5>1. AddAll(Cleared[k], registered[k], size[k]) \in Seq(Entities)
          BY RefillCleared
        <5> QED  BY <5>1, SeqMonotonic
      <4> QED  BY <2>3, <4>1 DEF SpinBegin
    <3> QED  BY <2>3, <3>1 DEF SpinBegin, Throw, cursor
  <2>4. ASSUME Wait PROVE TypeOK'
    <3>1. slots' \in [Kinds -> Seq(Entities \cup {NULL})]
      <4>1. \A ready : Only(ready) \in [Kinds -> Seq(Entities \cup {NULL})]
        BY OnlyKeepsOrBlanks
      <4> QED  BY <2>4, <4>1 DEF Wait, WaitTimeout, WaitReady, WaitError, waitSet
    <3> QED
      BY <2>4, <3>1 DEF Wait, WaitTimeout, WaitReady, WaitError, waitSet, cursor
  <2>5. ASSUME Dispatch PROVE TypeOK'
    <3>1. \A l \in 1 .. 3 : DispatchOrder[l] \in Kinds
      BY DispatchOrderIsKinds
    <3>2. CASE SkipEntry
      BY <3>2 DEF SkipEntry, HasEntry, waitSet
    <3>3. CASE InvokeCallback
      <4>1. pending' \in [Entities -> 0 .. QueueDepth]
        <5> SUFFICES ASSUME NEW e PROVE Taken(e) \in [Entities -> 0 .. QueueDepth]
          BY <3>3 DEF InvokeCallback
        <5>1. \A p \in 0 .. QueueDepth : (IF p > 0 THEN p - 1 ELSE p) \in 0 .. QueueDepth
          BY ConstantsAssumption
        <5> QED  BY <5>1 DEF Taken
      <4> QED  BY <3>3, <4>1 DEF InvokeCallback, HasEntry, waitSet
    <3>4. CASE BadRead
      BY <3>4 DEF BadRead, waitSet, cursor
    <3>5. CASE NextLoop
      <4>1. loop' \in 1 .. 3
        BY <3>5, DispatchOrderIsKinds DEF NextLoop
      <4>2. index' = 1 /\ pc' \in {"app", "dispatching"}
        BY <3>5 DEF NextLoop
      <4> QED  BY <3>5, <4>1, <4>2 DEF NextLoop, waitSet
    <3> QED  BY <2>5, <3>2, <3>3, <3>4, <3>5 DEF Dispatch
  <2>6. ASSUME NEW e \in Entities, Arrive(e) PROVE TypeOK'
    BY <2>6, ConstantsAssumption DEF Arrive, waitSet, cursor
  <2>7. ASSUME UNCHANGED vars PROVE TypeOK'
    BY <2>7 DEF vars, waitSet, cursor
  <2> QED
    BY <2>1, <2>2, <2>3, <2>4, <2>5, <2>6, <2>7 DEF Next, Terminated
<1> QED  BY <1>1, <1>2, PTL

(* Every reachable state is well typed: in particular the middleware queues  *)
(* never run below empty or above their depth, and the loop cursor of spin   *)
(* never leaves the three loops.                                             *)
THEOREM TypeCorrect == Spec => []TypeOK
BY TypeInvariant, PTL DEF Spec

-----------------------------------------------------------------------------
(* A slot always belongs to the list entry with its index: this holds whether *)
(* or not the application survives a failed addMyNode.  It is inductive with  *)
(* the type invariant, because spin refills a cleared array with a prefix of  *)
(* the list and the lists cannot change before the dispatch loops end.        *)
THEOREM SlotsMatchEntries == Spec => []HandleMatchesEntry
<1>1. Init => HandleMatchesEntry
  BY DEF Init, HandleMatchesEntry
<1>2. TypeOK /\ HandleMatchesEntry /\ [Next]_vars => HandleMatchesEntry'
  <2> SUFFICES ASSUME TypeOK, HandleMatchesEntry, [Next]_vars PROVE HandleMatchesEntry'
    OBVIOUS
  <2>1. ASSUME NEW n \in Nodes, CreateEntity(n) PROVE HandleMatchesEntry'
    BY <2>1, CreateEntityCreates DEF Create, Throw, HandleMatchesEntry
  <2>2. ASSUME NEW n \in Nodes, AddMyNode(n) PROVE HandleMatchesEntry'
    BY <2>2 DEF AddMyNode, Throw, HandleMatchesEntry
  <2>3. ASSUME SpinBegin PROVE HandleMatchesEntry'
    <3>1. CASE ~valid
      BY <2>3, <3>1 DEF SpinBegin, Throw, HandleMatchesEntry
    <3>2. CASE valid
      <4> SUFFICES ASSUME NEW k \in Kinds, NEW i \in 1 .. Len(slots'[k])
                   PROVE  i <= Len(registered'[k]) /\ slots'[k][i] = registered'[k][i]
        BY DEF HandleMatchesEntry
      <4>1. /\ slots'[k] = AddAll(Cleared[k], registered[k], size[k])
            /\ registered' = registered
        BY <2>3, <3>2 DEF SpinBegin
      <4>2. registered[k] \in Seq(Entities) /\ size[k] \in Nat
        BY DEF TypeOK
      <4> DEFINE array == AddAll(Cleared[k], registered[k], size[k])
      <4>3. /\ array \in Seq(Entities)
            /\ Len(array) <= Len(registered[k])
            /\ \A j \in 1 .. Len(array) : array[j] = registered[k][j]
        BY <4>2, RefillCleared
      <4> HIDE DEF array
      <4>4. slots'[k] = array
        BY <4>1 DEF array
      <4> QED  BY <4>1, <4>2, <4>3, <4>4
    <3> QED  BY <3>1, <3>2 DEF TypeOK
  <2>4. ASSUME Wait PROVE HandleMatchesEntry'
    <3>1. pc = "waiting" /\ registered' = registered
      BY <2>4 DEF Wait, WaitTimeout, WaitReady, WaitError
    <3>2. \/ UNCHANGED slots
          \/ \E ready : slots' = Only(ready)
      BY <2>4 DEF Wait, WaitTimeout, WaitReady, WaitError, waitSet
    <3>3. CASE UNCHANGED slots
      BY <3>1, <3>3 DEF HandleMatchesEntry
    <3>4. ASSUME NEW ready, slots' = Only(ready) PROVE HandleMatchesEntry'
      <4> SUFFICES ASSUME NEW k \in Kinds, NEW i \in 1 .. Len(slots'[k]), slots'[k][i] # NULL
                   PROVE  i <= Len(registered[k]) /\ slots'[k][i] = registered[k][i]
        BY <3>1 DEF HandleMatchesEntry
      <4>1. i \in 1 .. Len(slots[k]) /\ slots'[k][i] = slots[k][i]
        BY <3>4, OnlyKeepsOrBlanks DEF TypeOK
      <4> QED  BY <3>1, <4>1 DEF HandleMatchesEntry
    <3> QED  BY <3>2, <3>3, <3>4
  <2>5. ASSUME Dispatch PROVE HandleMatchesEntry'
    BY <2>5 DEF Dispatch, SkipEntry, InvokeCallback, BadRead, NextLoop, HasEntry, waitSet,
                HandleMatchesEntry
  <2>6. ASSUME NEW e \in Entities, Arrive(e) PROVE HandleMatchesEntry'
    BY <2>6 DEF Arrive, waitSet, HandleMatchesEntry
  <2>7. ASSUME UNCHANGED vars PROVE HandleMatchesEntry'
    BY <2>7 DEF vars, waitSet, HandleMatchesEntry
  <2> QED
    BY <2>1, <2>2, <2>3, <2>4, <2>5, <2>6, <2>7 DEF Next, Terminated
<1> QED  BY <1>1, <1>2, TypeCorrect, PTL DEF Spec

-----------------------------------------------------------------------------
(* While the process lives, the wait set has exactly one slot per list entry, *)
(* and it is initialised before anything is read from it.  A failed addMyNode *)
(* breaks the first part, so its exception must end the process.              *)
LEMMA SizedToListsInvariant ==
  ASSUME AppCatches = FALSE PROVE Init /\ [][Next]_vars => []SizedToLists
<1>1. Init => SizedToLists
  BY DEF Init, SizedToLists
<1>2. TypeOK /\ SizedToLists /\ [Next]_vars => SizedToLists'
  <2> SUFFICES ASSUME TypeOK, SizedToLists, [Next]_vars PROVE SizedToLists'
    OBVIOUS
  <2>1. ASSUME NEW n \in Nodes, CreateEntity(n) PROVE SizedToLists'
    BY <2>1, CreateEntityCreates DEF Create, Throw, waitSet, SizedToLists
  <2>2. ASSUME NEW n \in Nodes, AddMyNode(n) PROVE SizedToLists'
    <3>1. CASE UNCHANGED pc
      BY <2>2, <3>1 DEF AddMyNode, Throw, SizedToLists
    <3>2. CASE pc' = "terminated"
      BY <3>2 DEF SizedToLists
    <3> QED  BY <2>2, <3>1, <3>2 DEF AddMyNode, Throw
  <2>3. ASSUME SpinBegin PROVE SizedToLists'
    BY <2>3 DEF SpinBegin, Throw, SizedToLists
  <2>4. ASSUME Wait PROVE SizedToLists'
    BY <2>4 DEF Wait, WaitTimeout, WaitReady, WaitError, waitSet, SizedToLists
  <2>5. ASSUME Dispatch PROVE SizedToLists'
    BY <2>5 DEF Dispatch, SkipEntry, InvokeCallback, BadRead, NextLoop, HasEntry, waitSet,
                SizedToLists
  <2>6. ASSUME NEW e \in Entities, Arrive(e) PROVE SizedToLists'
    BY <2>6 DEF Arrive, waitSet, SizedToLists
  <2>7. ASSUME UNCHANGED vars PROVE SizedToLists'
    BY <2>7 DEF vars, waitSet, SizedToLists
  <2> QED
    BY <2>1, <2>2, <2>3, <2>4, <2>5, <2>6, <2>7 DEF Next, Terminated
<1> QED  BY <1>1, <1>2, TypeInvariant, PTL

(* With as many slots as entries, an index into the entries is one into the  *)
(* slots.                                                                    *)
LEMMA SizedMeansInBounds == TypeOK /\ SizedToLists => NoOutOfBoundsRead
<1> SUFFICES ASSUME TypeOK, SizedToLists, HasEntry PROVE InBounds
  BY DEF NoOutOfBoundsRead
<1>1. DispatchOrder[loop] \in Kinds
  BY DispatchOrderIsKinds DEF TypeOK
<1> QED  BY <1>1 DEF SizedToLists, HasEntry, InBounds, List, Capacity

(* No dispatch loop reads beyond the wait set's arrays, provided the          *)
(* exceptions of the library end the process.                                 *)
THEOREM ReadsInBounds == ASSUME AppCatches = FALSE PROVE Spec => []NoOutOfBoundsRead
<1>1. Spec => []SizedToLists
  BY SizedToListsInvariant, PTL DEF Spec
<1> QED  BY <1>1, TypeCorrect, SizedMeansInBounds, PTL

-----------------------------------------------------------------------------
(* The executor implements the safety part of EventDispatch: it delivers only *)
(* data of entities it was given, the set of those entities never changes     *)
(* once it is not empty, and nothing is delivered after the process ended.    *)

(* Appending leaves the entries before where they are. *)
LEMMA PrefixOfConcat ==
  \A s, t \in Seq(Entities) : \A i \in 1 .. Len(s) : (s \o t)[i] = s[i]
<1> TAKE s, t \in Seq(Entities)
<1> TAKE i \in 1 .. Len(s)
<1>1. Len(s) \in Nat /\ Len(t) \in Nat
  OBVIOUS
<1>2. i \in 1 .. Len(s) + Len(t) /\ i <= Len(s)
  BY <1>1
<1> QED  BY <1>2, ConcatProperties

(* What is watched depends on the lists and the wait set's size alone. *)
LEMMA WatchedUnchanged ==
  ASSUME UNCHANGED <<registered, valid, size>> PROVE UNCHANGED Watched
  BY DEF Watched

(* Appending to the lists does not change what fits into the wait set. *)
LEMMA AppendKeepsWatched ==
  ASSUME TypeOK, SizedToLists, pc = "app", valid, NEW n \in Nodes,
         registered' = [k \in Kinds |-> registered[k] \o created[n][k]],
         UNCHANGED <<valid, size>>
  PROVE  UNCHANGED Watched
<1>1. ASSUME NEW k \in Kinds, NEW i \in 1 .. size[k]
      PROVE  registered'[k][i] = registered[k][i]
  <2>1. /\ registered[k] \in Seq(Entities)
        /\ created[n][k] \in Seq(Entities)
        /\ size[k] = Len(registered[k])
    BY DEF TypeOK, SizedToLists
  <2>2. registered'[k] = registered[k] \o created[n][k]
    OBVIOUS
  <2> QED  BY <2>1, <2>2, PrefixOfConcat
<1>2. valid /\ valid' /\ size' = size
  OBVIOUS
<1>3. \A e \in Entities, k \in Kinds :
        (\E i \in 1 .. size'[k] : registered'[k][i] = e)
          <=> (\E i \in 1 .. size[k] : registered[k][i] = e)
  BY <1>1, <1>2
<1>4. \A e \in Entities : e \in Watched' <=> e \in Watched
  BY <1>2, <1>3, Zenon DEF Watched
<1>5. Watched \subseteq Entities /\ Watched' \subseteq Entities
  BY DEF Watched
<1> QED  BY <1>4, <1>5

(* If the library's exceptions end the process, the executor is an abstract  *)
(* dispatcher: every step it takes, whatever rcl_wait returns, is one of     *)
(* EventDispatch, or a stutter.                                              *)
THEOREM ImplementsDispatchSafety == ASSUME AppCatches = FALSE PROVE Spec => ImplementsEventDispatch
<1>1. Init => ED!Init
  BY DEF Init, ED!Init, Watched
<1>2. TypeOK /\ TypeOK' /\ SizedToLists /\ SizedToLists' /\ [Next]_vars => [ED!Next]_ED!vars
  <2> SUFFICES ASSUME TypeOK, TypeOK', SizedToLists, SizedToLists', [Next]_vars
               PROVE  [ED!Next]_ED!vars
    OBVIOUS
  <2>0. ASSUME UNCHANGED Watched, UNCHANGED pending, pc' # "terminated" \/ pc = "terminated",
               pc # "terminated" \/ pc' = "terminated"
        PROVE  UNCHANGED ED!vars
    BY <2>0 DEF ED!vars
  <2>1. ASSUME UNCHANGED Watched, UNCHANGED pending, pc # "terminated", pc' = "terminated"
        PROVE  ED!Halt
    BY <2>1 DEF ED!Halt
  <2>2. ASSUME NEW n \in Nodes, CreateEntity(n) PROVE [ED!Next]_ED!vars
    <3>1. UNCHANGED Watched /\ UNCHANGED pending
      BY <2>2, CreateEntityCreates, WatchedUnchanged DEF Create, waitSet
    <3>2. pc = "app" /\ pc' \in {"app", "terminated"}
      BY <2>2, CreateEntityCreates DEF Create, Throw
    <3> QED  BY <2>0, <2>1, <3>1, <3>2 DEF ED!Next
  <2>3. ASSUME NEW n \in Nodes, AddMyNode(n) PROVE [ED!Next]_ED!vars
    <3>0. pc = "app" /\ UNCHANGED pending
      BY <2>3 DEF AddMyNode
    <3>1. CASE ~valid /\ valid' /\ pc' = pc
      <4>1. Watched = {} /\ Watched' \subseteq Entities
        BY <3>0, <3>1 DEF Watched
      <4> QED  BY <3>0, <3>1, <4>1 DEF ED!Next, ED!Watch
    <3>2. CASE UNCHANGED waitSet /\ pc' = "terminated"
      <4>1. UNCHANGED Watched
        <5>1. CASE valid
          <6>1. registered' = [k \in Kinds |-> registered[k] \o created[n][k]]
            BY <2>3, PairsAreLists DEF AddMyNode
          <6> QED  BY <3>0, <3>2, <5>1, <6>1, AppendKeepsWatched DEF waitSet
        <5>2. CASE ~valid
          BY <3>2, <5>2 DEF Watched, waitSet
        <5> QED  BY <5>1, <5>2
      <4> QED  BY <2>1, <3>0, <3>2, <4>1 DEF ED!Next
    <3> QED  BY <2>3, <3>1, <3>2 DEF AddMyNode, Throw
  <2>4. ASSUME SpinBegin PROVE [ED!Next]_ED!vars
    <3>1. UNCHANGED Watched /\ UNCHANGED pending
      BY <2>4, WatchedUnchanged DEF SpinBegin
    <3>2. pc = "app" /\ pc' \in {"waiting", "terminated"}
      BY <2>4 DEF SpinBegin, Throw
    <3> QED  BY <2>0, <2>1, <3>1, <3>2 DEF ED!Next
  <2>5. ASSUME Wait PROVE [ED!Next]_ED!vars
    <3>1. UNCHANGED Watched /\ UNCHANGED pending
      BY <2>5, WatchedUnchanged DEF Wait, WaitTimeout, WaitReady, WaitError, waitSet
    <3>2. pc = "waiting" /\ pc' \in {"app", "dispatching"}
      BY <2>5 DEF Wait, WaitTimeout, WaitReady, WaitError
    <3> QED  BY <2>0, <3>1, <3>2
  <2>6. ASSUME InvokeCallback PROVE [ED!Next]_ED!vars
    <3> DEFINE e == List[index]
    <3>1. e \in Watched /\ e \in Entities
      <4>1. DispatchOrder[loop] \in Kinds
        BY DispatchOrderIsKinds DEF TypeOK
      <4>2. valid /\ index \in 1 .. size[DispatchOrder[loop]]
        BY <2>6, <4>1 DEF InvokeCallback, HasEntry, SizedToLists, List, TypeOK
      <4>3. e \in Entities
        BY <2>6, <4>1 DEF InvokeCallback, HasEntry, List, TypeOK
      <4> QED  BY <4>1, <4>2, <4>3 DEF Watched, List
    <3>2. /\ UNCHANGED Watched
          /\ pc = "dispatching" /\ UNCHANGED pc
          /\ pending' = Taken(e)
      BY <2>6, WatchedUnchanged DEF InvokeCallback, HasEntry, waitSet
    <3> HIDE DEF e
    <3>3. CASE pending[e] > 0
      <4>1. pending' = [pending EXCEPT ![e] = @ - 1]
        BY <3>2, <3>3 DEF Taken
      <4> QED  BY <3>1, <3>2, <3>3, <4>1 DEF ED!Next, ED!Deliver, ED!CanDeliver
    <3>4. CASE ~(pending[e] > 0)
      <4>1. pending' = pending
        BY <3>1, <3>2, <3>4 DEF Taken, TypeOK
      <4> QED  BY <2>0, <3>2, <4>1
    <3> QED  BY <3>3, <3>4
  <2>7. ASSUME SkipEntry \/ BadRead \/ NextLoop PROVE [ED!Next]_ED!vars
    <3>1. UNCHANGED Watched /\ UNCHANGED pending
      BY <2>7, WatchedUnchanged DEF SkipEntry, BadRead, NextLoop, waitSet
    <3>2. pc = "dispatching"
      BY <2>7 DEF SkipEntry, BadRead, NextLoop, HasEntry
    <3> QED  BY <2>0, <2>1, <3>1, <3>2 DEF ED!Next
  <2>8. ASSUME NEW e \in Entities, Arrive(e) PROVE [ED!Next]_ED!vars
    <3>1. UNCHANGED Watched
      BY <2>8, WatchedUnchanged DEF Arrive, waitSet
    <3> QED  BY <2>8, <3>1 DEF Arrive, ED!Next, ED!Arrive
  <2>9. ASSUME UNCHANGED vars PROVE [ED!Next]_ED!vars
    <3>1. UNCHANGED Watched
      BY <2>9, WatchedUnchanged DEF vars, waitSet
    <3> QED  BY <2>9, <3>1 DEF vars, ED!vars
  <2> QED
    BY <2>2, <2>3, <2>4, <2>5, <2>6, <2>7, <2>8, <2>9 DEF Next, Dispatch, Terminated
<1>3. Spec => []SizedToLists
  BY SizedToListsInvariant, PTL DEF Spec
<1> QED  BY <1>1, <1>2, <1>3, TypeCorrect, PTL DEF Spec, ImplementsEventDispatch, ED!Safety

-----------------------------------------------------------------------------
(* How long an entity waits for its turn.  Entries of a list are of its kind *)
(* and differ, so every watched entity has one place in the dispatch loops.  *)
Distinct(lists) ==
  \A k \in Kinds : \A i \in 1 .. Len(lists[k]) :
    /\ KindOf(lists[k][i]) = k
    /\ \A j \in 1 .. Len(lists[k]) : lists[k][i] = lists[k][j] => i = j

ListsInv ==
  /\ \A n \in Nodes : Distinct(created[n])
  /\ pc # "terminated" => Distinct(registered) /\ (~valid => registered = EmptyLists)

(* A node records an entity once, and only one node is added.                *)
LEMMA ListsInvariant == ASSUME AppCatches = FALSE PROVE Init /\ [][Next]_vars => []ListsInv
<1>1. Init => ListsInv
  BY DEF Init, ListsInv, Distinct, EmptyLists
<1>2. TypeOK /\ ListsInv /\ [Next]_vars => ListsInv'
  <2> SUFFICES ASSUME TypeOK, ListsInv, [Next]_vars PROVE ListsInv'
    OBVIOUS
  <2>1. ASSUME NEW n \in Nodes, CreateEntity(n) PROVE ListsInv'
    <3>1. PICK k \in Kinds, e \in Entities : Create(n, k, e) /\ KindOf(e) = k
      BY <2>1, ConstantsAssumption
         DEF CreateEntity, createSubscription, createService, createClient, Kinds, Entities, KindOf
    <3>2. \A i \in 1 .. Len(created[n][k]) : created[n][k][i] # e
      BY <3>1 DEF Create, IsCreated
    <3> DEFINE longer == Append(created[n][k], e)
    <3>3. /\ Len(longer) = Len(created[n][k]) + 1 /\ Len(created[n][k]) \in Nat
          /\ longer[Len(created[n][k]) + 1] = e
          /\ \A i \in 1 .. Len(created[n][k]) : longer[i] = created[n][k][i]
      <4>1. created[n][k] \in Seq(Entities)
        BY DEF TypeOK
      <4> QED  BY <4>1
    <3>4. \A i \in 1 .. Len(longer) :
            /\ KindOf(longer[i]) = k
            /\ \A j \in 1 .. Len(longer) : longer[i] = longer[j] => i = j
      <4> HIDE DEF longer
      <4>1. \A i \in 1 .. Len(longer) : i = Len(longer) \/ i \in 1 .. Len(created[n][k])
        BY <3>3
      <4>2. \A i \in 1 .. Len(created[n][k]) :
              /\ KindOf(created[n][k][i]) = k
              /\ \A j \in 1 .. Len(created[n][k]) : created[n][k][i] = created[n][k][j] => i = j
        BY DEF ListsInv, Distinct
      <4>3. ASSUME NEW i \in 1 .. Len(longer) PROVE KindOf(longer[i]) = k
        <5>1. CASE i = Len(longer)
          BY <3>1, <3>3, <5>1
        <5>2. CASE i \in 1 .. Len(created[n][k])
          BY <3>3, <4>2, <5>2
        <5> QED  BY <4>1, <5>1, <5>2
      <4>4. ASSUME NEW i \in 1 .. Len(longer), NEW j \in 1 .. Len(longer), longer[i] = longer[j]
            PROVE  i = j
        <5>1. CASE i = Len(longer) /\ j = Len(longer)
          BY <5>1
        <5>2. CASE i \in 1 .. Len(created[n][k]) /\ j \in 1 .. Len(created[n][k])
          BY <3>3, <4>2, <4>4, <5>2
        <5>3. CASE i = Len(longer) /\ j \in 1 .. Len(created[n][k])
          BY <3>2, <3>3, <4>4, <5>3
        <5>4. CASE i \in 1 .. Len(created[n][k]) /\ j = Len(longer)
          BY <3>2, <3>3, <4>4, <5>4
        <5> QED  BY <4>1, <5>1, <5>2, <5>3, <5>4
      <4> QED  BY <4>3, <4>4
    <3>5. created' = [created EXCEPT ![n][k] = longer] \/ created' = created
      BY <3>1 DEF Create
    <3> HIDE DEF longer
    <3>6. ASSUME NEW m \in Nodes PROVE Distinct(created'[m])
      <4> SUFFICES ASSUME NEW l \in Kinds
                   PROVE  \A i \in 1 .. Len(created'[m][l]) :
                            /\ KindOf(created'[m][l][i]) = l
                            /\ \A j \in 1 .. Len(created'[m][l]) :
                                 created'[m][l][i] = created'[m][l][j] => i = j
        BY DEF Distinct
      <4>1. CASE m = n /\ l = k /\ created' = [created EXCEPT ![n][k] = longer]
        <5>1. created'[m][l] = longer
          BY <4>1 DEF TypeOK
        <5> QED  BY <5>1, <3>4, <4>1
      <4>2. CASE created'[m][l] = created[m][l]
        BY <4>2 DEF ListsInv, Distinct
      <4>3. created \in [Nodes -> [Kinds -> Seq(Entities)]]
        BY DEF TypeOK
      <4>4. \A s : \/ [created EXCEPT ![n][k] = s][m][l] = created[m][l]
                   \/ m = n /\ l = k
        BY <4>3
      <4> QED  BY <3>5, <4>1, <4>2, <4>4
    <3>7. registered' = registered /\ valid' = valid /\ pc = "app"
      BY <3>1 DEF Create, waitSet
    <3> QED  BY <3>6, <3>7 DEF ListsInv
  <2>2. ASSUME NEW n \in Nodes, AddMyNode(n) PROVE ListsInv'
    <3>1. created' = created /\ pc = "app"
      BY <2>2 DEF AddMyNode
    <3>2. CASE pc' = "terminated"
      BY <3>1, <3>2 DEF ListsInv
    <3>3. CASE ~valid /\ valid'
      <4>1. registered' = [k \in Kinds |-> registered[k] \o created[n][k]] /\ registered = EmptyLists
        BY <2>2, <3>1, <3>3, PairsAreLists DEF AddMyNode, ListsInv
      <4>2. \A k \in Kinds : registered'[k] = created[n][k]
        <5>1. \A k \in Kinds : created[n][k] \in Seq(Entities) /\ registered[k] = << >>
          BY <4>1 DEF TypeOK, EmptyLists
        <5>2. \A s \in Seq(Entities) : << >> \o s = s
          OBVIOUS
        <5> QED  BY <4>1, <5>1, <5>2
      <4>3. Distinct(registered')
        BY <4>2 DEF ListsInv, Distinct
      <4> QED  BY <3>1, <3>3, <4>3 DEF ListsInv
    <3> QED  BY <2>2, <3>2, <3>3 DEF AddMyNode, Throw
  <2>3. CASE SpinBegin \/ Wait \/ Dispatch \/ UNCHANGED vars \/ \E e \in Entities : Arrive(e)
    <3>1. /\ created' = created /\ registered' = registered /\ valid' = valid
          /\ pc' # "terminated" => pc # "terminated"
      BY <2>3 DEF SpinBegin, Throw, Wait, WaitTimeout, WaitReady, WaitError, Dispatch, SkipEntry,
                  InvokeCallback, BadRead, NextLoop, HasEntry, Arrive, waitSet, vars
    <3> QED  BY <3>1 DEF ListsInv
  <2> QED  BY <2>1, <2>2, <2>3 DEF Next, Terminated
<1> QED  BY <1>1, <1>2, TypeInvariant, PTL

(* What rcl_wait is given: a slot for every entry.                           *)
Full ==
  pc = "waiting" => \A k \in Kinds : /\ Len(slots[k]) = Len(registered[k])
                                     /\ \A i \in 1 .. Len(slots[k]) : slots[k][i] = registered[k][i]

(* spin refills a cleared array of the length of the list.                   *)
LEMMA FullInvariant == ASSUME AppCatches = FALSE PROVE Init /\ [][Next]_vars => []Full
<1>1. Init => Full
  BY DEF Init, Full
<1>2. TypeOK /\ SizedToLists /\ Full /\ [Next]_vars => Full'
  <2> SUFFICES ASSUME TypeOK, SizedToLists, Full, [Next]_vars, pc' = "waiting"
               PROVE  \A k \in Kinds : /\ Len(slots'[k]) = Len(registered'[k])
                                       /\ \A i \in 1 .. Len(slots'[k]) : slots'[k][i] = registered'[k][i]
    BY DEF Full
  <2>1. CASE SpinBegin
    <3> SUFFICES ASSUME NEW k \in Kinds
                 PROVE  /\ Len(slots'[k]) = Len(registered'[k])
                        /\ \A i \in 1 .. Len(slots'[k]) : slots'[k][i] = registered'[k][i]
      OBVIOUS
    <3>1. /\ slots'[k] = AddAll(Cleared[k], registered[k], size[k]) /\ registered' = registered
          /\ registered[k] \in Seq(Entities) /\ size[k] = Len(registered[k])
      BY <2>1 DEF SpinBegin, Throw, TypeOK, SizedToLists
    <3>2. AddAll(Cleared[k], registered[k], size[k]) = << >> \o SubSeq(registered[k], 1, Len(registered[k]))
      BY <3>1 DEF AddAll, Cleared, EmptyLists
    <3>3. \A s \in Seq(Entities) : /\ Len(<< >> \o SubSeq(s, 1, Len(s))) = Len(s)
                                   /\ \A i \in 1 .. Len(s) : (<< >> \o SubSeq(s, 1, Len(s)))[i] = s[i]
      OBVIOUS
    <3> QED  BY <3>1, <3>2, <3>3
  <2>2. CASE ~SpinBegin
    <3>1. UNCHANGED <<slots, registered, pc>>
      BY <2>2, CreateEntityCreates
         DEF Next, Create, AddMyNode, Throw, Wait, WaitTimeout, WaitReady, WaitError, Dispatch,
             SkipEntry, InvokeCallback, BadRead, NextLoop, HasEntry, Arrive, Terminated, waitSet, vars
    <3> QED  BY <3>1 DEF Full
  <2> QED  BY <2>1, <2>2
<1> QED  BY <1>1, <1>2, TypeInvariant, SizedToListsInvariant, PTL

(* The place of a watched entity, and the entity of a place.                 *)
LEMMA PlaceOfWatched ==
  ASSUME TypeOK, SizedToLists, ListsInv, pc # "terminated", NEW e \in Watched
  PROVE  /\ LoopOf(e) \in 1 .. 3 /\ DispatchOrder[LoopOf(e)] = KindOf(e) /\ KindOf(e) \in Kinds
         /\ PositionOf(e) \in 1 .. Len(registered[KindOf(e)])
         /\ registered[KindOf(e)][PositionOf(e)] = e
<1>1. PICK k \in Kinds : \E i \in 1 .. Len(registered[k]) : registered[k][i] = e
  BY DEF Watched, SizedToLists
<1>2. KindOf(e) = k
  BY <1>1 DEF ListsInv, Distinct
<1>3. \E l \in 1 .. Len(DispatchOrder) : DispatchOrder[l] = KindOf(e)
  <2>1. Len(DispatchOrder) = 3 /\ k \in {DispatchOrder[1], DispatchOrder[2], DispatchOrder[3]}
    BY DEF DispatchOrder, Kinds
  <2> QED  BY <1>2, <2>1
<1>4. LoopOf(e) \in 1 .. Len(DispatchOrder) /\ DispatchOrder[LoopOf(e)] = KindOf(e)
  BY <1>3 DEF LoopOf
<1>5. \E i \in 1 .. Len(registered[KindOf(e)]) : registered[KindOf(e)][i] = e
  BY <1>1, <1>2
<1>6. PositionOf(e) \in 1 .. Len(registered[KindOf(e)]) /\ registered[KindOf(e)][PositionOf(e)] = e
  BY <1>5 DEF PositionOf
<1> QED  BY <1>2, <1>4, <1>6, DispatchOrderIsKinds

(* Loop and index tell which watched entity is looked at. *)
LEMMA EntityOfPlace ==
  ASSUME TypeOK, SizedToLists, ListsInv, pc # "terminated", HasEntry
  PROVE  /\ List[index] \in Watched
         /\ LoopOf(List[index]) = loop /\ PositionOf(List[index]) = index
<1> DEFINE e == List[index] k == DispatchOrder[loop]
<1>1. k \in Kinds /\ index \in 1 .. Len(registered[k]) /\ e = registered[k][index] /\ valid
  BY DispatchOrderIsKinds DEF TypeOK, SizedToLists, HasEntry, List
<1>2. e \in Watched
  BY <1>1 DEF Watched, SizedToLists, TypeOK
<1>3. KindOf(e) = k
  BY <1>1 DEF ListsInv, Distinct
<1> HIDE DEF e
<1>4. /\ LoopOf(e) \in 1 .. 3 /\ DispatchOrder[LoopOf(e)] = k
      /\ PositionOf(e) \in 1 .. Len(registered[k]) /\ registered[k][PositionOf(e)] = e
  BY <1>2, <1>3, PlaceOfWatched
<1>5. \A l, m \in 1 .. 3 : DispatchOrder[l] = DispatchOrder[m] => l = m
  BY DEF DispatchOrder
<1>6. PositionOf(e) = index
  BY <1>1, <1>4 DEF ListsInv, Distinct
<1>7. LoopOf(e) = loop
  BY <1>4, <1>5 DEF TypeOK
<1> QED  BY <1>2, <1>6, <1>7 DEF e

(* Whether the loops are past an entity's place, and what rcl_wait left there. *)
Passed(e) == LoopOf(e) < loop \/ (LoopOf(e) = loop /\ PositionOf(e) < index)
Occupied(e) ==
  PositionOf(e) <= Len(slots[KindOf(e)]) /\ slots[KindOf(e)][PositionOf(e)] # NULL

(* How often f may have been served while e waits: once in this spin if its  *)
(* turn is over, and once before it if e had to be left for this spin.       *)
Allowed(e, f) ==
  IF pc = "dispatching"
  THEN (IF Occupied(e) /\ ~Passed(e) THEN 1 ELSE 0) + (IF Passed(f) THEN 1 ELSE 0)
  ELSE 1

BypassInv ==
  /\ bypass \in [Entities -> [Entities -> Nat]]
  /\ pc # "terminated" =>
       /\ \A e \in Entities : ~Due(e) => \A f \in Entities : bypass[e][f] = 0
       /\ \A e, f \in Watched : e # f => bypass[e][f] <= Allowed(e, f)

(* An entity may be overtaken by another at most twice. *)
LEMMA AllowedIsNat == \A e, f : Allowed(e, f) \in {0, 1, 2}
BY DEF Allowed

(* The turn of the entry at the cursor is over after it, no other's is.      *)
LEMMA TurnPasses ==
  ASSUME TypeOK, SizedToLists, ListsInv, HasEntry, pc' = pc, loop' = loop, index' = index + 1,
         UNCHANGED <<registered, valid, size>>, NEW e \in Watched
  PROVE  /\ Passed(e)' <=> Passed(e) \/ e = List[index]
         /\ ~Passed(List[index])
<1>1. pc # "terminated" /\ index \in Nat /\ loop \in 1 .. 3 /\ DispatchOrder[loop] \in Kinds
  BY DispatchOrderIsKinds DEF HasEntry, TypeOK
<1>2. /\ LoopOf(e) \in 1 .. 3 /\ DispatchOrder[LoopOf(e)] = KindOf(e)
      /\ PositionOf(e) \in 1 .. Len(registered[KindOf(e)])
      /\ registered[KindOf(e)][PositionOf(e)] = e
  BY <1>1, PlaceOfWatched
<1>3. LoopOf(List[index]) = loop /\ PositionOf(List[index]) = index
  BY <1>1, EntityOfPlace
<1>4. LoopOf(e)' = LoopOf(e) /\ PositionOf(e)' = PositionOf(e)
  BY DEF LoopOf, PositionOf
<1>5. LoopOf(e) = loop /\ PositionOf(e) = index => e = List[index]
  BY <1>2 DEF List
<1>6. registered[KindOf(e)] \in Seq(Entities) /\ PositionOf(e) \in Nat
  BY <1>2, DispatchOrderIsKinds DEF TypeOK
<1>7. Passed(e)' <=> LoopOf(e) < loop \/ (LoopOf(e) = loop /\ PositionOf(e) < index + 1)
  BY <1>4 DEF Passed
<1>8. \A p \in Nat : p < index + 1 <=> p < index \/ p = index
  BY <1>1
<1>9. Passed(e)' <=> Passed(e) \/ (LoopOf(e) = loop /\ PositionOf(e) = index)
  BY <1>6, <1>7, <1>8 DEF Passed
<1>10. ~Passed(List[index])
  BY <1>1, <1>3 DEF Passed
<1> QED  BY <1>3, <1>5, <1>9, <1>10

(* At the end of a loop, the turns over are those of the loops up to it.     *)
LEMMA LoopPasses ==
  ASSUME TypeOK, SizedToLists, ListsInv, NextLoop, NEW e \in Watched
  PROVE  /\ loop < 3 => (Passed(e)' <=> Passed(e))
         /\ loop = 3 => Passed(e)
<1>1. /\ pc # "terminated" /\ index \in Nat /\ loop \in 1 .. 3 /\ index > Len(List) /\ index' = 1
      /\ registered' = registered /\ (loop < 3 => loop' = loop + 1)
  BY DispatchOrderIsKinds DEF NextLoop, TypeOK
<1>2. /\ LoopOf(e) \in 1 .. 3 /\ DispatchOrder[LoopOf(e)] = KindOf(e) /\ KindOf(e) \in Kinds
      /\ PositionOf(e) \in 1 .. Len(registered[KindOf(e)])
  BY <1>1, PlaceOfWatched
<1>3. LoopOf(e)' = LoopOf(e) /\ PositionOf(e)' = PositionOf(e)
  BY <1>1 DEF LoopOf, PositionOf
<1>4. registered[KindOf(e)] \in Seq(Entities) /\ PositionOf(e) \in Nat \ {0}
  BY <1>2 DEF TypeOK
<1>5. LoopOf(e) = loop => PositionOf(e) < index
  <2> HAVE LoopOf(e) = loop
  <2>1. PositionOf(e) <= Len(List) /\ Len(List) \in Nat
    BY <1>2, <1>4 DEF List
  <2> QED  BY <1>1, <1>4, <2>1
<1>6. Passed(e) <=> LoopOf(e) <= loop
  BY <1>1, <1>2, <1>5 DEF Passed
<1>7. loop < 3 => (Passed(e)' <=> LoopOf(e) < loop + 1)
  BY <1>1, <1>3, <1>4 DEF Passed
<1> QED  BY <1>1, <1>2, <1>6, <1>7

(* Nothing a step outside of the loops does makes anybody wait longer.       *)
LEMMA RestKeepsBypassInv ==
  ASSUME BypassInv, UNCHANGED <<registered, valid, size, pending, bypass>>,
         pc' = "terminated" \/ (pc \in {"app", "waiting"} /\ pc' \in {"app", "waiting"})
  PROVE  BypassInv'
<1>1. Watched' = Watched /\ \A e : Due(e)' <=> Due(e)
  BY DEF Watched, Due
<1>2. pc' # "terminated" => \A e, f : Allowed(e, f)' = Allowed(e, f)
  BY DEF Allowed
<1>3. pc' # "terminated" => pc # "terminated"
  OBVIOUS
<1> QED  BY <1>1, <1>2, <1>3 DEF BypassInv

(* What is due when rcl_wait returns is in the snapshot.                     *)
LEMMA WaitKeepsBypassInv ==
  ASSUME TypeOK, SizedToLists, ListsInv, Full, BypassInv, WaitReady \/ WaitError, bypass' = bypass
  PROVE  BypassInv'
<1>1. /\ pc = "waiting" /\ pc' = "dispatching" /\ loop' = 1 /\ index' = 1
      /\ UNCHANGED <<registered, valid, size, pending>>
  BY DEF WaitReady, WaitError, waitSet
<1>2. Watched' = Watched /\ \A e : Due(e)' <=> Due(e)
  BY <1>1 DEF Watched, Due
<1>3. ASSUME NEW e \in Watched, Due(e) PROVE Occupied(e)' /\ ~Passed(e)'
  <2> DEFINE k == KindOf(e) p == PositionOf(e)
  <2>1. /\ LoopOf(e) \in 1 .. 3 /\ k \in Kinds /\ p \in 1 .. Len(registered[k])
        /\ registered[k][p] = e /\ Len(registered[k]) \in Nat
    <3>1. LoopOf(e) \in 1 .. 3 /\ k \in Kinds /\ p \in 1 .. Len(registered[k]) /\ registered[k][p] = e
      BY <1>1, PlaceOfWatched
    <3> QED  BY <3>1 DEF TypeOK
  <2>2. LoopOf(e)' = LoopOf(e) /\ PositionOf(e)' = p
    BY <1>1 DEF LoopOf, PositionOf
  <2>3. ~Passed(e)'
    <3> HIDE DEF k, p
    <3> QED  BY <1>1, <2>1, <2>2 DEF Passed
  <2>4. p \in 1 .. Len(slots[k]) /\ slots[k][p] = e /\ e # NULL
    BY <1>1, <2>1, ConstantsAssumption DEF Full, Watched
  <2>5. e \in Ready
    <3>1. e \in {slots[k][i] : i \in 1 .. Len(slots[k])}
      BY <2>4
    <3>2. e \in Monitored
      BY <2>1, <2>4, <3>1 DEF Monitored
    <3> QED  BY <1>3, <3>2 DEF Ready, Due
  <2>6. p <= Len(slots'[k]) /\ slots'[k][p] # NULL
    <3>1. CASE WaitReady
      <4>1. PICK spurious \in SUBSET Monitored : slots' = Only(Ready \cup spurious)
        BY <3>1 DEF WaitReady
      <4>2. slots'[k] = [i \in 1 .. Len(slots[k]) |->
                           IF slots[k][i] \in Ready \cup spurious THEN slots[k][i] ELSE NULL]
        BY <2>1, <4>1 DEF Only
      <4>3. slots'[k][p] = e
        BY <2>4, <2>5, <4>2
      <4>4. Len(slots'[k]) = Len(slots[k])
        BY <2>1, <4>1, OnlyKeepsOrBlanks DEF TypeOK
      <4> QED  BY <2>4, <4>3, <4>4
    <3>2. CASE WaitError
      BY <2>4, <3>2 DEF WaitError, waitSet
    <3> QED  BY <3>1, <3>2
  <2>7. Occupied(e)'
    BY <2>2, <2>6 DEF Occupied
  <2> QED  BY <2>3, <2>7
<1>4. ASSUME NEW e \in Watched, NEW f \in Watched, e # f PROVE bypass[e][f] <= Allowed(e, f)'
  <2>1. e \in Entities /\ f \in Entities /\ Allowed(e, f)' \in {0, 1, 2}
    BY AllowedIsNat DEF Watched, Allowed
  <2>2. CASE Due(e)
    <3>1. bypass[e][f] <= 1
      BY <1>1, <1>4 DEF BypassInv, Allowed
    <3>2. Allowed(e, f)' \in {1, 2}
      BY <1>1, <1>3, <2>2 DEF Allowed
    <3>3. bypass[e][f] \in Nat
      BY <2>1 DEF BypassInv
    <3> QED  BY <3>1, <3>2, <3>3
  <2>3. CASE ~Due(e)
    <3>1. bypass[e][f] = 0
      BY <1>1, <2>1, <2>3 DEF BypassInv
    <3> QED  BY <2>1, <3>1
  <2> QED  BY <2>2, <2>3
<1> QED  BY <1>1, <1>2, <1>4 DEF BypassInv

(* Serving f lets it pass everybody who waits, but its turn is over.         *)
LEMMA InvokeKeepsBypassInv ==
  ASSUME TypeOK, SizedToLists, ListsInv, BypassInv, InvokeCallback, bypass' = Counted(List[index])
  PROVE  BypassInv'
<1> DEFINE s == List[index]
<1>1. /\ HasEntry /\ pc = "dispatching" /\ pc' = pc /\ loop' = loop /\ index' = index + 1
      /\ UNCHANGED <<registered, valid, size, slots>> /\ pending' = Taken(s)
  BY DEF InvokeCallback, HasEntry, waitSet
<1>2. Watched' = Watched /\ Watched \subseteq Entities
  BY <1>1 DEF Watched
<1>3. s \in Watched
  BY <1>1, EntityOfPlace
<1>4. \A e \in Watched : /\ Passed(e)' <=> Passed(e) \/ e = s
                         /\ ~Passed(s)
                         /\ Occupied(e)' <=> Occupied(e)
  <2> TAKE e \in Watched
  <2>1. (Passed(e)' <=> Passed(e) \/ e = s) /\ ~Passed(s)
    BY <1>1, TurnPasses
  <2>2. PositionOf(e)' = PositionOf(e)
    BY <1>1 DEF PositionOf
  <2>3. Occupied(e)' <=> Occupied(e)
    BY <1>1, <2>2 DEF Occupied
  <2> QED  BY <2>1, <2>3
<1> HIDE DEF s
<1>5. \A e \in Entities : e # s => (Due(e)' <=> Due(e))
  BY <1>1, <1>2 DEF Due, Taken, TypeOK
<1>6. \A e, f \in Entities :
        bypass'[e][f] = IF Due(e) /\ e # s THEN (IF f = s THEN bypass[e][f] + 1 ELSE bypass[e][f])
                        ELSE 0
  BY <1>2, <1>3 DEF s, Counted, NoBypass, BypassInv
<1>7. bypass' \in [Entities -> [Entities -> Nat]]
  <2>1. \A e \in Entities : [bypass[e] EXCEPT ![s] = @ + 1] \in [Entities -> Nat]
    <3> SUFFICES ASSUME NEW e \in Entities
                 PROVE  [bypass[e] EXCEPT ![s] = @ + 1] \in [Entities -> Nat]
      OBVIOUS
    <3>1. bypass[e] \in [Entities -> Nat]
      BY DEF BypassInv
    <3>2. \A n \in Nat : n + 1 \in Nat
      OBVIOUS
    <3> QED  BY <3>1, <3>2
  <2>2. NoBypass \in [Entities -> Nat]
    BY DEF NoBypass
  <2> QED  BY <2>1, <2>2 DEF Counted, s
<1>8. ASSUME NEW e \in Entities, ~Due(e)', NEW f \in Entities PROVE bypass'[e][f] = 0
  BY <1>5, <1>6, <1>8
<1>9. ASSUME NEW e \in Watched, NEW f \in Watched, e # f PROVE bypass'[e][f] <= Allowed(e, f)'
  <2>1. /\ e \in Entities /\ f \in Entities /\ bypass[e][f] \in Nat
        /\ bypass[e][f] <= Allowed(e, f)
    BY <1>1, <1>2, <1>9 DEF BypassInv
  <2>2. /\ Allowed(e, f) = (IF Occupied(e) /\ ~Passed(e) THEN 1 ELSE 0) + (IF Passed(f) THEN 1 ELSE 0)
        /\ Allowed(e, f)' = (IF Occupied(e)' /\ ~Passed(e)' THEN 1 ELSE 0) + (IF Passed(f)' THEN 1 ELSE 0)
    BY <1>1 DEF Allowed
  <2>3. CASE Due(e) /\ e # s /\ f = s
    <3>1. Allowed(e, f)' = Allowed(e, f) + 1 /\ bypass'[e][f] = bypass[e][f] + 1
      BY <1>4, <1>6, <2>1, <2>2, <2>3
    <3>2. Allowed(e, f) \in {0, 1, 2}
      BY AllowedIsNat
    <3> QED  BY <2>1, <3>1, <3>2
  <2>4. CASE Due(e) /\ e # s /\ f # s
    BY <1>4, <1>6, <2>1, <2>2, <2>4
  <2>5. CASE ~Due(e) \/ e = s
    <3>1. bypass'[e][f] = 0
      BY <1>6, <2>1, <2>5
    <3>2. Allowed(e, f)' \in {0, 1, 2}
      BY <2>2
    <3> QED  BY <3>1, <3>2
  <2> QED  BY <2>3, <2>4, <2>5
<1> QED  BY <1>1, <1>2, <1>7, <1>8, <1>9 DEF BypassInv

(* Passing an entry that is not ready, or going to the next loop, serves     *)
(* nobody; at the end of the last loop every turn is over.                   *)
LEMMA PassKeepsBypassInv ==
  ASSUME TypeOK, SizedToLists, ListsInv, BypassInv, SkipEntry \/ NextLoop, bypass' = bypass
  PROVE  BypassInv'
<1>1. /\ pc = "dispatching" /\ UNCHANGED <<registered, valid, size, slots, pending>>
      /\ pc' # "terminated"
  BY DEF SkipEntry, NextLoop, HasEntry, waitSet
<1>2. Watched' = Watched /\ Watched \subseteq Entities /\ \A e : Due(e)' <=> Due(e)
  BY <1>1 DEF Watched, Due
<1>3. \A e : Occupied(e)' <=> Occupied(e)
  BY <1>1 DEF Occupied, PositionOf
<1>4. ASSUME NEW e \in Watched, NEW f \in Watched, e # f PROVE bypass[e][f] <= Allowed(e, f)'
  <2>1. /\ bypass[e][f] \in Nat /\ bypass[e][f] <= Allowed(e, f)
        /\ Allowed(e, f) = (IF Occupied(e) /\ ~Passed(e) THEN 1 ELSE 0) + (IF Passed(f) THEN 1 ELSE 0)
    BY <1>1, <1>2, <1>4 DEF BypassInv, Allowed
  <2>2. CASE SkipEntry
    <3>1. /\ pc' = "dispatching" /\ HasEntry /\ loop' = loop /\ index' = index + 1 /\ FALSE \in SlotReads
      BY <1>1, <2>2 DEF SkipEntry
    <3>2. /\ Passed(e)' <=> Passed(e) \/ e = List[index]
          /\ Passed(f)' <=> Passed(f) \/ f = List[index]
      BY <1>1, <3>1, TurnPasses
    <3>3. e = List[index] => ~Occupied(e)
      <4>1. InBounds
        BY <3>1, SizedMeansInBounds DEF NoOutOfBoundsRead
      <4>2. ~(index <= Len(Array) /\ Array[index] # NULL)
        BY <3>1, <4>1 DEF SlotReads
      <4>3. List[index] \in Watched /\ LoopOf(List[index]) = loop /\ PositionOf(List[index]) = index
        BY <1>1, <3>1, EntityOfPlace
      <4>4. KindOf(List[index]) = DispatchOrder[loop]
        BY <1>1, <4>3, PlaceOfWatched
      <4> QED  BY <4>2, <4>3, <4>4 DEF Occupied, Array
    <3>4. Allowed(e, f)' = (IF Occupied(e)' /\ ~Passed(e)' THEN 1 ELSE 0) + (IF Passed(f)' THEN 1 ELSE 0)
      BY <3>1 DEF Allowed
    <3>5. Occupied(e)' /\ ~Passed(e)' <=> Occupied(e) /\ ~Passed(e)
      BY <1>3, <3>2, <3>3
    <3>6. Passed(f) => Passed(f)'
      BY <3>2
    <3> QED  BY <2>1, <3>4, <3>5, <3>6
  <2>3. CASE NextLoop /\ loop < 3
    <3>1. (Passed(e)' <=> Passed(e)) /\ (Passed(f)' <=> Passed(f)) /\ pc' = "dispatching"
      BY <1>1, <2>3, LoopPasses, DispatchOrderIsKinds DEF NextLoop
    <3>2. Allowed(e, f)' = (IF Occupied(e)' /\ ~Passed(e)' THEN 1 ELSE 0) + (IF Passed(f)' THEN 1 ELSE 0)
      BY <3>1 DEF Allowed
    <3> QED  BY <1>3, <2>1, <3>1, <3>2
  <2>4. CASE NextLoop /\ ~(loop < 3)
    <3>1. loop = 3 /\ pc' = "app"
      BY <2>4, DispatchOrderIsKinds DEF NextLoop, TypeOK
    <3>2. Passed(e) /\ Passed(f)
      BY <2>4, <3>1, LoopPasses
    <3>3. Allowed(e, f)' = 1
      BY <3>1 DEF Allowed
    <3> QED  BY <2>1, <3>2, <3>3
  <2> QED  BY <2>2, <2>3, <2>4
<1> QED  BY <1>1, <1>2, <1>4 DEF BypassInv

(* addMyNode gives the executor entities that nobody has overtaken yet.      *)
LEMMA AddKeepsBypassInv ==
  ASSUME AppCatches = FALSE, TypeOK, BypassInv, NEW n \in Nodes, AddMyNode(n), bypass' = bypass
  PROVE  BypassInv'
<1>1. pc = "app" /\ (pc' = "terminated" \/ (~valid /\ pc' = "app")) /\ pending' = pending
  BY DEF AddMyNode, Throw
<1>2. CASE ~valid /\ pc' = "app"
  <2>1. \A e \in Entities : ~Due(e)
    BY <1>2 DEF Due, Watched
  <2>2. \A e, f \in Entities : bypass[e][f] = 0
    BY <1>1, <2>1 DEF BypassInv
  <2>3. \A e, f : Allowed(e, f)' = 1
    BY <1>2 DEF Allowed
  <2>4. Watched' \subseteq Entities
    BY DEF Watched
  <2> QED  BY <2>2, <2>3, <2>4 DEF BypassInv
<1> QED  BY <1>1, <1>2 DEF BypassInv

(* Whoever waits with data is overtaken by an entity that comes later in the *)
(* loops once at most, and by one that comes earlier twice at most.          *)
THEOREM OvertakenTwiceAtMost == ASSUME AppCatches = FALSE PROVE SpecB => []BoundedBypass
<1>1. InitB => BypassInv
  <2> SUFFICES ASSUME InitB PROVE BypassInv
    OBVIOUS
  <2>1. \A e, f \in Entities : bypass[e][f] = 0
    BY DEF InitB, NoBypass
  <2>2. bypass \in [Entities -> [Entities -> Nat]]
    BY DEF InitB, NoBypass
  <2>3. Watched \subseteq Entities
    BY DEF Watched
  <2> QED  BY <2>1, <2>2, <2>3, AllowedIsNat DEF BypassInv
<1>2. TypeOK /\ SizedToLists /\ ListsInv /\ Full /\ BypassInv /\ [NextB]_varsB => BypassInv'
  <2> SUFFICES ASSUME TypeOK, SizedToLists, ListsInv, Full, BypassInv, [NextB]_varsB
               PROVE  BypassInv'
    OBVIOUS
  <2>1. CASE InvokeCallback /\ NextB
    BY <2>1, InvokeKeepsBypassInv DEF NextB
  <2>2. ASSUME ~InvokeCallback \/ UNCHANGED varsB, [Next]_vars, bypass' = bypass PROVE BypassInv'
    <3>1. ASSUME NEW n \in Nodes, CreateEntity(n) PROVE BypassInv'
      <4>1. /\ UNCHANGED <<registered, valid, size, pending>>
            /\ pc = "app" /\ pc' \in {"app", "terminated"}
        BY <3>1, CreateEntityCreates DEF Create, Throw, waitSet
      <4> QED  BY <2>2, <4>1, RestKeepsBypassInv
    <3>2. ASSUME NEW n \in Nodes, AddMyNode(n) PROVE BypassInv'
      BY <2>2, <3>2, AddKeepsBypassInv
    <3>3. CASE SpinBegin \/ WaitTimeout
      <4>1. /\ UNCHANGED <<registered, valid, size, pending>>
            /\ pc \in {"app", "waiting"} /\ pc' \in {"app", "waiting", "terminated"}
        BY <3>3 DEF SpinBegin, WaitTimeout, Throw
      <4> QED  BY <2>2, <4>1, RestKeepsBypassInv
    <3>4. CASE WaitReady \/ WaitError
      BY <2>2, <3>4, WaitKeepsBypassInv
    <3>5. CASE SkipEntry \/ NextLoop
      BY <2>2, <3>5, PassKeepsBypassInv
    <3>6. CASE BadRead
      <4>1. UNCHANGED <<registered, valid, size, pending>> /\ pc' = "terminated"
        BY <3>6 DEF BadRead, waitSet
      <4> QED  BY <2>2, <4>1, RestKeepsBypassInv
    <3>7. ASSUME NEW a \in Entities, Arrive(a) PROVE BypassInv'
      <4>1. /\ UNCHANGED <<registered, valid, size, slots, pc, loop, index>>
            /\ pending' = [pending EXCEPT ![a] = @ + 1]
        BY <3>7 DEF Arrive, waitSet, cursor
      <4>2. Watched' = Watched /\ \A e \in Entities : Due(e) => Due(e)'
        <5>1. \A e \in Entities : pending[e] \in Nat /\ (pending[e] > 0 => pending'[e] > 0)
          BY <4>1, ConstantsAssumption DEF TypeOK
        <5>2. Watched' = Watched
          BY <4>1 DEF Watched
        <5> QED  BY <5>1, <5>2 DEF Due
      <4>3. \A e, f : Allowed(e, f)' = Allowed(e, f)
        BY <4>1 DEF Allowed, Occupied, Passed, LoopOf, PositionOf
      <4> QED  BY <2>2, <4>1, <4>2, <4>3 DEF BypassInv
    <3>8. CASE UNCHANGED vars
      <4>1. UNCHANGED <<registered, valid, size, slots, pc, loop, index, pending>>
        BY <3>8 DEF vars, waitSet, cursor
      <4>2. Watched' = Watched /\ \A e : Due(e)' <=> Due(e)
        BY <4>1 DEF Watched, Due
      <4>3. \A e, f : Allowed(e, f)' = Allowed(e, f)
        BY <4>1 DEF Allowed, Occupied, Passed, LoopOf, PositionOf
      <4> QED  BY <2>2, <4>1, <4>2, <4>3 DEF BypassInv
    <3>9. CASE InvokeCallback /\ ~UNCHANGED vars
      BY <2>2, <3>9 DEF varsB
    <3> QED
      BY <2>2, <3>1, <3>2, <3>3, <3>4, <3>5, <3>6, <3>7, <3>8, <3>9
         DEF Next, Wait, Dispatch, Terminated
  <2> QED  BY <2>1, <2>2 DEF NextB, varsB
<1>3. TypeOK /\ SizedToLists /\ ListsInv /\ BypassInv => BoundedBypass
  <2> SUFFICES ASSUME TypeOK, SizedToLists, ListsInv, BypassInv, pc # "terminated",
                      NEW e \in Watched, NEW f \in Watched, e # f
               PROVE  bypass[e][f] <= IF Precedes(f, e) THEN 2 ELSE 1
    BY DEF BoundedBypass
  <2>1. /\ bypass[e][f] \in Nat /\ bypass[e][f] <= Allowed(e, f) /\ Allowed(e, f) \in {0, 1, 2}
    BY AllowedIsNat DEF BypassInv, Watched
  <2>2. Allowed(e, f) = 2 => Precedes(f, e)
    <3> HAVE Allowed(e, f) = 2
    <3>1. ~Passed(e) /\ Passed(f)
      BY DEF Allowed
    <3>2. /\ LoopOf(e) \in 1 .. 3 /\ PositionOf(e) \in 1 .. Len(registered[KindOf(e)]) /\ KindOf(e) \in Kinds
          /\ LoopOf(f) \in 1 .. 3 /\ PositionOf(f) \in 1 .. Len(registered[KindOf(f)]) /\ KindOf(f) \in Kinds
      BY PlaceOfWatched
    <3>3. loop \in Nat /\ index \in Nat /\ PositionOf(e) \in Nat /\ PositionOf(f) \in Nat
      BY <3>2 DEF TypeOK
    <3> QED  BY <3>1, <3>2, <3>3 DEF Passed, Precedes
  <2> QED  BY <2>1, <2>2
<1>4. SpecB => Init /\ [][Next]_vars
  <2>1. InitB => Init
    BY DEF InitB
  <2>2. [NextB]_varsB => [Next]_vars
    BY DEF NextB, varsB
  <2> QED  BY <2>1, <2>2, PTL DEF SpecB
<1> QED
  BY <1>1, <1>2, <1>3, <1>4, TypeInvariant, SizedToListsInvariant, ListsInvariant, FullInvariant, PTL
     DEF SpecB
================================================================================
