------------------------ MODULE MyParameterServiceProofs ------------------------
(***************************************************************************)
(* What is proved of the parameter storage, the parameter service and the  *)
(* program for all callers, requests, names, values and depths: their      *)
(* types; that whoever uses the storage, the typed getters that work never *)
(* change; that the handlers, item by item, carry out each request as a    *)
(* whole, as ParameterServer does; and, of the program that serves the     *)
(* requests in a loop, their order and how long they wait.                 *)
(***************************************************************************)
EXTENDS ParameterProgram, KeepLastProofs, FiniteSetTheorems, SequenceTheorems

(* The requests a queue may hold. *)
RequestsTo(service) == [id : Ids, service : {service}, args : ArgsOf(service)]

QueuesOK(q) ==
  /\ DOMAIN q = Services
  /\ \A s \in Services : q[s] \in Seq(RequestsTo(s)) /\ Len(q[s]) <= QueueDepth

HandlerOK ==
  request # None => /\ \E s \in Services : request \in RequestsTo(s)
                    /\ item \in 1 .. LoopLength + 1

(* The inductive invariant: TypeOK, and what requests are made of. *)
SInv ==
  /\ Storage!TypeOK
  /\ sent \in [Callers -> 0 .. MaxRequests]
  /\ QueuesOK(queue)
  /\ HandlerOK

(* A loop is as long as the request says. *)
LEMMA LoopLengthIsNat ==
  ASSUME NEW s \in Services, request \in RequestsTo(s)
  PROVE  LoopLength \in Nat
<1>1. request.service = s /\ request.args \in ArgsOf(s)
  BY DEF RequestsTo
<1>2. CASE s = "get_parameters"
  BY <1>1, <1>2 DEF LoopLength, ArgsOf
<1>3. CASE s = "set_parameters"
  BY <1>1, <1>3 DEF LoopLength, ArgsOf
<1>4. CASE s \in {"list_parameters", "describe_parameters"}
  BY <1>1, <1>4 DEF LoopLength
<1> QED  BY <1>2, <1>3, <1>4 DEF Services

(* The storage and the abstract server are about the same names. *)
LEMMA SameNames == Names = Storage!Names /\ Names = PS!Names
BY DEF Names, Storage!Names, PS!Names

(* What the program does to the storage keeps its type. *)
LEMMA StorageStepTyped ==
  ASSUME Storage!TypeOK, NEW name \in Names, NEW value \in Values,
         Storage!declare_parameter(name, value) \/ Storage!set_parameter(name, value)
  PROVE  Storage!TypeOK'
<1>1. CASE Storage!declare_parameter(name, value)
  BY <1>1, SameNames DEF Storage!declare_parameter, Storage!has_parameter, Storage!TypeOK
<1>2. CASE Storage!set_parameter(name, value)
  BY <1>2 DEF Storage!set_parameter, Storage!TypeOK
<1> QED  BY <1>1, <1>2

-----------------------------------------------------------------------------
(* The storage, whoever uses it.                                             *)

(* Neither call removes a name or changes the type of a declared one. *)
LEMMA CallKeepsTypes ==
  ASSUME NEW name, NEW value,
         Storage!declare_parameter(name, value) \/ Storage!set_parameter(name, value),
         NEW n \in DOMAIN parameters
  PROVE  /\ n \in DOMAIN parameters'
         /\ Storage!get_parameter_type(parameters'[n]) = Storage!get_parameter_type(parameters[n])
<1>1. CASE Storage!declare_parameter(name, value)
  BY <1>1 DEF Storage!declare_parameter, Storage!has_parameter
<1>2. CASE Storage!set_parameter(name, value)
  <2>1. CASE ~Storage!Accepts(name, value)
    BY <1>2, <2>1 DEF Storage!set_parameter
  <2>2. CASE Storage!Accepts(name, value)
    <3>1. parameters' = [parameters EXCEPT ![name] = value]
      BY <1>2, <2>2 DEF Storage!set_parameter
    <3>2. Storage!get_parameter_type(parameters[name]) = Storage!get_parameter_type(value)
      BY <2>2 DEF Storage!Accepts
    <3>3. CASE n = name
      BY <3>1, <3>2, <3>3
    <3>4. CASE n # name
      BY <3>1, <3>4
    <3> QED  BY <3>3, <3>4
  <2> QED  BY <2>1, <2>2
<1> QED  BY <1>1, <1>2

(* The storage only ever holds values of the message type under names in use. *)
THEOREM StorageTyped == Storage!Spec => []Storage!TypeOK
<1>1. Storage!Init => Storage!TypeOK
  BY DEF Storage!Init, Storage!TypeOK
<1>2. Storage!TypeOK /\ [Storage!Next]_parameters => Storage!TypeOK'
  BY StorageStepTyped, SameNames DEF Storage!Next, Storage!TypeOK
<1> QED  BY <1>1, <1>2, PTL DEF Storage!Spec

(* No call makes a typed getter that works for a declared parameter throw, *)
(* or one that throws work.                                                *)
THEOREM GettersNeverChange == Storage!Spec => Storage!GettersStable
<1> DEFINE Stable == \A n \in Storage!Names :
             Storage!has_parameter(n) =>
               Storage!has_parameter(n)' /\ Storage!Readable(n)' = Storage!Readable(n)
<1>1. Storage!TypeOK /\ Storage!TypeOK' /\ [Storage!Next]_parameters => [Stable]_parameters
  <2> SUFFICES ASSUME Storage!TypeOK, Storage!TypeOK', Storage!Next,
                      NEW n \in Storage!Names, Storage!has_parameter(n)
               PROVE  Storage!has_parameter(n)' /\ Storage!Readable(n)' = Storage!Readable(n)
    OBVIOUS
  <2>1. /\ n \in DOMAIN parameters'
        /\ Storage!get_parameter_type(parameters'[n]) = Storage!get_parameter_type(parameters[n])
    BY CallKeepsTypes DEF Storage!Next, Storage!has_parameter
  <2>2. ASSUME NEW type, NEW field \in Fields
        PROVE  (Storage!TypedGet(n, type, field)' # Threw) <=> (Storage!TypedGet(n, type, field) # Threw)
    <3>1. parameters[n][field] # Threw /\ parameters'[n][field] # Threw
      BY <2>1, ThrewAssumption DEF Storage!TypeOK, Storage!has_parameter
    <3>2. (Storage!TypedGet(n, type, field) # Threw)
            <=> Storage!get_parameter_type(parameters[n]) = type
      BY <3>1 DEF Storage!TypedGet, Storage!has_parameter
    <3>3. (Storage!TypedGet(n, type, field)' # Threw)
            <=> Storage!get_parameter_type(parameters'[n]) = type
      BY <2>1, <3>1 DEF Storage!TypedGet, Storage!has_parameter, Storage!get_parameter_type
    <3> QED  BY <2>1, <3>2, <3>3
  <2>3. {"bool_value", "integer_value", "double_value", "string_value"} = Fields
    BY DEF Fields
  <2> QED
    BY <2>1, <2>2, <2>3
       DEF Storage!Readable, Storage!has_parameter, Storage!get_parameter_bool,
           Storage!get_parameter_int, Storage!get_parameter_double, Storage!get_parameter_string
<1> QED  BY <1>1, StorageTyped, PTL DEF Storage!Spec, Storage!GettersStable

-----------------------------------------------------------------------------
(* The handlers.                                                             *)

(* An update within a handler is one of the program's kind. *)
LEMMA UpdateInUse ==
  ASSUME HandlerOK, Working("set_parameters")
  PROVE  request.args[item].name \in Names /\ request.args[item].value \in Values
<1>1. PICK s \in Services : request \in RequestsTo(s)
  BY DEF HandlerOK, Working
<1>2. s = "set_parameters" /\ request.args \in Seq([name : Names, value : Values])
  BY <1>1 DEF RequestsTo, Working, ArgsOf
<1>3. item \in 1 .. Len(request.args)
  BY <1>2, LoopLengthIsNat, <1>1 DEF Working, HandlerOK, LoopLength
<1>4. \A S, updates, i : updates \in Seq(S) /\ i \in 1 .. Len(updates) => updates[i] \in S
  OBVIOUS
<1>5. request.args[item] \in [name : Names, value : Values]
  BY <1>2, <1>3, <1>4, Zenon
<1> QED  BY <1>5

(* A new request may displace an old one, but never another service's. *)
LEMMA SendKeepsQueues ==
  ASSUME SInv, NEW caller \in Callers, NEW content \in Contents, Send(caller, content)
  PROVE  sent' \in [Callers -> 0 .. MaxRequests] /\ QueuesOK(queue')
<1> DEFINE s == content.service
           new == [id |-> <<caller, sent'[caller]>>, service |-> s, args |-> content.args]
<1>1. sent' \in [Callers -> 0 .. MaxRequests] /\ sent'[caller] \in 1 .. MaxRequests
  BY ServiceAssumption DEF SInv, Send
<1>2. s \in Services /\ new \in RequestsTo(s)
  BY <1>1, ServiceAssumption DEF RequestsTo, Ids
<1>3. queue[s] \in Seq(RequestsTo(s)) /\ Len(queue[s]) <= QueueDepth
  BY <1>2 DEF SInv, QueuesOK
<1>4. QueueDepth \in Nat \ {0}
  BY ServiceAssumption
<1> DEFINE r == Enqueue(queue[s], new, QueueDepth)
<1>5. r \in Seq(RequestsTo(s)) /\ Len(r) <= QueueDepth
  <2> HIDE DEF new, s
  <2>1. CASE Len(queue[s]) < QueueDepth
    BY <2>1, <1>2, <1>3, <1>4 DEF Enqueue
  <2>2. CASE ~(Len(queue[s]) < QueueDepth)
    BY <2>2, <1>2, <1>3, <1>4 DEF Enqueue
  <2> QED  BY <2>1, <2>2
<1>6. queue' = [queue EXCEPT ![s] = r] \/ queue' = queue
  BY DEF Send
<1> HIDE DEF r, new, s
<1> QED  BY <1>1, <1>2, <1>5, <1>6 DEF SInv, QueuesOK

(* A new service has the type: nothing is stored, queued or handled.         *)
LEMMA SInvInitially == Init => SInv
<1> SUFFICES ASSUME Init PROVE SInv
  OBVIOUS
<1>1. Storage!TypeOK
  BY DEF Init, Storage!Init, Storage!TypeOK
<1> QED
  BY <1>1, ServiceAssumption DEF Init, SInv, QueuesOK, HandlerOK

(* No handler, caller or update of the program breaks it.                    *)
LEMMA StepKeepsSInv == SInv /\ [Next]_vars => SInv'
<1> SUFFICES ASSUME SInv, [Next]_vars PROVE SInv'
  OBVIOUS
<1>1. ASSUME NEW name \in Names, NEW value \in Values, Declare(name, value) \/ Update(name, value)
      PROVE  SInv'
  <2>1. Storage!TypeOK'
    BY <1>1, StorageStepTyped DEF SInv, Declare, Update
  <2> QED
    BY <1>1, <2>1 DEF SInv, Declare, Update, handler, HandlerOK, QueuesOK, LoopLength
<1>2. ASSUME NEW caller \in Callers, NEW content \in Contents, Send(caller, content)
      PROVE  SInv'
  BY <1>2, SendKeepsQueues
     DEF SInv, Send, handler, HandlerOK, LoopLength, Storage!TypeOK
<1>3. ASSUME NEW s \in Services, Take(s) PROVE SInv'
  <2>1. queue[s] \in Seq(RequestsTo(s)) /\ queue[s] # << >> /\ Len(queue[s]) <= QueueDepth
    BY <1>3 DEF SInv, QueuesOK, Take
  <2>2. QueuesOK(queue')
    <3>1. Tail(queue[s]) \in Seq(RequestsTo(s)) /\ Len(Tail(queue[s])) <= QueueDepth
      BY <2>1, ServiceAssumption
    <3> QED  BY <1>3, <3>1 DEF SInv, QueuesOK, Take
  <2>3. request' \in RequestsTo(s) /\ item' = 1
    BY <1>3, <2>1 DEF Take
  <2>4. LoopLength' \in Nat
    <3>1. request'.service = s /\ request'.args \in ArgsOf(s)
      BY <2>3 DEF RequestsTo
    <3>2. CASE s = "get_parameters"
      BY <3>1, <3>2 DEF LoopLength, ArgsOf
    <3>3. CASE s = "set_parameters"
      BY <3>1, <3>3 DEF LoopLength, ArgsOf
    <3>4. CASE s \in {"list_parameters", "describe_parameters"}
      BY <3>1, <3>4 DEF LoopLength
    <3> QED  BY <3>2, <3>3, <3>4 DEF Services
  <2>5. item' \in 1 .. LoopLength' + 1
    <3>1. \A n \in Nat : 1 \in 1 .. n + 1
      OBVIOUS
    <3> QED  BY <2>3, <2>4, <3>1, Zenon
  <2>6. HandlerOK'
    BY <2>3, <2>5, Zenon DEF HandlerOK
  <2> QED
    BY <1>3, <2>2, <2>6 DEF SInv, Take, Storage!TypeOK
<1>4. ASSUME Handle PROVE SInv'
  <2>1. CASE Respond
    BY <2>1 DEF Respond, SInv, HandlerOK, QueuesOK, Storage!TypeOK
  <2>2. CASE GetStep \/ SetStep \/ ListStep
    <3>1. /\ request # None /\ request' = request /\ item <= LoopLength /\ item' = item + 1
          /\ UNCHANGED <<sent, queue>>
      BY <2>2 DEF GetStep, SetStep, ListStep, Working
    <3>2. PICK s \in Services : request \in RequestsTo(s)
      BY <3>1 DEF SInv, HandlerOK
    <3>3. LoopLength \in Nat /\ LoopLength' = LoopLength
      BY <3>1, <3>2, LoopLengthIsNat DEF LoopLength
    <3>4. HandlerOK'
      BY <3>1, <3>2, <3>3 DEF SInv, HandlerOK
    <3>5. Storage!TypeOK'
      <4>1. CASE SetStep
        BY <4>1, UpdateInUse, StorageStepTyped DEF SetStep, SInv
      <4>2. CASE GetStep \/ ListStep
        BY <4>2 DEF GetStep, ListStep, SInv, Storage!TypeOK
      <4> QED  BY <2>2, <4>1, <4>2
    <3> QED  BY <3>1, <3>4, <3>5 DEF SInv, QueuesOK
  <2> QED  BY <1>4, <2>1, <2>2 DEF Handle
<1>5. CASE UNCHANGED vars
  BY <1>5 DEF vars, handler, SInv, QueuesOK, HandlerOK, LoopLength, Storage!TypeOK
<1> QED  BY <1>1, <1>2, <1>3, <1>4, <1>5 DEF Next

(* So it always holds.                                                       *)
LEMMA Invariance == Spec => []SInv
BY SInvInitially, StepKeepsSInv, PTL DEF Spec

(* Requests stay in the queue of their service, within its depth, and the    *)
(* storage holds values of the message type under names in use.              *)
THEOREM ServiceTypeCorrect == Spec => []TypeOK
<1>1. SInv => TypeOK
  <2> SUFFICES ASSUME SInv PROVE TypeOK
    OBVIOUS
  <2>1. ASSUME NEW s \in Services PROVE
        /\ Len(queue[s]) <= QueueDepth
        /\ \A i \in 1 .. Len(queue[s]) : queue[s][i].service = s /\ queue[s][i].id \in Ids
    <3>1. queue[s] \in Seq(RequestsTo(s)) /\ Len(queue[s]) <= QueueDepth
      BY DEF SInv, QueuesOK
    <3>2. \A i \in 1 .. Len(queue[s]) : queue[s][i] \in RequestsTo(s)
      BY <3>1
    <3> QED  BY <3>1, <3>2 DEF RequestsTo
  <2>2. request # None => request.id \in Ids /\ item \in 1 .. LoopLength + 1
    BY DEF SInv, HandlerOK, RequestsTo
  <2> QED  BY <2>1, <2>2 DEF SInv, TypeOK
<1> QED  BY <1>1, Invariance, PTL

(* Whatever callers ask and the program does meanwhile, the storage sees      *)
(* nothing but its own declarations and updates.                              *)
THEOREM UsesStorage == Spec => Storage!Spec
<1>1. Init => Storage!Init
  BY DEF Init
<1>2. SInv /\ [Next]_vars => [Storage!Next]_parameters
  <2> SUFFICES ASSUME SInv, [Next]_vars, parameters' # parameters PROVE Storage!Next
    OBVIOUS
  <2>1. ASSUME NEW name \in Names, NEW value \in Values, Declare(name, value) \/ Update(name, value)
        PROVE  Storage!Next
    BY <2>1, SameNames DEF Declare, Update, Storage!Next
  <2>2. CASE SetStep
    <3> DEFINE update == request.args[item]
    <3>1. update.name \in Storage!Names /\ update.value \in Values
      BY <2>2, UpdateInUse, SameNames DEF SetStep, SInv
    <3>2. Storage!set_parameter(update.name, update.value)
      BY <2>2 DEF SetStep
    <3> HIDE DEF update
    <3> QED  BY <3>1, <3>2 DEF Storage!Next
  <2>3. CASE ~SetStep /\ \A name \in Names, value \in Values : ~Declare(name, value) /\ ~Update(name, value)
    BY <2>3 DEF Next, vars, Send, Take, Handle, GetStep, ListStep, Respond
  <2> QED  BY <2>1, <2>2, <2>3
<1> QED  BY <1>1, <1>2, Invariance, PTL DEF Spec, Storage!Spec

(* No request and no update of the program makes a typed getter that works   *)
(* for a parameter throw, or one that throws work.                           *)
THEOREM ServiceKeepsGetters == Spec => GettersStable
BY UsesStorage, GettersNeverChange, PTL DEF GettersStable

-----------------------------------------------------------------------------
(* The answers.                                                              *)

(* Which updates fit depends on the types of the stored values alone. *)
LEMMA FitsByType ==
  ASSUME NEW store, NEW store2, DOMAIN store2 = DOMAIN store,
         \A n \in DOMAIN store : get_parameter_type(store2[n]) = get_parameter_type(store[n]),
         NEW update
  PROVE  Fits(store2, update) <=> Fits(store, update)
BY DEF Fits

(* The last of some positions, if there are any, is the last also when an *)
(* earlier one is added.                                                  *)
LEMMA LatestOfLater ==
  ASSUME NEW positions \in SUBSET Int, NEW first \in Int, \A i \in positions : first < i
  PROVE  Latest({first} \cup positions) = IF positions = {} THEN first ELSE Latest(positions)
<1> DEFINE Last(P) == {p \in P : \A j \in P : j <= p}
<1>1. CASE positions = {}
  <2>1. Last({first} \cup positions) = {first}
    BY <1>1
  <2> QED  BY <1>1, <2>1 DEF Latest, The
<1>2. CASE positions # {}
  <2>1. PICK later \in positions : first < later
    BY <1>2
  <2>2. ASSUME NEW p
        PROVE  p \in Last({first} \cup positions) <=> p \in Last(positions)
    <3>1. ASSUME p \in Last({first} \cup positions) PROVE p \in Last(positions)
      <4>1. p # first
        BY <2>1, <3>1
      <4> QED  BY <3>1, <4>1
    <3>2. ASSUME p \in Last(positions) PROVE p \in Last({first} \cup positions)
      <4>1. p \in Int /\ first < p
        BY <3>2
      <4> QED  BY <3>2, <4>1
    <3> QED  BY <3>1, <3>2
  <2>3. Last({first} \cup positions) = Last(positions)
    BY <2>2
  <2> QED  BY <1>2, <2>3 DEF Latest
<1> QED  BY <1>1, <1>2

(* What is stored after the rest of the updates is what is stored when the  *)
(* first of them has been carried out, and then the others.                 *)
LEMMA StoreAfterNext ==
  ASSUME NEW store, NEW store2, NEW args, Len(args) \in Nat, NEW from \in 1 .. Len(args),
         DOMAIN store2 = DOMAIN store,
         \A n \in DOMAIN store :
           store2[n] = IF Fits(store, args[from]) /\ n = args[from].name
                       THEN args[from].value ELSE store[n]
  PROVE  /\ \A update : Fits(store2, update) <=> Fits(store, update)
         /\ StoreAfter(store2, "set_parameters", args, from + 1)
              = StoreAfter(store, "set_parameters", args, from)
<1>1. \A n \in DOMAIN store : get_parameter_type(store2[n]) = get_parameter_type(store[n])
  <2> SUFFICES ASSUME NEW n \in DOMAIN store
               PROVE  get_parameter_type(store2[n]) = get_parameter_type(store[n])
    OBVIOUS
  <2>1. CASE Fits(store, args[from]) /\ n = args[from].name
    <3>1. store2[n] = args[from].value
      BY <2>1
    <3>2. get_parameter_type(store[n]) = get_parameter_type(args[from].value)
      BY <2>1 DEF Fits
    <3> QED  BY <3>1, <3>2
  <2>2. CASE ~(Fits(store, args[from]) /\ n = args[from].name)
    <3>1. store2[n] = store[n]
      BY <2>2
    <3> QED  BY <3>1
  <2> QED  BY <2>1, <2>2
<1>2. \A update : Fits(store2, update) <=> Fits(store, update)
  BY <1>1, FitsByType
<1>3. ASSUME NEW n \in DOMAIN store
      PROVE  (IF Updates(store2, args, from + 1, n) = {} THEN store2[n]
              ELSE args[Latest(Updates(store2, args, from + 1, n))].value)
             = (IF Updates(store, args, from, n) = {} THEN store[n]
                ELSE args[Latest(Updates(store, args, from, n))].value)
  <2> DEFINE rest == Updates(store2, args, from + 1, n)
             all == Updates(store, args, from, n)
  <2>1. rest \in SUBSET Int /\ \A i \in rest : from < i
    BY DEF Updates
  <2>2. CASE Fits(store, args[from]) /\ args[from].name = n
    <3>1. all = {from} \cup rest
      <4>1. from .. Len(args) = {from} \cup (from + 1 .. Len(args))
        OBVIOUS
      <4>2. ASSUME NEW i PROVE i \in all <=> i \in {from} \cup rest
        BY <1>2, <2>2, <4>1, Zenon DEF Updates
      <4> QED  BY <4>2
    <3>2. store2[n] = args[from].value
      BY <2>2
    <3> HIDE DEF rest, all
    <3>3. Latest({from} \cup rest) = IF rest = {} THEN from ELSE Latest(rest)
      BY <2>1, LatestOfLater
    <3>4. Latest(all) = IF rest = {} THEN from ELSE Latest(rest)
      BY <3>1, <3>3, Zenon
    <3>5. all # {}
      BY <3>1
    <3>6. args[Latest(all)].value = IF rest = {} THEN store2[n] ELSE args[Latest(rest)].value
      BY <3>2, <3>4
    <3> QED  BY <3>5, <3>6 DEF rest, all
  <2>3. CASE ~(Fits(store, args[from]) /\ args[from].name = n)
    <3>1. all = rest
      <4>1. from .. Len(args) = {from} \cup (from + 1 .. Len(args))
        OBVIOUS
      <4>2. ASSUME NEW i PROVE i \in all <=> i \in rest
        BY <1>2, <2>3, <4>1, Zenon DEF Updates
      <4> QED  BY <4>2
    <3>2. store2[n] = store[n]
      BY <2>3
    <3> QED  BY <3>1, <3>2
  <2> QED  BY <2>2, <2>3
<1> QED
  BY <1>1, <1>2, <1>3 DEF StoreAfter

(* When nothing is left to do, nothing is changed any more. *)
LEMMA StoreAfterAll ==
  ASSUME NEW store, NEW args, Len(args) \in Nat
  PROVE  StoreAfter(store, "set_parameters", args, Len(args) + 1) = [n \in DOMAIN store |-> store[n]]
<1>1. \A n : Updates(store, args, Len(args) + 1, n) = {}
  BY DEF Updates
<1> QED  BY <1>1 DEF StoreAfter

(* A set request is answered by one result per update. *)
LEMMA SetReplyNext ==
  ASSUME NEW store, NEW S, NEW args \in Seq(S), NEW update \in S
  PROVE  Reply(store, "set_parameters", Append(args, update))
           = Append(Reply(store, "set_parameters", args), [successful |-> Fits(store, update)])
<1> DEFINE R(a) == [i \in 1 .. Len(a) |-> [successful |-> Fits(store, a[i])]]
<1>1. \A a : Reply(store, "set_parameters", a) = R(a)
  BY DEF Reply
<1> DEFINE outcome == [successful |-> Fits(store, update)]
           T == [successful : BOOLEAN]
<1>2. ASSUME NEW a, Len(a) \in Nat
      PROVE  R(a) \in Seq(T) /\ Len(R(a)) = Len(a)
             /\ \A i \in 1 .. Len(a) : R(a)[i] = [successful |-> Fits(store, a[i])]
  <2>1. \A i \in 1 .. Len(a) : [successful |-> Fits(store, a[i])] \in T
    BY DEF Fits
  <2> QED  BY <1>2, <2>1
<1>3. Append(args, update) \in Seq(S) /\ Len(Append(args, update)) = Len(args) + 1
      /\ Len(args) \in Nat /\ Len(args) + 1 \in Nat
      /\ \A i \in 1 .. Len(args) + 1 :
           Append(args, update)[i] = IF i = Len(args) + 1 THEN update ELSE args[i]
  OBVIOUS
<1> HIDE DEF R, T
<1>4. R(args) \in Seq(T) /\ Len(R(args)) = Len(args) /\ outcome \in T
  BY <1>2, <1>3 DEF T, Fits
<1>5. R(Append(args, update)) \in Seq(T) /\ Len(R(Append(args, update))) = Len(args) + 1
  BY <1>2, <1>3
<1>6. ASSUME NEW i \in 1 .. Len(args) + 1
      PROVE  R(Append(args, update))[i] = IF i = Len(args) + 1 THEN outcome ELSE R(args)[i]
  <2>1. R(Append(args, update))[i] = [successful |-> Fits(store, Append(args, update)[i])]
    BY <1>2, <1>3
  <2>2. CASE i = Len(args) + 1
    <3>1. Append(args, update)[i] = update
      BY <1>3, <2>2
    <3> QED  BY <2>1, <2>2, <3>1
  <2>3. CASE i # Len(args) + 1
    <3>1. Append(args, update)[i] = args[i] /\ i \in 1 .. Len(args)
      BY <1>3, <2>3
    <3>2. R(args)[i] = [successful |-> Fits(store, args[i])]
      BY <1>2, <1>3, <3>1
    <3> QED  BY <2>1, <2>3, <3>1, <3>2
  <2> QED  BY <2>2, <2>3
<1> HIDE DEF outcome
<1>7. Append(R(args), outcome) = R(Append(args, update))
  <2> DEFINE q == Append(R(args), outcome)
             r == R(Append(args, update))
  <2>1. q \in Seq(T) /\ r \in Seq(T) /\ Len(q) = Len(r) /\ \A i \in 1 .. Len(q) : q[i] = r[i]
    BY <1>3, <1>4, <1>5, <1>6
  <2> HIDE DEF q, r
  <2>2. q = r
    BY <2>1, SeqEqual
  <2> QED  BY <2>2 DEF q, r
<1> QED  BY <1>1, <1>7 DEF outcome

(* A get request is answered by one value per declared name. *)
LEMMA GetReplyNext ==
  ASSUME NEW store, NEW S, NEW names \in Seq(S), NEW name \in S
  PROVE  Reply(store, "get_parameters", Append(names, name))
           = IF name \in DOMAIN store
             THEN Append(Reply(store, "get_parameters", names), store[name])
             ELSE Reply(store, "get_parameters", names)
<1> DEFINE more == Append(names, name)
           n == Len(names)
           K == Declared(store, names)
           L == Declared(store, more)
           value(k) == The({store[names[i]] : i \in Ranked(K, k)})
           value2(k) == The({store[more[i]] : i \in Ranked(L, k)})
<1>1. n \in Nat /\ Len(more) = n + 1 /\ more[n + 1] = name /\ \A i \in 1 .. n : more[i] = names[i]
  OBVIOUS
<1>2. Reply(store, "get_parameters", names) = [k \in 1 .. Cardinality(K) |-> value(k)]
      /\ Reply(store, "get_parameters", more) = [k \in 1 .. Cardinality(L) |-> value2(k)]
  BY DEF Reply, ValuesOf
<1>3. IsFiniteSet(K) /\ Cardinality(K) \in Nat /\ K \subseteq 1 .. n
  <2>1. K \subseteq 1 .. n
    BY DEF Declared
  <2>2. IsFiniteSet(1 .. n)
    <3>1. 1 \in Int /\ n \in Int
      BY <1>1
    <3> HIDE DEF n
    <3> QED  BY <3>1, FS_Interval, Zenon
  <2> QED  BY <2>1, <2>2, FS_Subset, FS_CardinalityType
<1>4. L = IF name \in DOMAIN store THEN K \cup {n + 1} ELSE K
  <2>1. ASSUME NEW i PROVE i \in L <=> i \in K \/ (i = n + 1 /\ name \in DOMAIN store)
    BY <1>1 DEF Declared
  <2> QED  BY <2>1
<1>5. ASSUME NEW k, Ranked(L, k) = Ranked(K, k) PROVE value2(k) = value(k)
  <2>1. \A i \in Ranked(K, k) : more[i] = names[i]
    BY <1>1, <1>3 DEF Ranked
  <2>2. {store[more[i]] : i \in Ranked(L, k)} = {store[names[i]] : i \in Ranked(K, k)}
    BY <1>5, <2>1
  <2> QED  BY <2>2
<1>6. CASE name \notin DOMAIN store
  <2>1. L = K
    BY <1>4, <1>6
  <2> HIDE DEF K, L
  <2>2. \A k : Ranked(L, k) = Ranked(K, k)
    BY <2>1
  <2>3. \A k : value2(k) = value(k)
    BY <1>5, <2>2
  <2> HIDE DEF value, value2
  <2> QED  BY <1>2, <1>6, <2>1, <2>3
<1>7. CASE name \in DOMAIN store
  <2>1. L = K \cup {n + 1} /\ n + 1 \notin K
    BY <1>1, <1>3, <1>4, <1>7
  <2> HIDE DEF K, L, more
  <2>2. IsFiniteSet(L) /\ Cardinality(L) = Cardinality(K) + 1
    BY <1>3, <2>1, FS_AddElement
  <2>3. ASSUME NEW i \in K PROVE {j \in L : j <= i} = {j \in K : j <= i}
    BY <1>1, <1>3, <2>1
  <2>4. {j \in L : j <= n + 1} = L
    <3>1. \A j \in L : j <= n + 1
      BY <1>1, <1>3, <2>1
    <3> QED  BY <3>1
  <2>5. ASSUME NEW i \in K PROVE Cardinality({j \in K : j <= i}) <= Cardinality(K)
    BY <1>3, FS_Subset
  <2>6. ASSUME NEW i \in K PROVE Cardinality({j \in K : j <= i}) \in Nat
    BY <1>3, FS_Subset, FS_CardinalityType
  <2>7. ASSUME NEW k \in 1 .. Cardinality(K) PROVE Ranked(L, k) = Ranked(K, k)
    <3>1. Cardinality({j \in L : j <= n + 1}) = Cardinality(K) + 1
      BY <2>2, <2>4
    <3>2. Cardinality({j \in L : j <= n + 1}) # k
      BY <1>3, <3>1
    <3>3. ASSUME NEW i PROVE i \in Ranked(L, k) <=> i \in Ranked(K, k)
      BY <2>1, <2>3, <3>2, Zenon DEF Ranked
    <3> QED  BY <3>3
  <2>8. Ranked(L, Cardinality(K) + 1) = {n + 1}
    <3>1. ASSUME NEW i \in K PROVE Cardinality({j \in L : j <= i}) # Cardinality(K) + 1
      BY <1>3, <2>3, <2>5, <2>6
    <3>2. Cardinality({j \in L : j <= n + 1}) = Cardinality(K) + 1
      BY <2>2, <2>4
    <3>3. ASSUME NEW i PROVE i \in Ranked(L, Cardinality(K) + 1) <=> i \in {n + 1}
      BY <2>1, <3>1, <3>2, Zenon DEF Ranked
    <3> QED  BY <3>3
  <2>9. \A k \in 1 .. Cardinality(K) : value2(k) = value(k)
    BY <1>5, <2>7
  <2>10. value2(Cardinality(K) + 1) = store[name]
    <3>1. {store[more[i]] : i \in Ranked(L, Cardinality(K) + 1)} = {store[name]}
      BY <1>1, <2>8
    <3>2. value2(Cardinality(K) + 1) = The({store[name]})
      BY <3>1
    <3> QED  BY <3>2 DEF The
  <2> HIDE DEF value, value2
  <2> DEFINE T == {value(k) : k \in 1 .. Cardinality(K)} \cup {store[name]}
             q == [k \in 1 .. Cardinality(K) |-> value(k)]
             r == [k \in 1 .. Cardinality(L) |-> value2(k)]
  <2>11. q \in Seq(T) /\ Len(q) = Cardinality(K) /\ store[name] \in T
         /\ \A k \in 1 .. Cardinality(K) : q[k] = value(k)
    BY <1>3
  <2>12. r \in Seq(T) /\ Len(r) = Cardinality(K) + 1
         /\ \A k \in 1 .. Cardinality(K) + 1 :
              r[k] = IF k = Cardinality(K) + 1 THEN store[name] ELSE value(k)
    <3>1. \A k \in 1 .. Cardinality(K) + 1 :
            value2(k) = IF k = Cardinality(K) + 1 THEN store[name] ELSE value(k)
      BY <1>3, <2>9, <2>10
    <3>2. \A k \in 1 .. Cardinality(K) + 1 : value2(k) \in T
      BY <1>3, <3>1
    <3> QED  BY <1>3, <2>2, <3>1, <3>2
  <2> HIDE DEF T, q, r
  <2>13. Append(q, store[name]) \in Seq(T) /\ Len(Append(q, store[name])) = Cardinality(K) + 1
         /\ \A k \in 1 .. Cardinality(K) + 1 :
              Append(q, store[name])[k] = IF k = Cardinality(K) + 1 THEN store[name] ELSE value(k)
    BY <1>3, <2>11
  <2>14. \A k \in 1 .. Len(r) : r[k] = Append(q, store[name])[k]
    BY <2>12, <2>13
  <2>15. r = Append(q, store[name])
    BY <2>12, <2>13, <2>14, SeqEqual
  <2> QED  BY <1>2, <1>7, <2>15 DEF q, r, more
<1> QED  BY <1>6, <1>7

(* No name, no value; no update, no result. *)
LEMMA ReplyToNothing ==
  ASSUME NEW store, NEW service \in {"get_parameters", "set_parameters", "describe_parameters"}
  PROVE  Reply(store, service, << >>) = << >>
<1>1. CASE service = "get_parameters"
  <2>1. Declared(store, << >>) = {}
    BY DEF Declared
  <2>2. Cardinality(Declared(store, << >>)) = 0
    BY <2>1, FS_EmptySet
  <2> QED  BY <1>1, <2>2 DEF Reply, ValuesOf
<1>2. CASE service # "get_parameters"
  BY <1>2 DEF Reply
<1> QED  BY <1>1, <1>2

(* The abstract server answers and stores by the same functions. *)
LEMMA SameAnswers ==
  /\ \A s, service, args : PS!Reply(s, service, args) = Reply(s, service, args)
  /\ \A s, service, args, from :
       PS!StoreAfter(s, service, args, from) = StoreAfter(s, service, args, from)
<1>1. \A v : PS!get_parameter_type(v) = get_parameter_type(v)
  <2>1. PS!TypeOfTag = TypeOfTag
    BY DEF PS!TypeOfTag, TypeOfTag,
           PS!PARAMETER_BOOL, PARAMETER_BOOL, PS!PARAMETER_INTEGER, PARAMETER_INTEGER,
           PS!PARAMETER_DOUBLE, PARAMETER_DOUBLE, PS!PARAMETER_STRING, PARAMETER_STRING,
           PS!PARAMETER_BYTE_ARRAY, PARAMETER_BYTE_ARRAY,
           PS!PARAMETER_BOOL_ARRAY, PARAMETER_BOOL_ARRAY,
           PS!PARAMETER_INTEGER_ARRAY, PARAMETER_INTEGER_ARRAY,
           PS!PARAMETER_DOUBLE_ARRAY, PARAMETER_DOUBLE_ARRAY,
           PS!PARAMETER_STRING_ARRAY, PARAMETER_STRING_ARRAY
  <2> QED  BY <2>1 DEF PS!get_parameter_type, get_parameter_type,
                       PS!PARAMETER_NOT_SET, PARAMETER_NOT_SET
<1>2. \A s, update : PS!Fits(s, update) = Fits(s, update)
  BY <1>1, Zenon DEF PS!Fits, Fits
<1>3. \A s, updates, from, name : PS!Updates(s, updates, from, name) = Updates(s, updates, from, name)
  BY <1>2, Zenon DEF PS!Updates, Updates
<1>4. \A set : PS!The(set) = The(set)
  BY Zenon DEF PS!The, The
<1>5. \A positions : PS!Latest(positions) = Latest(positions)
  BY <1>4, Zenon DEF PS!Latest, Latest
<1>6. ASSUME NEW s, NEW args, NEW from
      PROVE  PS!StoreAfter(s, "set_parameters", args, from) = StoreAfter(s, "set_parameters", args, from)
  BY <1>3, <1>5 DEF PS!StoreAfter, StoreAfter
<1>7. \A s, names : PS!ValuesOf(s, names) = ValuesOf(s, names)
  <2>1. \A s, names : PS!Declared(s, names) = Declared(s, names)
    BY Zenon DEF PS!Declared, Declared
  <2>2. \A S : PS!Cardinality(S) = Cardinality(S)
    BY DEF PS!Cardinality, Cardinality
  <2>3. \A positions, k : PS!Ranked(positions, k) = Ranked(positions, k)
    BY <2>2, Zenon DEF PS!Ranked, Ranked
  <2>4. ASSUME NEW s, NEW names PROVE PS!ValuesOf(s, names) = ValuesOf(s, names)
    BY <1>4, <2>1, <2>2, <2>3 DEF PS!ValuesOf, ValuesOf
  <2> QED  BY <2>4
<1>8. \A s : PS!NamesIn(s) = NamesIn(s)
  BY DEF PS!NamesIn, NamesIn
<1>9. ASSUME NEW s, NEW service, NEW args
      PROVE  PS!Reply(s, service, args) = Reply(s, service, args)
  BY <1>2, <1>7, <1>8 DEF PS!Reply, Reply
<1>10. ASSUME NEW s, NEW service, NEW args, NEW from
       PROVE  PS!StoreAfter(s, service, args, from) = StoreAfter(s, service, args, from)
  BY <1>6 DEF PS!StoreAfter, StoreAfter
<1> QED  BY <1>9, <1>10

(* And the storage accepts what fits, and lists the names it has.            *)
LEMMA StorageAnswers ==
  /\ Storage!get_parameter_names = NamesIn(parameters)
  /\ \A u : Storage!Accepts(u.name, u.value) = Fits(parameters, u)
<1>1. \A v : Storage!get_parameter_type(v) = get_parameter_type(v)
  <2>1. Storage!TypeOfTag = TypeOfTag
    BY DEF Storage!TypeOfTag, TypeOfTag,
           Storage!PARAMETER_BOOL, PARAMETER_BOOL, Storage!PARAMETER_INTEGER, PARAMETER_INTEGER,
           Storage!PARAMETER_DOUBLE, PARAMETER_DOUBLE, Storage!PARAMETER_STRING, PARAMETER_STRING,
           Storage!PARAMETER_BYTE_ARRAY, PARAMETER_BYTE_ARRAY,
           Storage!PARAMETER_BOOL_ARRAY, PARAMETER_BOOL_ARRAY,
           Storage!PARAMETER_INTEGER_ARRAY, PARAMETER_INTEGER_ARRAY,
           Storage!PARAMETER_DOUBLE_ARRAY, PARAMETER_DOUBLE_ARRAY,
           Storage!PARAMETER_STRING_ARRAY, PARAMETER_STRING_ARRAY
  <2> QED  BY <2>1 DEF Storage!get_parameter_type, get_parameter_type,
                       Storage!PARAMETER_NOT_SET, PARAMETER_NOT_SET
<1>2. \A u : Storage!Accepts(u.name, u.value) = Fits(parameters, u)
  BY <1>1 DEF Storage!Accepts, Storage!has_parameter, Fits
<1>3. Storage!get_parameter_names = NamesIn(parameters)
  BY DEF Storage!get_parameter_names, Storage!NamesIn, NamesIn
<1> QED  BY <1>2, <1>3

(* The arguments up to a position are those before it, and the one there.    *)
LEMMA NextArgument ==
  ASSUME NEW S, NEW args \in Seq(S), NEW i \in 1 .. Len(args)
  PROVE  /\ args[i] \in S /\ SubSeq(args, 1, i - 1) \in Seq(S)
         /\ SubSeq(args, 1, i) = Append(SubSeq(args, 1, i - 1), args[i])
<1> DEFINE q == SubSeq(args, 1, i)
           before == SubSeq(args, 1, i - 1)
           r == Append(before, args[i])
<1>1. \A j \in 1 .. Len(args) : args[j] \in S
  OBVIOUS
<1>2. i \in Nat /\ i - 1 \in Nat /\ i <= Len(args) /\ 1 \in Int /\ Len(args) \in Nat
  OBVIOUS
<1>3. q \in Seq(S) /\ Len(q) = i /\ \A j \in 1 .. i : q[j] = args[j]
  BY <1>1, <1>2, SubSeqProperties
<1>4. before \in Seq(S) /\ Len(before) = i - 1 /\ \A j \in 1 .. i - 1 : before[j] = args[j]
  BY <1>1, <1>2, SubSeqProperties
<1> HIDE DEF q, before
<1>5. r \in Seq(S) /\ Len(r) = i /\ \A j \in 1 .. i : r[j] = IF j = i THEN args[i] ELSE before[j]
  BY <1>1, <1>2, <1>4
<1> HIDE DEF r
<1>6. \A j \in 1 .. Len(q) : q[j] = r[j]
  BY <1>2, <1>3, <1>4, <1>5
<1>7. q = r
  BY <1>3, <1>5, <1>6, SeqEqual
<1> QED  BY <1>1, <1>4, <1>7 DEF q, r, before

(* A result says whether an update fits and nothing else. *)
LEMMA SameResults ==
  ASSUME NEW store, NEW store2, \A update : Fits(store2, update) <=> Fits(store, update),
         NEW args
  PROVE  Reply(store2, "set_parameters", args) = Reply(store, "set_parameters", args)
<1>1. \A s, update : Fits(s, update) \in BOOLEAN
  BY DEF Fits
<1>2. \A update : Fits(store2, update) = Fits(store, update)
  BY <1>1
<1> QED  BY <1>2 DEF Reply

-----------------------------------------------------------------------------
(* One request at a time.                                                    *)

Elements(q) == {q[i] : i \in 1 .. Len(q)}

(* What a queue holds was sent, and nothing twice. *)
Queued(q, issued) ==
  \A i \in 1 .. Len(q) :
    /\ q[i] \in PS!Requests /\ q[i].id \in issued
    /\ \A j \in 1 .. Len(q) : q[i].id = q[j].id => i = j

(* The response under construction is the reply to the part of the request   *)
(* that has been worked off, by the parameters as they are now.              *)
ReplyInv ==
  request # None =>
    reply = IF item = 1 THEN << >>
            ELSE Reply(parameters, request.service, SubSeq(request.args, 1, item - 1))

RInv ==
  /\ parameters = [n \in DOMAIN parameters |-> parameters[n]]
  /\ \A s \in Services : Queued(queue[s], Issued)
  /\ ReplyInv

(* At the start nothing is stored, queued or handled. *)
LEMMA RInvInitially == Init => RInv
BY DEF Init, Storage!Init, RInv, Queued, ReplyInv

(* A caller numbers its requests. *)
LEMMA SendIsNew ==
  ASSUME SInv, NEW caller \in Callers, NEW content \in Contents, Send(caller, content)
  PROVE  LET new == [id |-> <<caller, sent'[caller]>>,
                     service |-> content.service, args |-> content.args]
         IN  /\ new \in PS!Requests /\ new \in RequestsTo(content.service)
             /\ content.service \in Services
             /\ new.id \in Ids /\ new.id \notin Issued
             /\ Issued' = Issued \cup {new.id}
<1> DEFINE id == <<caller, sent'[caller]>>
<1>1. /\ sent \in [Callers -> 0 .. MaxRequests] /\ sent[caller] < MaxRequests /\ MaxRequests \in Nat
      /\ sent' = [sent EXCEPT ![caller] = sent[caller] + 1]
  BY ServiceAssumption DEF SInv, Send
<1>2. sent'[caller] = sent[caller] + 1 /\ sent'[caller] \in 1 .. MaxRequests
      /\ \A c \in Callers : c # caller => sent'[c] = sent[c]
  BY <1>1
<1>3. id \in Ids
  BY <1>2 DEF Ids
<1>4. id \notin Issued
  BY <1>1, <1>2 DEF Issued
<1>5. ASSUME NEW other \in Ids
      PROVE  other[2] <= sent'[other[1]] <=> other[2] <= sent[other[1]] \/ other = id
  <2>1. PICK c \in Callers, k \in 1 .. MaxRequests : other = <<c, k>>
    BY DEF Ids
  <2>2. CASE c = caller
    BY <1>1, <1>2, <2>1, <2>2
  <2>3. CASE c # caller
    BY <1>2, <2>1, <2>3
  <2> QED  BY <2>2, <2>3
<1>6. Issued' = Issued \cup {id}
  BY <1>3, <1>5 DEF Issued
<1>7. content.service \in Services /\ content.args \in ArgsOf(content.service)
  BY ServiceAssumption
<1> QED  BY <1>3, <1>4, <1>6, <1>7 DEF PS!Requests, RequestsTo

(* And a queue stays one of different requests, wherever it drops one. *)
LEMMA EnqueueNew ==
  ASSUME NEW S, NEW q \in Seq(S), NEW new \in S, NEW issued, Queued(q, issued),
         new \in PS!Requests, new.id \notin issued
  PROVE  LET all == issued \cup {new.id}
         IN  Queued(q, all) /\ Queued(Enqueue(q, new, QueueDepth), all)
<1> DEFINE r == Enqueue(q, new, QueueDepth)
           all == issued \cup {new.id}
<1>1. QueueDepth \in Nat \ {0}
  BY ServiceAssumption
<1>2. r \in Seq(S)
  BY <1>1, EnqueueShifts
<1>3. PICK k \in {0, 1} : /\ Len(r) = Len(q) - k + 1 /\ r[Len(r)] = new
                          /\ \A i \in 1 .. Len(r) - 1 : r[i] = q[i + k]
  BY <1>1, EnqueueShifts
<1> HIDE DEF r
<1>4. Len(q) \in Nat /\ Len(r) \in Nat
  BY <1>2
<1>5. ASSUME NEW i \in 1 .. Len(r) - 1
      PROVE  i + k \in 1 .. Len(q) /\ r[i] = q[i + k]
  BY <1>3, <1>4
<1>6. \A i \in 1 .. Len(q) : q[i] \in PS!Requests /\ q[i].id \in issued
  BY DEF Queued
<1>7. ASSUME NEW i \in 1 .. Len(r)
      PROVE  /\ r[i] \in PS!Requests /\ r[i].id \in all
             /\ \A j \in 1 .. Len(r) : r[i].id = r[j].id => i = j
  <2>1. i = Len(r) \/ i \in 1 .. Len(r) - 1
    BY <1>4
  <2>2. r[i] \in PS!Requests /\ r[i].id \in all
    BY <1>3, <1>5, <1>6, <2>1
  <2>3. ASSUME NEW j \in 1 .. Len(r), r[i].id = r[j].id PROVE i = j
    <3>1. j = Len(r) \/ j \in 1 .. Len(r) - 1
      BY <1>4
    <3>2. CASE i = Len(r) \/ j = Len(r)
      BY <1>3, <1>5, <1>6, <2>1, <2>3, <3>1, <3>2
    <3>3. CASE i \in 1 .. Len(r) - 1 /\ j \in 1 .. Len(r) - 1
      <4>1. /\ i + k \in 1 .. Len(q) /\ j + k \in 1 .. Len(q)
            /\ q[i + k].id = q[j + k].id
        BY <1>5, <2>3, <3>3
      <4>2. i + k = j + k
        BY <4>1 DEF Queued
      <4> QED  BY <1>3, <4>2
    <3> QED  BY <2>1, <3>1, <3>2, <3>3
  <2> QED  BY <2>2, <2>3
<1> QED  BY <1>6, <1>7 DEF Queued, r

(* Neither is anything twice in a queue that has lost its head, and what is  *)
(* left are the other requests.                                              *)
LEMMA TailOfQueued ==
  ASSUME NEW S, NEW q \in Seq(S), q # << >>, NEW issued, Queued(q, issued)
  PROVE  /\ Queued(Tail(q), issued)
         /\ Elements(Tail(q)) = Elements(q) \ {Head(q)}
<1>1. /\ Len(q) \in Nat \ {0} /\ Len(Tail(q)) = Len(q) - 1 /\ Head(q) = q[1]
      /\ \A i \in 1 .. Len(q) - 1 : Tail(q)[i] = q[i + 1]
  OBVIOUS
<1>2. \A i \in 1 .. Len(q) - 1 : i + 1 \in 1 .. Len(q) /\ i + 1 # 1 /\ 1 \in 1 .. Len(q)
  BY <1>1
<1>3. \A i \in 1 .. Len(q) - 1 : Tail(q)[i].id # q[1].id
  BY <1>1, <1>2 DEF Queued
<1>4. Queued(Tail(q), issued)
  <2> SUFFICES ASSUME NEW i \in 1 .. Len(q) - 1
               PROVE  /\ q[i + 1] \in PS!Requests /\ q[i + 1].id \in issued
                      /\ \A j \in 1 .. Len(q) - 1 : q[i + 1].id = q[j + 1].id => i = j
    BY <1>1 DEF Queued
  <2>1. \A j \in 1 .. Len(q) - 1 : q[i + 1].id = q[j + 1].id => i + 1 = j + 1
    BY <1>2 DEF Queued
  <2> QED  BY <1>1, <1>2, <2>1 DEF Queued
<1>5. \A i \in 2 .. Len(q) : i - 1 \in 1 .. Len(q) - 1 /\ Tail(q)[i - 1] = q[i]
  BY <1>1
<1>6. ASSUME NEW e
      PROVE  (\E i \in 1 .. Len(q) - 1 : e = Tail(q)[i])
               <=> (\E i \in 1 .. Len(q) : e = q[i]) /\ e # q[1]
  <2>1. ASSUME NEW i \in 1 .. Len(q) - 1, e = Tail(q)[i]
        PROVE  (\E j \in 1 .. Len(q) : e = q[j]) /\ e # q[1]
    BY <1>1, <1>2, <1>3, <2>1
  <2>2. ASSUME NEW i \in 1 .. Len(q), e = q[i], e # q[1]
        PROVE  \E j \in 1 .. Len(q) - 1 : e = Tail(q)[j]
    <3>1. i \in 2 .. Len(q)
      BY <1>1, <2>2
    <3> QED  BY <1>5, <2>2, <3>1
  <2> QED  BY <2>1, <2>2
<1> QED  BY <1>1, <1>4, <1>6 DEF Elements

(* An arrival adds a request, and may cost another its place.                *)
LEMMA EnqueueElements ==
  ASSUME NEW S, NEW q \in Seq(S), NEW new \in S, NEW issued, Queued(q, issued)
  PROVE  LET r == Enqueue(q, new, QueueDepth) IN
         \/ Elements(r) = Elements(q) \cup {new}
         \/ \E lost \in Elements(q) : Elements(r) = (Elements(q) \ {lost}) \cup {new}
<1>1. ASSUME NEW t \in Seq(S) PROVE Elements(Append(t, new)) = Elements(t) \cup {new}
  <2>1. /\ Len(t) \in Nat /\ Len(Append(t, new)) = Len(t) + 1
        /\ Append(t, new)[Len(t) + 1] = new
        /\ \A i \in 1 .. Len(t) : Append(t, new)[i] = t[i]
    OBVIOUS
  <2>2. 1 .. Len(t) + 1 = (1 .. Len(t)) \cup {Len(t) + 1}
    BY <2>1
  <2> QED  BY <2>1, <2>2 DEF Elements
<1>2. CASE Len(q) < QueueDepth
  BY <1>1, <1>2 DEF Enqueue
<1>3. CASE ~(Len(q) < QueueDepth)
  <2>1. q # << >> /\ Tail(q) \in Seq(S) /\ Head(q) \in Elements(q)
    BY <1>3, ServiceAssumption DEF Elements
  <2>2. Elements(Append(Tail(q), new)) = (Elements(q) \ {Head(q)}) \cup {new}
    BY <1>1, <2>1, TailOfQueued
  <2> QED  BY <1>3, <2>1, <2>2 DEF Enqueue
<1> QED  BY <1>2, <1>3

(* A service's queue holds what waits for that service.                      *)
LEMMA WaitingIn ==
  ASSUME SInv, NEW s \in Services
  PROVE  /\ Elements(queue[s]) = {r \in Waiting : r.service = s}
         /\ \A q : queue' = [queue EXCEPT ![s] = q] =>
              Waiting' = {r \in Waiting : r.service # s} \cup Elements(q)
<1>1. ASSUME NEW t \in Services PROVE \A r \in Elements(queue[t]) : r.service = t
  <2>1. queue[t] \in Seq(RequestsTo(t))
    BY DEF SInv, QueuesOK
  <2>2. \A i \in 1 .. Len(queue[t]) : queue[t][i] \in RequestsTo(t)
    BY <2>1
  <2>3. \A r \in RequestsTo(t) : r.service = t
    BY DEF RequestsTo
  <2> QED  BY <2>2, <2>3 DEF Elements
<1>2. Waiting = UNION {Elements(queue[t]) : t \in Services}
  BY DEF Waiting, Elements
<1>3. Elements(queue[s]) = {r \in Waiting : r.service = s}
  BY <1>1, <1>2
<1>4. ASSUME NEW q, queue' = [queue EXCEPT ![s] = q]
      PROVE  Waiting' = {r \in Waiting : r.service # s} \cup Elements(q)
  <2>1. Waiting' = UNION {Elements(queue'[t]) : t \in Services}
    BY DEF Waiting, Elements
  <2>2. queue'[s] = q /\ \A t \in Services \ {s} : queue'[t] = queue[t]
    BY <1>4 DEF SInv, QueuesOK
  <2> QED  BY <1>1, <1>2, <2>1, <2>2
<1> QED  BY <1>3, <1>4

(* While a loop works off set requests, it works off arguments that are      *)
(* there, and what will be stored at its end stays the same.                 *)
LEMMA LoopStep ==
  ASSUME SInv, NEW s \in {"get_parameters", "set_parameters"}, Working(s)
  PROVE  /\ request # None /\ request.service = s /\ item \in 1 .. Len(request.args)
         /\ \E S : request.args \in Seq(S)
<1>1. PICK t \in Services : request \in RequestsTo(t)
  BY DEF SInv, HandlerOK, Working
<1>2. t = s /\ request.args \in ArgsOf(s) /\ request.service = s /\ request # None
  BY <1>1 DEF RequestsTo, Working
<1>3. \E S : request.args \in Seq(S)
  BY <1>2 DEF ArgsOf
<1>4. LoopLength = Len(request.args) /\ Len(request.args) \in Nat
  BY <1>2, <1>3 DEF LoopLength
<1>5. item \in 1 .. Len(request.args)
  BY <1>4 DEF SInv, HandlerOK, Working
<1> QED  BY <1>2, <1>3, <1>5

(* An update of a set request leaves what will be stored at the end as it    *)
(* was.                                                                      *)
LEMMA SetStepStores ==
  ASSUME SInv, SetStep
  PROVE  /\ \A update : Fits(parameters', update) <=> Fits(parameters, update)
         /\ StoreAfter(parameters', "set_parameters", request.args, item + 1)
              = StoreAfter(parameters, "set_parameters", request.args, item)
<1>1. request # None /\ item \in 1 .. Len(request.args) /\ \E S : request.args \in Seq(S)
  BY LoopStep DEF SetStep
<1>2. Len(request.args) \in Nat
  BY <1>1
<1> DEFINE args == request.args
<1>3. parameters' = IF Fits(parameters, args[item])
                    THEN [parameters EXCEPT ![args[item].name] = args[item].value]
                    ELSE parameters
  BY StorageAnswers DEF SetStep, Storage!set_parameter
<1> HIDE DEF args
<1>4. /\ DOMAIN parameters' = DOMAIN parameters
      /\ \A n \in DOMAIN parameters :
           parameters'[n] = IF Fits(parameters, args[item]) /\ n = args[item].name
                            THEN args[item].value ELSE parameters[n]
  BY <1>3
<1>5. Len(args) \in Nat /\ item \in 1 .. Len(args)
  BY <1>1, <1>2 DEF args
<1> DEFINE store2 == parameters'
<1> HIDE DEF store2
<1>6. /\ DOMAIN store2 = DOMAIN parameters
      /\ \A n \in DOMAIN parameters :
           store2[n] = IF Fits(parameters, args[item]) /\ n = args[item].name
                       THEN args[item].value ELSE parameters[n]
  BY <1>4 DEF store2
<1>7. /\ \A update : Fits(store2, update) <=> Fits(parameters, update)
      /\ StoreAfter(store2, "set_parameters", args, item + 1)
           = StoreAfter(parameters, "set_parameters", args, item)
  BY <1>5, <1>6, StoreAfterNext, SMT
<1> QED  BY <1>7 DEF args, store2


(* The response keeps up with the loop, and the queues keep what they hold.  *)
LEMMA StepKeepsRInv == SInv /\ RInv /\ [Next]_vars => RInv'
<1> SUFFICES ASSUME SInv, RInv, [Next]_vars PROVE RInv'
  OBVIOUS
<1>1. ASSUME UNCHANGED <<queue, sent>> PROVE \A s \in Services : Queued(queue'[s], Issued')
  <2>1. Issued' = Issued
    BY <1>1 DEF Issued
  <2> QED  BY <1>1, <2>1 DEF RInv
<1>2. ASSUME NEW name \in Names, NEW value \in Values, Declare(name, value) \/ Update(name, value)
      PROVE  RInv'
  <2>1. parameters' = [n \in DOMAIN parameters' |-> parameters'[n]]
    <3>1. CASE Declare(name, value)
      BY <3>1 DEF RInv, Declare, Storage!declare_parameter, Storage!has_parameter
    <3>2. CASE Update(name, value)
      BY <3>2 DEF RInv, Update, Storage!set_parameter
    <3> QED  BY <1>2, <3>1, <3>2
  <2>2. UNCHANGED <<queue, sent>> /\ request = None /\ request' = None
    BY <1>2 DEF Declare, Update, handler
  <2> QED  BY <1>1, <2>1, <2>2 DEF RInv, ReplyInv
<1>3. ASSUME NEW caller \in Callers, NEW content \in Contents, Send(caller, content)
      PROVE  RInv'
  <2> DEFINE t == content.service
             new == [id |-> <<caller, sent'[caller]>>, service |-> t, args |-> content.args]
  <2>1. /\ new \in PS!Requests /\ new \in RequestsTo(t) /\ t \in Services
        /\ new.id \notin Issued /\ Issued' = Issued \cup {new.id}
    BY <1>3, SendIsNew
  <2>2. queue' = [queue EXCEPT ![t] = Enqueue(queue[t], new, QueueDepth)] \/ queue' = queue
    BY <1>3 DEF Send
  <2> HIDE DEF new, t
  <2>3. ASSUME NEW s \in Services
        PROVE  /\ Queued(queue[s], Issued')
               /\ s = t => Queued(Enqueue(queue[s], new, QueueDepth), Issued')
    <3>1. queue[s] \in Seq(RequestsTo(s)) /\ Queued(queue[s], Issued)
      BY DEF SInv, QueuesOK, RInv
    <3>2. Queued(queue[s], Issued')
      BY <2>1, <3>1 DEF Queued
    <3> QED  BY <2>1, <3>1, <3>2, EnqueueNew
  <2>4. \A s \in Services : Queued(queue'[s], Issued')
    BY <2>1, <2>2, <2>3 DEF SInv, QueuesOK
  <2>5. UNCHANGED <<parameters, request, item, reply>>
    BY <1>3 DEF Send, handler
  <2> QED  BY <2>4, <2>5 DEF RInv, ReplyInv
<1>4. ASSUME NEW s \in Services, Take(s) PROVE RInv'
  <2>1. /\ queue[s] \in Seq(RequestsTo(s)) /\ queue[s] # << >> /\ Queued(queue[s], Issued)
        /\ queue' = [queue EXCEPT ![s] = Tail(queue[s])]
    BY <1>4 DEF SInv, QueuesOK, RInv, Take
  <2>2. Queued(Tail(queue[s]), Issued)
    BY <2>1, TailOfQueued
  <2>3. Issued' = Issued
    BY <1>4 DEF Take, Issued
  <2>4. \A t \in Services : Queued(queue'[t], Issued')
    BY <2>1, <2>2, <2>3 DEF SInv, QueuesOK, RInv
  <2>5. parameters' = parameters /\ item' = 1 /\ reply' = << >>
    BY <1>4 DEF Take
  <2> QED  BY <2>4, <2>5 DEF RInv, ReplyInv
<1>5. CASE Respond
  BY <1>1, <1>5 DEF Respond, RInv, ReplyInv
<1>6. ASSUME NEW s \in {"get_parameters", "set_parameters"}, Working(s),
             UNCHANGED <<sent, queue, request>>, item' = item + 1,
             parameters' = [n \in DOMAIN parameters' |-> parameters'[n]],
             NEW store, store = parameters',
             Reply(parameters, s, SubSeq(request.args, 1, item - 1))
               = Reply(store, s, SubSeq(request.args, 1, item - 1)),
             ASSUME NEW S, NEW before \in Seq(S), NEW arg \in S, arg = request.args[item],
                    reply = Reply(store, s, before)
             PROVE  reply' = Reply(store, s, Append(before, arg))
      PROVE  RInv'
  <2> DEFINE before == SubSeq(request.args, 1, item - 1)
  <2>1. /\ request # None /\ request.service = s /\ item \in 1 .. Len(request.args)
        /\ \E S : request.args \in Seq(S)
    BY <1>6, LoopStep
  <2>2. PICK S : request.args \in Seq(S)
    BY <2>1
  <2>3. /\ request.args[item] \in S /\ before \in Seq(S)
        /\ SubSeq(request.args, 1, item) = Append(before, request.args[item])
    BY <2>1, <2>2, NextArgument
  <2>4. item = 1 => before = << >>
    BY SubSeqEmpty
  <2>5. reply = Reply(store, s, before)
    <3>1. CASE item = 1
      BY <1>6, <2>1, <2>4, <3>1, ReplyToNothing DEF RInv, ReplyInv
    <3>2. CASE item # 1
      BY <1>6, <2>1, <3>2 DEF RInv, ReplyInv
    <3> QED  BY <3>1, <3>2
  <2>6. reply' = Reply(store, s, Append(before, request.args[item]))
    BY <1>6, <2>3, <2>5
  <2>7. /\ item' # 1 /\ item' - 1 = item
    BY <1>6, <2>1
  <2>8. reply' = Reply(parameters', request'.service, SubSeq(request'.args, 1, item' - 1))
    BY <1>6, <2>1, <2>3, <2>6, <2>7
  <2> QED  BY <1>1, <1>6, <2>7, <2>8 DEF RInv, ReplyInv
<1>7. CASE GetStep
  <2>1. Working("get_parameters") /\ UNCHANGED <<sent, queue, request, parameters>> /\ item' = item + 1
    BY <1>7 DEF GetStep
  <2>2. ASSUME NEW S, NEW before \in Seq(S), NEW arg \in S, arg = request.args[item],
               reply = Reply(parameters, "get_parameters", before)
        PROVE  reply' = Reply(parameters, "get_parameters", Append(before, arg))
    <3>1. reply' = IF arg \in DOMAIN parameters THEN Append(reply, parameters[arg]) ELSE reply
      BY <1>7, <2>2 DEF GetStep, Storage!has_parameter, Storage!get_parameter
    <3> QED  BY <2>2, <3>1, GetReplyNext
  <2> QED  BY <1>6, <2>1, <2>2 DEF RInv
<1>8. CASE SetStep
  <2>1. Working("set_parameters") /\ UNCHANGED <<sent, queue, request>> /\ item' = item + 1
    BY <1>8 DEF SetStep
  <2>2. parameters' = [n \in DOMAIN parameters' |-> parameters'[n]]
    BY <1>8 DEF SetStep, RInv, Storage!set_parameter
  <2>3. \A update : Fits(parameters', update) <=> Fits(parameters, update)
    BY <1>8, SetStepStores
  <2>4. ASSUME NEW args
        PROVE Reply(parameters, "set_parameters", args) = Reply(parameters', "set_parameters", args)
    BY <2>3, SameResults
  <2>5. ASSUME NEW S, NEW before \in Seq(S), NEW arg \in S, arg = request.args[item],
               reply = Reply(parameters', "set_parameters", before)
        PROVE  reply' = Reply(parameters', "set_parameters", Append(before, arg))
    <3>1. reply' = Append(reply, [successful |-> Fits(parameters, arg)])
      BY <1>8, <2>5, StorageAnswers DEF SetStep
    <3>2. Reply(parameters, "set_parameters", Append(before, arg))
            = Append(Reply(parameters, "set_parameters", before), [successful |-> Fits(parameters, arg)])
      BY <2>5, SetReplyNext
    <3> QED  BY <2>4, <2>5, <3>1, <3>2
  <2> QED  BY <1>6, <2>1, <2>2, <2>4, <2>5
<1>9. CASE ListStep
  <2>1. /\ Working("list_parameters") /\ UNCHANGED <<sent, queue, request, parameters>>
        /\ item' = item + 1 /\ reply' = NamesIn(parameters)
    BY <1>9, StorageAnswers DEF ListStep
  <2>2. \A args : Reply(parameters, "list_parameters", args) = NamesIn(parameters)
    BY DEF Reply
  <2>3. item' # 1
    BY <2>1 DEF SInv, HandlerOK, Working
  <2> QED  BY <1>1, <2>1, <2>2, <2>3 DEF RInv, ReplyInv, Working
<1>10. CASE UNCHANGED vars
  BY <1>1, <1>10 DEF vars, handler, RInv, ReplyInv
<1> QED  BY <1>2, <1>3, <1>4, <1>5, <1>7, <1>8, <1>9, <1>10 DEF Next, Handle

(* Between two requests, nothing is decided and the store is as it is.       *)
LEMMA IdleServer == request = None => Store = parameters /\ Decided = {}
BY DEF Store, Decided

(* A declaration or an update of the program is one of the abstract server.  *)
LEMMA OwnerStep ==
  ASSUME SInv, RInv, RInv', NEW name \in Names, NEW value \in Values,
         Declare(name, value) \/ Update(name, value)
  PROVE  PS!Declare(name, value) \/ PS!Update(name, value) \/ UNCHANGED PS!vars
<1>1. /\ request = None /\ request' = None
      /\ UNCHANGED <<sent, queue, answers>>
  BY DEF Declare, Update, handler
<1>2. Store = parameters /\ Store' = parameters' /\ Decided = {} /\ Decided' = {}
  BY <1>1 DEF Store, Decided
<1>3. Waiting' = Waiting /\ Issued' = Issued
  BY <1>1 DEF Waiting, Issued
<1>4. CASE Declare(name, value)
  <2>1. CASE name \in DOMAIN parameters
    <3>1. parameters' = parameters
      BY <1>4, <2>1 DEF Declare, Storage!declare_parameter, Storage!has_parameter
    <3> QED  BY <1>1, <1>2, <1>3, <3>1 DEF PS!vars
  <2>2. CASE name \notin DOMAIN parameters
    <3>1. parameters' = [n \in DOMAIN parameters \cup {name} |->
                           IF n = name THEN value ELSE parameters[n]]
      BY <1>4, <2>2 DEF Declare, Storage!declare_parameter, Storage!has_parameter
    <3> QED  BY <1>1, <1>2, <1>3, <2>2, <3>1 DEF PS!Declare
  <2> QED  BY <2>1, <2>2
<1>5. CASE Update(name, value)
  <2> DEFINE update == [name |-> name, value |-> value]
             args == << update >>
             store2 == parameters'
  <2>1. Len(args) = 1 /\ args[1] = update /\ update.name = name /\ update.value = value
    OBVIOUS
  <2>2. store2 = IF Fits(parameters, update) THEN [parameters EXCEPT ![name] = value] ELSE parameters
    BY <1>5, <2>1, StorageAnswers DEF Update, Storage!set_parameter
  <2>3. store2 = [n \in DOMAIN store2 |-> store2[n]]
    BY DEF RInv
  <2> HIDE DEF args, update, store2
  <2>4. /\ DOMAIN store2 = DOMAIN parameters
        /\ \A n \in DOMAIN parameters :
             store2[n] = IF Fits(parameters, args[1]) /\ n = args[1].name
                         THEN args[1].value ELSE parameters[n]
    BY <2>1, <2>2
  <2>5. StoreAfter(store2, "set_parameters", args, 1 + 1)
          = StoreAfter(parameters, "set_parameters", args, 1)
    <3>1. Len(args) \in Nat /\ 1 \in 1 .. Len(args)
      BY <2>1
    <3> QED  BY <2>4, <3>1, StoreAfterNext
  <2>6. StoreAfter(store2, "set_parameters", args, Len(args) + 1) = store2
    <3>1. Len(args) \in Nat
      BY <2>1
    <3>2. StoreAfter(store2, "set_parameters", args, Len(args) + 1)
            = [n \in DOMAIN store2 |-> store2[n]]
      BY <3>1, StoreAfterAll, Zenon
    <3> QED  BY <2>3, <3>2, Zenon
  <2>7. store2 = StoreAfter(parameters, "set_parameters", args, 1)
    <3>1. 1 + 1 = Len(args) + 1
      BY <2>1
    <3> QED  BY <2>5, <2>6, <3>1, Zenon
  <2>8. Store' = PS!StoreAfter(Store, "set_parameters", args, 1)
    <3>1. PS!StoreAfter(parameters, "set_parameters", args, 1) = store2
      BY <2>7, SameAnswers, Zenon
    <3>2. Store' = store2 /\ Store = parameters
      BY <1>2 DEF store2
    <3> QED  BY <3>1, <3>2
  <2> QED  BY <1>1, <1>2, <1>3, <2>8 DEF PS!Update, args, update
<1> QED  BY <1>4, <1>5

(* A caller's request is a new one, and may displace one that waits.         *)
LEMMA SendStep ==
  ASSUME SInv, RInv, NEW caller \in Callers, NEW content \in Contents, Send(caller, content)
  PROVE  \E r \in PS!Requests : PS!Issue(r)
<1> DEFINE t == content.service
           new == [id |-> <<caller, sent'[caller]>>, service |-> t, args |-> content.args]
<1>1. /\ new \in PS!Requests /\ new \in RequestsTo(t) /\ t \in Services
      /\ new.id \notin Issued /\ Issued' = Issued \cup {new.id}
  BY SendIsNew
<1>2. queue' = [queue EXCEPT ![t] = Enqueue(queue[t], new, QueueDepth)] \/ queue' = queue
  BY DEF Send
<1>3. UNCHANGED <<parameters, request, item, reply, answers>>
  BY DEF Send, handler
<1>4. Store' = Store /\ Decided' = Decided
  BY <1>3 DEF Store, Decided
<1> HIDE DEF new, t
<1>5. \/ Waiting' = Waiting \/ Waiting' = Waiting \cup {new}
      \/ \E lost \in Waiting : Waiting' = (Waiting \ {lost}) \cup {new}
  <2>1. CASE queue' = queue
    BY <2>1 DEF Waiting
  <2>2. CASE queue' = [queue EXCEPT ![t] = Enqueue(queue[t], new, QueueDepth)]
    <3> DEFINE q == queue[t]
               r == Enqueue(q, new, QueueDepth)
    <3>1. q \in Seq(RequestsTo(t)) /\ Queued(q, Issued)
      BY <1>1 DEF SInv, QueuesOK, RInv
    <3>2. \/ Elements(r) = Elements(q) \cup {new}
          \/ \E lost \in Elements(q) : Elements(r) = (Elements(q) \ {lost}) \cup {new}
      BY <1>1, <3>1, EnqueueElements
    <3>3. /\ Elements(q) = {x \in Waiting : x.service = t}
          /\ Waiting' = {x \in Waiting : x.service # t} \cup Elements(r)
      BY <1>1, <2>2, WaitingIn
    <3> HIDE DEF q, r
    <3>4. CASE Elements(r) = Elements(q) \cup {new}
      <4>1. Waiting' = Waiting \cup {new}
        BY <3>3, <3>4
      <4> QED  BY <4>1
    <3>5. ASSUME NEW lost \in Elements(q), Elements(r) = (Elements(q) \ {lost}) \cup {new}
          PROVE  lost \in Waiting /\ Waiting' = (Waiting \ {lost}) \cup {new}
      BY <3>3, <3>5
    <3> QED  BY <3>2, <3>4, <3>5
  <2> QED  BY <1>2, <2>1, <2>2
<1> QED  BY <1>1, <1>3, <1>4, <1>5 DEF PS!Issue

(* A handler that takes a request has carried it out, as a whole.            *)
LEMMA TakeStep ==
  ASSUME SInv, RInv, NEW s \in Services, Take(s)
  PROVE  \E r \in PS!Requests : PS!CarryOut(r)
<1> DEFINE q == queue[s]
           r == Head(q)
<1>1. /\ request = None /\ q # << >> /\ request' = r /\ item' = 1
      /\ queue' = [queue EXCEPT ![s] = Tail(q)]
      /\ UNCHANGED <<parameters, sent, answers>>
  BY DEF Take
<1>2. q \in Seq(RequestsTo(s)) /\ Queued(q, Issued)
  BY DEF SInv, QueuesOK, RInv
<1>3. r \in RequestsTo(s) /\ r \in Elements(q) /\ r \in PS!Requests
  <2>1. r = q[1] /\ 1 \in 1 .. Len(q)
    BY <1>1, <1>2
  <2> QED  BY <1>2, <2>1 DEF Elements, Queued
<1>4. request' # None
  BY <1>1, <1>3, NoneAssumption DEF RequestsTo
<1>5. r \in Waiting /\ Waiting' = Waiting \ {r}
  <2>1. Elements(Tail(q)) = Elements(q) \ {r}
    BY <1>1, <1>2, TailOfQueued
  <2>2. /\ Elements(q) = {x \in Waiting : x.service = s}
        /\ Waiting' = {x \in Waiting : x.service # s} \cup Elements(Tail(q))
    BY <1>1, WaitingIn
  <2> HIDE DEF q, r
  <2> QED  BY <1>3, <2>1, <2>2
<1>6. Issued' = Issued
  BY <1>1 DEF Issued
<1>7. /\ Store = parameters /\ Decided = {}
      /\ Store' = StoreAfter(parameters, r.service, r.args, 1)
      /\ Decided' = {[id |-> r.id, reply |-> Reply(parameters, r.service, r.args)]}
  BY <1>1, <1>4 DEF Store, Decided
<1> HIDE DEF r
<1> QED  BY <1>1, <1>3, <1>5, <1>6, <1>7, SameAnswers DEF PS!CarryOut

(* The loops change nothing that is visible then.                            *)
LEMMA LoopStutters ==
  ASSUME SInv, GetStep \/ SetStep \/ ListStep
  PROVE  UNCHANGED PS!vars
<1>1. /\ request # None /\ request' = request
      /\ UNCHANGED <<sent, queue, answers>>
  BY DEF GetStep, SetStep, ListStep, Working
<1>2. Issued' = Issued /\ Waiting' = Waiting
  BY <1>1 DEF Issued, Waiting
<1>3. /\ StoreAfter(parameters', request.service, request.args, item')
           = StoreAfter(parameters, request.service, request.args, item)
      /\ Reply(parameters', request.service, request.args)
           = Reply(parameters, request.service, request.args)
  <2>1. CASE SetStep
    <3>1. request.service = "set_parameters" /\ item' = item + 1
      BY <2>1 DEF SetStep, Working
    <3> QED  BY <2>1, <3>1, SetStepStores, SameResults
  <2>2. CASE GetStep \/ ListStep
    <3>1. request.service # "set_parameters" /\ parameters' = parameters
      BY <2>2 DEF GetStep, ListStep, Working
    <3> QED  BY <3>1 DEF StoreAfter
  <2> QED  BY <2>1, <2>2
<1>4. Store' = Store /\ Decided' = Decided
  BY <1>1, <1>3 DEF Store, Decided
<1> QED  BY <1>1, <1>2, <1>4 DEF PS!vars

(* At the end of the loop, everything decided has been done.                 *)
LEMMA RespondStep ==
  ASSUME SInv, RInv, Respond
  PROVE  PS!Answer
<1>1. /\ request # None /\ request' = None /\ item > LoopLength
      /\ UNCHANGED <<parameters, sent, queue>>
      /\ answers' = [answers EXCEPT ![request.id] = reply] \/ answers' = answers
  BY DEF Respond
<1>2. Issued' = Issued /\ Waiting' = Waiting
  BY <1>1 DEF Issued, Waiting
<1>3. PICK s \in Services : request \in RequestsTo(s)
  BY <1>1 DEF SInv, HandlerOK
<1>4. request.service = s /\ request.args \in ArgsOf(s) /\ LoopLength \in Nat /\ item = LoopLength + 1
  <2>1. LoopLength \in Nat /\ item \in 1 .. LoopLength + 1
    BY <1>1, <1>3, LoopLengthIsNat DEF SInv, HandlerOK
  <2> QED  BY <1>1, <1>3, <2>1 DEF RequestsTo
<1>5. /\ reply = Reply(parameters, s, request.args)
      /\ StoreAfter(parameters, s, request.args, item) = parameters
  <2>1. CASE s \in {"get_parameters", "set_parameters"}
    <3>1. PICK S : request.args \in Seq(S)
      BY <1>4, <2>1 DEF ArgsOf
    <3>2. LoopLength = Len(request.args) /\ Len(request.args) \in Nat
      BY <1>4, <2>1, <3>1 DEF LoopLength
    <3>3. reply = Reply(parameters, s, request.args)
      <4>1. CASE item = 1
        <5>1. request.args = << >>
          BY <1>4, <3>1, <3>2, <4>1
        <5> QED  BY <1>1, <2>1, <4>1, <5>1, ReplyToNothing DEF RInv, ReplyInv
      <4>2. CASE item # 1
        <5>1. SubSeq(request.args, 1, item - 1) = request.args
          BY <1>4, <3>1, <3>2, SubSeqFull
        <5> QED  BY <1>1, <1>4, <4>2, <5>1 DEF RInv, ReplyInv
      <4> QED  BY <4>1, <4>2
    <3>4. StoreAfter(parameters, s, request.args, item) = parameters
      <4>1. CASE s = "set_parameters"
        BY <1>4, <3>2, <4>1, StoreAfterAll DEF RInv
      <4>2. CASE s = "get_parameters"
        BY <4>2 DEF StoreAfter
      <4> QED  BY <2>1, <4>1, <4>2
    <3> QED  BY <3>3, <3>4
  <2>2. CASE s = "list_parameters"
    <3>1. item # 1
      BY <1>4, <2>2 DEF LoopLength
    <3>2. \A args : Reply(parameters, s, args) = NamesIn(parameters)
      BY <2>2 DEF Reply
    <3> QED  BY <1>1, <1>4, <2>2, <3>1, <3>2 DEF RInv, ReplyInv, StoreAfter
  <2>3. CASE s = "describe_parameters"
    <3>1. item = 1
      BY <1>4, <2>3 DEF LoopLength
    <3> QED  BY <1>1, <2>3, <3>1 DEF RInv, ReplyInv, StoreAfter, Reply
  <2> QED  BY <2>1, <2>2, <2>3 DEF Services
<1>6. Store' = Store /\ Decided = {[id |-> request.id, reply |-> reply]} /\ Decided' = {}
  BY <1>1, <1>4, <1>5 DEF Store, Decided
<1> QED  BY <1>1, <1>2, <1>6 DEF PS!Answer

(* So far the steps; the handlers may also be run by any thread that takes   *)
(* no other steps.                                                           *)
LEMMA StepsAreAtomic == Init /\ [][Next]_vars => ImplementsParameterServer
<1>1. Init => PS!Init
  BY IdleServer, ServiceAssumption
     DEF Init, Storage!Init, PS!Init, Waiting, Issued, Ids
<1>2. SInv /\ RInv /\ RInv' /\ [Next]_vars => [PS!Next]_(PS!vars)
  <2> SUFFICES ASSUME SInv, RInv, RInv', [Next]_vars
               PROVE  PS!Next \/ UNCHANGED PS!vars
    OBVIOUS
  <2>1. ASSUME NEW name \in Names, NEW value \in Values, Declare(name, value) \/ Update(name, value)
        PROVE  PS!Next \/ UNCHANGED PS!vars
    BY <2>1, OwnerStep, SameNames DEF PS!Next
  <2>2. ASSUME NEW caller \in Callers, NEW content \in Contents, Send(caller, content)
        PROVE  PS!Next
    BY <2>2, SendStep DEF PS!Next
  <2>3. ASSUME NEW s \in Services, Take(s) PROVE PS!Next
    BY <2>3, TakeStep DEF PS!Next
  <2>4. CASE GetStep \/ SetStep \/ ListStep
    BY <2>4, LoopStutters
  <2>5. CASE Respond
    BY <2>5, RespondStep DEF PS!Next
  <2>6. CASE UNCHANGED vars
    BY <2>6 DEF vars, handler, PS!vars, Store, Issued, Waiting, Decided
  <2> QED  BY <2>1, <2>2, <2>3, <2>4, <2>5, <2>6 DEF Next, Handle
<1> QED  BY <1>1, <1>2, SInvInitially, StepKeepsSInv, RInvInitially, StepKeepsRInv, PTL
         DEF ImplementsParameterServer, PS!Safety

(* The handlers, who work off a request item by item while others arrive and *)
(* may lose its answer, implement the abstract server, which carries it out  *)
(* at once: each request takes effect at most once, as a whole, between its  *)
(* sending and its answer, and its answer is that moment's.                  *)
THEOREM RequestsAreAtomic == Spec => ImplementsParameterServer
BY StepsAreAtomic, PTL DEF Spec

-----------------------------------------------------------------------------
(* The loop of the program takes no step the handlers could not take.         *)
LEMMA ProgramStepIsStep == [ProgramNext]_programVars => [Next]_vars
<1> SUFFICES ASSUME [ProgramNext]_programVars PROVE Next \/ UNCHANGED vars
  OBVIOUS
<1>1. CASE SpinWait \/ PassTurn \/ EndSpin
  BY <1>1 DEF SpinWait, PassTurn, EndSpin
<1>2. CASE ServeTurn
  <2>1. PICK service \in reported : InTurn(service) /\ Take(service)
    BY <1>2 DEF ServeTurn
  <2>2. service \in Services
    BY <2>1 DEF InTurn, Order, Services
  <2> QED  BY <2>1, <2>2 DEF Next
<1>3. CASE ProgramHandle
  BY <1>3 DEF ProgramHandle, Next
<1>4. CASE \E name \in Names, value \in Values : DeclareFirst(name, value)
  BY <1>4 DEF DeclareFirst, Next
<1>5. CASE \E caller \in Callers, content \in Contents : Send(caller, content) /\ UNCHANGED loop
  BY <1>5 DEF Next
<1>6. CASE UNCHANGED programVars
  BY <1>6 DEF programVars
<1> QED  BY <1>1, <1>2, <1>3, <1>4, <1>5, <1>6 DEF ProgramNext, Spin

(* The types hold in the program, whose steps are steps of the handlers.     *)
LEMMA ProgramTyped == ProgramSpec => []SInv
<1>1. ProgramInit => SInv
  BY SInvInitially DEF ProgramInit
<1>2. SInv /\ [ProgramNext]_programVars => SInv'
  BY StepKeepsSInv, ProgramStepIsStep
<1> QED  BY <1>1, <1>2, PTL DEF ProgramSpec

(* The program serves requests from one thread, in turns, and its requests   *)
(* are carried out as the abstract server carries them out.                  *)
THEOREM ProgramRequestsAreAtomic == ProgramSpec => ImplementsParameterServer
<1>1. ProgramInit => Init
  BY DEF ProgramInit
<1> QED  BY <1>1, ProgramStepIsStep, StepsAreAtomic, PTL DEF ProgramSpec

(* A service that has missed a spin has a request, and its turn in the spin  *)
(* under way is still to come.                                               *)
MissedInv ==
  /\ turn \in Nat
  /\ missed \in [Services -> {0, 1}]
  /\ \A s \in Services : missed[s] = 1 =>
       /\ queue[s] # << >>
       /\ turn # 0 => s \in reported /\ \A p \in 1 .. 4 : Order[p] = s => turn <= p

(* The list has a place for each of the four services.                       *)
LEMMA EveryServiceHasATurn == Len(Order) = 4 /\ \A s \in Services : \E p \in 1 .. 4 : Order[p] = s
BY DEF Order, Services

(* Every request that is the first of its queue when a spin begins is served *)
(* in that spin, whatever the other services receive.                        *)
THEOREM ServedInNextSpin == ProgramSpec => []ServedNextSpin
<1>1. ProgramInit => MissedInv
  BY DEF ProgramInit, MissedInv
<1>2. SInv /\ MissedInv /\ [ProgramNext]_programVars => MissedInv'
  <2> SUFFICES ASSUME SInv, MissedInv, [ProgramNext]_programVars PROVE MissedInv'
    OBVIOUS
  <2>1. CASE SpinWait
    <3>1. /\ turn' = 1 /\ Pending \subseteq reported' /\ queue' = queue /\ missed' = missed
      BY <2>1 DEF SpinWait, vars, history
    <3>2. \A s \in Services : missed[s] = 1 => s \in reported'
      BY <3>1 DEF MissedInv, Pending
    <3> QED  BY <3>1, <3>2 DEF MissedInv
  <2>2. CASE ServeTurn
    <3>1. PICK service \in reported : InTurn(service) /\ Take(service) /\ missed' = [missed EXCEPT ![service] = 0]
      BY <2>2 DEF ServeTurn
    <3>2. turn' = turn + 1 /\ reported' = reported /\ turn \in 1 .. 4 /\ Order[turn] = service
      BY <2>2, <3>1, EveryServiceHasATurn DEF ServeTurn, InTurn
    <3>3. \A s \in Services \ {service} : queue'[s] = queue[s] /\ missed'[s] = missed[s]
      BY <3>1 DEF Take, SInv, QueuesOK, MissedInv
    <3>4. missed' \in [Services -> {0, 1}] /\ (service \in Services => missed'[service] = 0)
      BY <3>1 DEF MissedInv
    <3>5. ASSUME NEW s \in Services, missed'[s] = 1
          PROVE  /\ queue'[s] # << >> /\ s \in reported'
                 /\ \A p \in 1 .. 4 : Order[p] = s => turn' <= p
      <4>1. s # service /\ missed[s] = 1 /\ queue'[s] = queue[s]
        BY <3>3, <3>4, <3>5
      <4>2. queue[s] # << >> /\ s \in reported /\ \A p \in 1 .. 4 : Order[p] = s => turn <= p
        BY <3>2, <4>1 DEF MissedInv
      <4>3. \A p \in 1 .. 4 : Order[p] = s => p # turn
        BY <3>2, <4>1
      <4> QED  BY <3>2, <4>1, <4>2, <4>3
    <3> QED  BY <3>2, <3>4, <3>5 DEF MissedInv
  <2>3. CASE PassTurn
    <3>1. PICK service \in Services : InTurn(service) /\ (service \notin reported \/ queue[service] = << >>)
      BY <2>3 DEF PassTurn
    <3>2. /\ turn' = turn + 1 /\ turn \in 1 .. 4 /\ Order[turn] = service
          /\ reported' = reported /\ queue' = queue /\ missed' = missed
      BY <2>3, <3>1, EveryServiceHasATurn DEF PassTurn, InTurn, vars, history
    <3>3. missed[service] # 1
      BY <3>1, <3>2 DEF MissedInv
    <3>4. \A s \in Services, p \in 1 .. 4 : missed[s] = 1 /\ Order[p] = s => turn <= p /\ p # turn
      BY <3>2, <3>3 DEF MissedInv
    <3> QED  BY <3>2, <3>4 DEF MissedInv
  <2>4. CASE EndSpin
    <3>1. /\ turn > 4 /\ turn' = 0 /\ queue' = queue
          /\ missed' = [s \in Services |->
               IF s \in Pending /\ missed[s] < 2 THEN missed[s] + 1 ELSE missed[s]]
      BY <2>4, EveryServiceHasATurn DEF EndSpin, vars
    <3>2. \A s \in Services : missed[s] = 0
      <4> SUFFICES ASSUME NEW s \in Services, missed[s] = 1 PROVE FALSE
        BY DEF MissedInv
      <4>1. PICK p \in 1 .. 4 : Order[p] = s
        BY EveryServiceHasATurn
      <4> QED  BY <3>1, <4>1 DEF MissedInv
    <3>3. \A s \in Services : /\ missed'[s] \in {0, 1}
                              /\ missed'[s] = 1 => queue'[s] # << >>
      BY <3>1, <3>2 DEF Pending
    <3> QED  BY <3>1, <3>3 DEF MissedInv
  <2>5. CASE ProgramHandle
    <3>1. queue' = queue /\ turn' = turn /\ reported' = reported /\ missed' = missed
      BY <2>5 DEF ProgramHandle, loop, history, Handle, GetStep, SetStep, ListStep, Respond
    <3> QED  BY <3>1 DEF MissedInv
  <2>6. CASE (\E name \in Names, value \in Values : DeclareFirst(name, value)) \/ UNCHANGED programVars
    <3>1. queue' = queue /\ turn' = turn /\ reported' = reported /\ missed' = missed
      BY <2>6 DEF DeclareFirst, Declare, programVars, vars, loop, history
    <3> QED  BY <3>1 DEF MissedInv
  <2>7. ASSUME NEW caller \in Callers, NEW content \in Contents, Send(caller, content), UNCHANGED loop
        PROVE  MissedInv'
    <3>1. turn' = turn /\ reported' = reported /\ missed' = missed
      BY <2>7 DEF loop, history
    <3>2. \A s \in Services : queue[s] # << >> => queue'[s] # << >>
      <4>1. \A s \in Services : \A new : Enqueue(queue[s], new, QueueDepth) # << >>
        BY DEF SInv, QueuesOK, Enqueue
      <4> QED  BY <2>7, <4>1, ServiceAssumption DEF Send, SInv, QueuesOK
    <3> QED  BY <3>1, <3>2 DEF MissedInv
  <2> QED  BY <2>1, <2>2, <2>3, <2>4, <2>5, <2>6, <2>7 DEF ProgramNext, Spin
<1>3. MissedInv => ServedNextSpin
  BY DEF MissedInv, ServedNextSpin
<1> QED  BY <1>1, <1>2, <1>3, ProgramTyped, PTL DEF ProgramSpec

-----------------------------------------------------------------------------
(* A queue in the order of sending, of which nothing has been taken that is  *)
(* younger: numbers rise from the one taken last to the one sent last.       *)
Rising(q, taken, made) ==
  \A i \in 1 .. Len(q) :
    LET id == q[i].id IN
      /\ taken[id[1]] < id[2] /\ id[2] <= made[id[1]]
      /\ \A j \in 1 .. i - 1 : q[j].id[1] = id[1] => q[j].id[2] < id[2]

TakenFrom(s) == [c \in Callers |-> last[c][s]]

OrderInv ==
  /\ last \in [Callers -> [Services -> Nat]]
  /\ \A s \in Services :
       /\ \A c \in Callers : last[c][s] <= sent[c]
       /\ Rising(queue[s], TakenFrom(s), sent)

(* A new request is the youngest of its caller, wherever the queue drops.    *)
LEMMA EnqueueRises ==
  ASSUME NEW S, NEW q \in Seq(S), NEW new \in S, NEW depth \in Nat \ {0},
         \A e \in S : e.id \in Callers \X Nat,
         NEW taken \in [Callers -> Nat], NEW made \in [Callers -> Nat],
         \A c \in Callers : taken[c] <= made[c],
         NEW made2 \in [Callers -> Nat],
         \A c \in Callers : made[c] <= made2[c],
         made[new.id[1]] < new.id[2], new.id[2] <= made2[new.id[1]],
         Rising(q, taken, made)
  PROVE  Rising(q, taken, made2) /\ Rising(Enqueue(q, new, depth), taken, made2)
<1>1. \A e \in S : e.id[1] \in Callers /\ e.id[2] \in Nat
  OBVIOUS
<1>2. \A i \in 1 .. Len(q) : q[i] \in S
  OBVIOUS
<1>3. Rising(q, taken, made2)
  <2> SUFFICES ASSUME NEW i \in 1 .. Len(q)
               PROVE  q[i].id[2] <= made2[q[i].id[1]]
    BY DEF Rising
  <2>1. q[i].id[2] <= made[q[i].id[1]] /\ q[i].id[1] \in Callers /\ q[i].id[2] \in Nat
    BY <1>1, <1>2 DEF Rising
  <2>2. \A a, b, c \in Nat : a <= b /\ b <= c => a <= c
    OBVIOUS
  <2>3. made[q[i].id[1]] \in Nat /\ made2[q[i].id[1]] \in Nat /\ made[q[i].id[1]] <= made2[q[i].id[1]]
    BY <2>1
  <2> QED  BY <2>1, <2>2, <2>3
<1> DEFINE r == Enqueue(q, new, depth)
<1>4. r \in Seq(S)
  BY EnqueueShifts
<1>5. PICK k \in {0, 1} : /\ Len(r) = Len(q) - k + 1 /\ r[Len(r)] = new
                          /\ \A i \in 1 .. Len(r) - 1 : r[i] = q[i + k]
                          /\ k = 1 => Len(q) > 0
  BY EnqueueShifts
<1> HIDE DEF r
<1>6. Len(q) \in Nat /\ Len(r) \in Nat
  BY <1>4
<1>7. ASSUME NEW i \in 1 .. Len(r) - 1
      PROVE  i + k \in 1 .. Len(q) /\ r[i] = q[i + k]
  <2>1. i + k \in 1 .. Len(q)
    BY <1>5, <1>6
  <2>2. r[i] = q[i + k]
    BY <1>5, Zenon
  <2> QED  BY <2>1, <2>2
<1>8. ASSUME NEW i \in 1 .. Len(q) PROVE q[i].id[1] = new.id[1] => q[i].id[2] < new.id[2]
  <2>1. q[i].id[2] <= made[q[i].id[1]] /\ q[i].id[1] \in Callers /\ q[i].id[2] \in Nat
    BY <1>1, <1>2 DEF Rising
  <2>2. made[q[i].id[1]] \in Nat /\ new.id[2] \in Nat
    BY <1>1, <2>1
  <2> QED  BY <2>1, <2>2
<1>9. taken[new.id[1]] < new.id[2]
  <2>1. new.id[1] \in Callers /\ new.id[2] \in Nat
    BY <1>1
  <2>2. taken[new.id[1]] \in Nat /\ made[new.id[1]] \in Nat /\ taken[new.id[1]] <= made[new.id[1]]
    BY <2>1
  <2> QED  BY <2>1, <2>2
<1>10. Rising(r, taken, made2)
  <2> SUFFICES ASSUME NEW i \in 1 .. Len(r)
               PROVE  /\ taken[r[i].id[1]] < r[i].id[2] /\ r[i].id[2] <= made2[r[i].id[1]]
                      /\ \A j \in 1 .. i - 1 : r[j].id[1] = r[i].id[1] => r[j].id[2] < r[i].id[2]
    BY DEF Rising
  <2>1. CASE i = Len(r)
    <3>1. ASSUME NEW j \in 1 .. i - 1
          PROVE  r[j].id[1] = new.id[1] => r[j].id[2] < new.id[2]
      <4>1. j + k \in 1 .. Len(q) /\ r[j] = q[j + k]
        BY <2>1, <1>7, Zenon
      <4>2. q[j + k].id[1] = new.id[1] => q[j + k].id[2] < new.id[2]
        BY <4>1, <1>8, Zenon
      <4> QED  BY <4>1, <4>2, Zenon
    <3>2. r[i] = new
      BY <2>1, <1>5
    <3> QED  BY <3>1, <3>2, <1>9
  <2>2. CASE i # Len(r)
    <3>1. i \in 1 .. Len(r) - 1
      BY <2>2, <1>6
    <3>2. i + k \in 1 .. Len(q) /\ r[i] = q[i + k]
      BY <3>1, <1>7, Zenon
    <3>3. /\ taken[q[i + k].id[1]] < q[i + k].id[2] /\ q[i + k].id[2] <= made2[q[i + k].id[1]]
          /\ \A j \in 1 .. (i + k) - 1 : q[j].id[1] = q[i + k].id[1] => q[j].id[2] < q[i + k].id[2]
      BY <3>2, <1>3, Zenon DEF Rising
    <3>4. ASSUME NEW j \in 1 .. i - 1
          PROVE  j + k \in 1 .. (i + k) - 1 /\ r[j] = q[j + k]
      <4>1. j \in 1 .. Len(r) - 1
        BY <3>1, <1>6
      <4>2. j + k \in 1 .. (i + k) - 1
        BY <3>1, <1>5, <1>6
      <4> QED  BY <4>1, <4>2, <1>7, Zenon
    <3> QED  BY <3>2, <3>3, <3>4, Zenon
  <2> QED  BY <2>1, <2>2
<1> QED  BY <1>3, <1>10 DEF r

(* Taking the head leaves younger requests only.                             *)
LEMMA TakeRises ==
  ASSUME NEW S, NEW q \in Seq(S), q # << >>,
         \A e \in S : e.id \in Callers \X Nat,
         NEW taken \in [Callers -> Nat], NEW made, Rising(q, taken, made)
  PROVE  Rising(Tail(q), [taken EXCEPT ![Head(q).id[1]] = Head(q).id[2]], made)
<1>1. \A e \in S : e.id[1] \in Callers /\ e.id[2] \in Nat
  OBVIOUS
<1>2. /\ Len(Tail(q)) = Len(q) - 1 /\ Head(q) = q[1] /\ Len(q) \in Nat \ {0}
      /\ \A i \in 1 .. Len(q) - 1 : Tail(q)[i] = q[i + 1]
      /\ \A i \in 1 .. Len(q) : q[i] \in S
  OBVIOUS
<1> DEFINE now == [taken EXCEPT ![Head(q).id[1]] = Head(q).id[2]]
<1>3. \A c \in Callers : now[c] = IF c = q[1].id[1] THEN q[1].id[2] ELSE taken[c]
  BY <1>2
<1> HIDE DEF now
<1> SUFFICES ASSUME NEW i \in 1 .. Len(q) - 1
             PROVE  /\ now[q[i + 1].id[1]] < q[i + 1].id[2]
                    /\ q[i + 1].id[2] <= made[q[i + 1].id[1]]
                    /\ \A j \in 1 .. i - 1 :
                         q[j + 1].id[1] = q[i + 1].id[1] => q[j + 1].id[2] < q[i + 1].id[2]
  <2>1. \A i \in 1 .. Len(q) - 1 : \A j \in 1 .. i - 1 : j \in 1 .. Len(q) - 1
    BY <1>2
  <2> QED  BY <1>2, <2>1 DEF Rising, now
<1>4. i + 1 \in 1 .. Len(q) /\ 1 \in 1 .. (i + 1) - 1 /\ \A j \in 1 .. i - 1 : j + 1 \in 1 .. (i + 1) - 1
  BY <1>2
<1>5. q[i + 1].id[1] \in Callers
  BY <1>1, <1>2, <1>4
<1> QED  BY <1>3, <1>4, <1>5 DEF Rising

(* Requests of one caller to one service are served in the order of sending, *)
(* whatever the order between services and whatever the queue drops.         *)
THEOREM ServedInSendingOrder == ProgramSpec => []InSendingOrder
<1>1. ProgramInit => OrderInv
  BY DEF ProgramInit, Init, OrderInv, Rising
<1>2. SInv /\ OrderInv /\ [ProgramNext]_programVars => OrderInv'
  <2> SUFFICES ASSUME SInv, OrderInv, [ProgramNext]_programVars PROVE OrderInv'
    OBVIOUS
  <2>1. \A s \in Services : /\ queue[s] \in Seq(RequestsTo(s))
                            /\ \A e \in RequestsTo(s) : e.id \in Callers \X Nat
    BY ServiceAssumption DEF SInv, QueuesOK, RequestsTo, Ids
  <2>2. \A s \in Services : TakenFrom(s) \in [Callers -> Nat]
    BY DEF OrderInv, TakenFrom
  <2>3. CASE UNCHANGED <<queue, sent, last>>
    BY <2>3 DEF OrderInv, Rising, TakenFrom
  <2>4. CASE ServeTurn
    <3>1. PICK service \in reported :
            /\ InTurn(service) /\ Take(service)
            /\ last' = [last EXCEPT ![request'.id[1]][service] = request'.id[2]]
      BY <2>4 DEF ServeTurn
    <3>2. /\ service \in Services /\ queue[service] # << >> /\ request' = Head(queue[service])
          /\ queue' = [queue EXCEPT ![service] = Tail(@)] /\ sent' = sent
      BY <3>1, EveryServiceHasATurn DEF InTurn, Order, Services, Take
    <3> DEFINE id == Head(queue[service]).id
    <3>3. id[1] \in Callers /\ id[2] \in Nat /\ id[2] <= sent[id[1]]
      <4>1. Head(queue[service]) = queue[service][1] /\ 1 \in 1 .. Len(queue[service])
            /\ Head(queue[service]) \in RequestsTo(service)
        BY <2>1, <3>2
      <4>2. queue[service][1].id[2] <= sent[queue[service][1].id[1]]
        BY <3>2, <4>1 DEF OrderInv, Rising
      <4> QED  BY <2>1, <3>2, <4>1, <4>2
    <3>4. last' = [last EXCEPT ![id[1]][service] = id[2]]
      BY <3>1, <3>2
    <3>5. /\ last' \in [Callers -> [Services -> Nat]]
          /\ \A c \in Callers, s \in Services :
               last'[c][s] = IF c = id[1] /\ s = service THEN id[2] ELSE last[c][s]
      <4> HIDE DEF id
      <4> QED  BY <3>2, <3>3, <3>4 DEF OrderInv
    <3>6. ASSUME NEW s \in Services PROVE
            TakenFrom(s)' = IF s = service THEN [TakenFrom(s) EXCEPT ![id[1]] = id[2]] ELSE TakenFrom(s)
      <4> HIDE DEF id
      <4> QED  BY <3>3, <3>5, <3>6 DEF TakenFrom
    <3>7. ASSUME NEW s \in Services PROVE Rising(queue'[s], TakenFrom(s)', sent')
      <4>1. Rising(queue[s], TakenFrom(s), sent)
        BY DEF OrderInv
      <4>2. CASE s = service
        <5>1. Rising(Tail(queue[s]), [TakenFrom(s) EXCEPT ![id[1]] = id[2]], sent)
          BY <4>1, <4>2, <2>1, <2>2, <3>2, TakeRises
        <5>2. queue'[s] = Tail(queue[s])
          BY <3>2, <4>2 DEF SInv, QueuesOK
        <5> HIDE DEF id
        <5> QED  BY <3>2, <3>6, <4>2, <5>1, <5>2
      <4>3. CASE s # service
        BY <3>2, <3>6, <4>1, <4>3 DEF SInv, QueuesOK
      <4> QED  BY <4>2, <4>3
    <3>8. \A c \in Callers, s \in Services : last'[c][s] <= sent'[c]
      BY <3>2, <3>3, <3>5 DEF OrderInv
    <3> HIDE DEF id
    <3> QED  BY <3>5, <3>7, <3>8 DEF OrderInv
  <2>5. ASSUME NEW caller \in Callers, NEW content \in Contents, Send(caller, content), UNCHANGED loop
        PROVE  OrderInv'
    <3> DEFINE t == content.service
               new == [id |-> <<caller, sent'[caller]>>, service |-> t, args |-> content.args]
    <3>1. /\ last' = last /\ sent' = [sent EXCEPT ![caller] = @ + 1]
          /\ queue' = [queue EXCEPT ![t] = Enqueue(@, new, QueueDepth)] \/ queue' = queue
      BY <2>5 DEF loop, history, Send
    <3>2. t \in Services /\ QueueDepth \in Nat \ {0}
      BY ServiceAssumption
    <3>3. /\ sent \in [Callers -> Nat] /\ sent' \in [Callers -> Nat]
          /\ \A c \in Callers : sent[c] <= sent'[c]
          /\ sent[caller] < sent'[caller] /\ sent'[caller] \in 1 .. MaxRequests
      BY <2>5, <3>1, ServiceAssumption DEF SInv, Send
    <3>4. new \in RequestsTo(t) /\ new.id[1] = caller /\ new.id[2] = sent'[caller]
      BY <3>2, <3>3, ServiceAssumption DEF RequestsTo, Ids
    <3> HIDE DEF new, t
    <3>5. \A s \in Services : TakenFrom(s)' = TakenFrom(s)
      BY <3>1 DEF TakenFrom
    <3>6. ASSUME NEW s \in Services PROVE Rising(queue'[s], TakenFrom(s)', sent')
      <4>1. Rising(queue[s], TakenFrom(s), sent) /\ \A c \in Callers : TakenFrom(s)[c] <= sent[c]
        BY DEF OrderInv, TakenFrom
      <4>2. CASE queue'[s] = Enqueue(queue[s], new, QueueDepth) /\ s = t
        <5>1. Rising(Enqueue(queue[s], new, QueueDepth), TakenFrom(s), sent')
          <6> DEFINE S == RequestsTo(t) q == queue[t] taken == TakenFrom(t) made2 == sent'
          <6>1. /\ q \in Seq(S) /\ \A e \in S : e.id \in Callers \X Nat
                /\ taken \in [Callers -> Nat]
            BY <2>1, <2>2, <3>2
          <6>2. made2 \in [Callers -> Nat] /\ \A c \in Callers : sent[c] <= made2[c]
            BY <3>3
          <6>3. sent[new.id[1]] < new.id[2] /\ new.id[2] <= made2[new.id[1]]
            BY <3>3, <3>4
          <6>4. Rising(q, taken, sent) /\ \A c \in Callers : taken[c] <= sent[c]
            BY <4>1, <4>2
          <6> HIDE DEF S, q, taken, made2
          <6>5. Rising(Enqueue(q, new, QueueDepth), taken, made2)
            BY <3>2, <3>3, <3>4, <6>1, <6>2, <6>3, <6>4, EnqueueRises DEF S
          <6> QED  BY <4>2, <6>5 DEF q, taken, made2
        <5> QED  BY <3>5, <4>2, <5>1
      <4>3. CASE queue'[s] = queue[s]
        <5>1. \A i \in 1 .. Len(queue[s]) :
                queue[s][i].id[1] \in Callers /\ queue[s][i].id[2] \in Nat
          BY <2>1
        <5>2. \A i \in 1 .. Len(queue[s]) :
                queue[s][i].id[2] <= sent'[queue[s][i].id[1]]
          <6> SUFFICES ASSUME NEW i \in 1 .. Len(queue[s])
                       PROVE  queue[s][i].id[2] <= sent'[queue[s][i].id[1]]
            OBVIOUS
          <6>1. queue[s][i].id[2] <= sent[queue[s][i].id[1]]
            BY <4>1 DEF Rising
          <6>2. \A a, b, c \in Nat : a <= b /\ b <= c => a <= c
            OBVIOUS
          <6> QED  BY <3>3, <5>1, <6>1, <6>2
        <5> QED  BY <3>5, <4>1, <4>3, <5>2 DEF Rising
      <4>4. queue'[s] = queue[s] \/ (queue'[s] = Enqueue(queue[s], new, QueueDepth) /\ s = t)
        BY <3>1 DEF SInv, QueuesOK
      <4> QED  BY <4>2, <4>3, <4>4
    <3>7. \A c \in Callers, s \in Services : last[c][s] <= sent'[c]
      <4>1. \A a, b, c \in Nat : a <= b /\ b <= c => a <= c
        OBVIOUS
      <4> QED  BY <3>3, <4>1 DEF OrderInv
    <3> QED  BY <3>1, <3>6, <3>7 DEF OrderInv
  <2>6. CASE SpinWait \/ PassTurn \/ EndSpin \/ ProgramHandle \/ UNCHANGED programVars
    <3>1. UNCHANGED <<queue, sent, last>>
      BY <2>6 DEF SpinWait, PassTurn, EndSpin, ProgramHandle, programVars, vars, loop, history,
                  Handle, GetStep, SetStep, ListStep, Respond
    <3> QED  BY <2>3, <3>1
  <2>7. CASE \E name \in Names, value \in Values : DeclareFirst(name, value)
    <3>1. UNCHANGED <<queue, sent, last>>
      BY <2>7 DEF DeclareFirst, Declare, loop, history
    <3> QED  BY <2>3, <3>1
  <2> QED  BY <2>4, <2>5, <2>6, <2>7 DEF ProgramNext, Spin
<1>3. SInv /\ OrderInv => InSendingOrder
  <2> SUFFICES ASSUME OrderInv, SInv, NEW s \in Services, NEW i \in 1 .. Len(queue[s])
               PROVE  last[queue[s][i].id[1]][s] < queue[s][i].id[2]
    BY DEF OrderInv, InSendingOrder, Rising
  <2>1. queue[s][i].id[1] \in Callers
    <3>1. queue[s] \in Seq(RequestsTo(s))
      BY DEF SInv, QueuesOK
    <3>2. queue[s][i] \in RequestsTo(s)
      BY <3>1
    <3> QED  BY <3>2 DEF RequestsTo, Ids
  <2>2. TakenFrom(s)[queue[s][i].id[1]] < queue[s][i].id[2]
    BY DEF OrderInv, Rising
  <2> QED  BY <2>1, <2>2 DEF TakenFrom
<1> QED  BY <1>1, <1>2, <1>3, ProgramTyped, PTL DEF ProgramSpec
================================================================================
