--------------------------- MODULE MyParameterService ---------------------------
(***************************************************************************)
(* The four parameter services of a node, the handlers MyParameterService  *)
(* registers for them, and callers that send requests without waiting for  *)
(* the answer to the one before.                                           *)
(*                                                                         *)
(* One thread runs the handlers: which service it serves next is whatever  *)
(* MyExecutor, as specified by EventDispatch, may deliver.  Requests and   *)
(* the other callers go on while a handler works through its loop.         *)
(***************************************************************************)
EXTENDS ParameterAnswers, KeepLast

CONSTANTS
  Callers,       (* the processes that call the services                    *)
  MaxRequests,   (* bound: requests each caller sends                       *)
  Contents,      (* what a caller may ask: records of a service and args    *)
  QueueDepth,    (* history depth of a service's KEEP_LAST request queue    *)
  None           (* no request, or no answer                                *)

Services == {"get_parameters", "set_parameters", "list_parameters", "describe_parameters"}
Ids == Callers \X (1 .. MaxRequests)

(* What a request holds: names, updates, or nothing a handler would look at. *)
ArgsOf(service) ==
  CASE service = "get_parameters" -> Seq(Names)
    [] service = "set_parameters" -> Seq([name : Names, value : Values])
    [] service \in {"list_parameters", "describe_parameters"} -> {<< >>}

ASSUME ServiceAssumption ==
  /\ MaxRequests \in Nat /\ QueueDepth \in Nat \ {0}
  /\ \A c \in Contents : c.service \in Services /\ c.args \in ArgsOf(c.service)

ASSUME NoneAssumption ==
  \A s \in Services : None \notin [id : Ids, service : {s}, args : ArgsOf(s)]

VARIABLES
  parameters,    (* parameter_storage_                                      *)
  sent,          (* the number of requests each caller has sent             *)
  queue,         (* the request queue of each service                       *)
  request,       (* the handler's request, or None while no handler runs    *)
  item,          (* the position its loop has reached, from 1               *)
  reply,         (* the response under construction                         *)
  answers        (* the response each request got, or None                  *)

handler == <<request, item, reply>>
vars == <<parameters, sent, queue, handler, answers>>

Storage == INSTANCE MyParameter

Init ==
  /\ Storage!Init
  /\ sent = [c \in Callers |-> 0]
  /\ queue = [s \in Services |-> << >>]
  /\ request = None
  /\ item = 1
  /\ reply = << >>
  /\ answers = [id \in Ids |-> None]

-----------------------------------------------------------------------------
(* The program declares and sets parameters through the storage it shares    *)
(* with the service, in the thread that also runs the handlers.              *)
Declare(name, value) ==
  /\ request = None
  /\ Storage!declare_parameter(name, value)
  /\ UNCHANGED <<sent, queue, handler, answers>>

Update(name, value) ==
  /\ request = None
  /\ Storage!set_parameter(name, value)
  /\ UNCHANGED <<sent, queue, handler, answers>>

(* A caller sends a request: it is lost while the server has not been        *)
(* discovered, and a full queue drops its oldest element.                    *)
Send(caller, content) ==
  /\ sent[caller] < MaxRequests
  /\ sent' = [sent EXCEPT ![caller] = @ + 1]
  /\ LET new == [id |-> <<caller, sent'[caller]>>,
                 service |-> content.service, args |-> content.args]
     IN  \/ queue' = [queue EXCEPT ![content.service] = Enqueue(@, new, QueueDepth)]
         \/ UNCHANGED queue
  /\ UNCHANGED <<parameters, handler, answers>>

-----------------------------------------------------------------------------
(* The handlers.  Each takes a request, works through a loop (list_parameters *)
(* copies the names at once, describe_parameters has nothing to do) and       *)
(* sends the response; a send that fails is reported and nothing else.        *)
Take_Newest(service) ==
  /\ request = None
  /\ queue[service] # << >>
  /\ request' = queue[service][Len(queue[service])]
  /\ queue' = [queue EXCEPT ![service] = SubSeq(@, 1, Len(@) - 1)]
  /\ item' = 1
  /\ reply' = << >>
  /\ UNCHANGED <<parameters, sent, answers>>

Take(service) ==
  /\ request = None
  /\ queue[service] # << >>
  /\ request' = Head(queue[service])
  /\ queue' = [queue EXCEPT ![service] = Tail(@)]
  /\ item' = 1
  /\ reply' = << >>
  /\ UNCHANGED <<parameters, sent, answers>>

LoopLength ==
  CASE request.service \in {"get_parameters", "set_parameters"} -> Len(request.args)
    [] request.service = "list_parameters" -> 1
    [] request.service = "describe_parameters" -> 0

Working(service) == request # None /\ request.service = service /\ item <= LoopLength

GetStep_StaysAtUndeclared ==
  /\ Working("get_parameters")
  /\ IF Storage!has_parameter(request.args[item])
     THEN reply' = Append(reply, Storage!get_parameter(request.args[item])) /\ item' = item + 1
     ELSE UNCHANGED <<reply, item>>
  /\ UNCHANGED <<parameters, sent, queue, request, answers>>

(* A name that is not declared adds nothing to the response. *)
GetStep ==
  /\ Working("get_parameters")
  /\ LET name == request.args[item]
     IN  reply' = IF Storage!has_parameter(name)
                  THEN Append(reply, Storage!get_parameter(name)) ELSE reply
  /\ item' = item + 1
  /\ UNCHANGED <<parameters, sent, queue, request, answers>>

(* Each update is carried out, or refused, by itself. *)
SetStep_StopsAtFailure ==
  /\ Working("set_parameters")
  /\ LET update == request.args[item]
     IN  /\ Storage!set_parameter(update.name, update.value)
         /\ reply' = Append(reply, [successful |-> Storage!Accepts(update.name, update.value)])
         /\ item' = IF Storage!Accepts(update.name, update.value)
                    THEN item + 1 ELSE LoopLength + 1
  /\ UNCHANGED <<sent, queue, request, answers>>

SetStep ==
  /\ Working("set_parameters")
  /\ LET update == request.args[item]
     IN  /\ Storage!set_parameter(update.name, update.value)
         /\ reply' = Append(reply, [successful |-> Storage!Accepts(update.name, update.value)])
  /\ item' = item + 1
  /\ UNCHANGED <<sent, queue, request, answers>>

ListStep ==
  /\ Working("list_parameters")
  /\ reply' = Storage!get_parameter_names
  /\ item' = item + 1
  /\ UNCHANGED <<parameters, sent, queue, request, answers>>

Respond ==
  /\ request # None
  /\ item > LoopLength
  /\ \/ answers' = [answers EXCEPT ![request.id] = reply]
     \/ UNCHANGED answers
  /\ request' = None
  /\ item' = 1
  /\ reply' = << >>
  /\ UNCHANGED <<parameters, sent, queue>>

Handle == GetStep \/ SetStep \/ ListStep \/ Respond

-----------------------------------------------------------------------------
Next ==
  \/ \E name \in Names, value \in Values : Declare(name, value) \/ Update(name, value)
  \/ \E caller \in Callers, content \in Contents : Send(caller, content)
  \/ \E service \in Services : Take(service)
  \/ Handle

(* A handler runs to its end.  EventDispatch promises that a service with    *)
(* pending requests is served again and again, whatever the thread does in   *)
(* between: strong fairness, because no request is taken while a handler     *)
(* runs.                                                                     *)
Fairness == WF_vars(Handle) /\ \A service \in Services : SF_vars(Take(service))

Spec == Init /\ [][Next]_vars /\ Fairness

-----------------------------------------------------------------------------
(* Properties.                                                               *)

(* Requests sit in the queue of their service, which never exceeds its depth, *)
(* and the program's parameters keep values of the message type.              *)
TypeOK ==
  /\ Storage!TypeOK
  /\ sent \in [Callers -> 0 .. MaxRequests]
  /\ \A s \in Services :
       /\ Len(queue[s]) <= QueueDepth
       /\ \A i \in 1 .. Len(queue[s]) : queue[s][i].service = s /\ queue[s][i].id \in Ids
  /\ request # None => request.id \in Ids /\ item \in 1 .. LoopLength + 1

(* Whoever updates a parameter, the program or a caller, and with whatever    *)
(* value: the typed getters that work for it never change, so the program may *)
(* read its parameters without handling exceptions.                           *)
GettersStable == Storage!GettersStable

(* What the handler will have stored and answered at the end of its loop is  *)
(* decided when it takes the request: the abstract server has done it then.  *)
Store ==
  IF request = None THEN parameters
  ELSE StoreAfter(parameters, request.service, request.args, item)

Decided ==
  IF request = None THEN {}
  ELSE {[id |-> request.id, reply |-> Reply(parameters, request.service, request.args)]}

Waiting == UNION {{queue[s][i] : i \in 1 .. Len(queue[s])} : s \in Services}

Issued == {id \in Ids : id[2] <= sent[id[1]]}

PS == INSTANCE ParameterServer WITH
  store <- Store, issued <- Issued, waiting <- Waiting, decided <- Decided

(* The handlers implement the abstract server: although a set request with   *)
(* several updates (a name may occur twice, an update may not fit) is worked *)
(* off item by item and its answer may be lost, each request takes effect    *)
(* at most once, as a whole, between its sending and its answer.             *)
ImplementsParameterServer == PS!Safety

(* No request that is kept in a queue waits forever, and no answer is held   *)
(* back, whatever the other services receive.                                *)
AnsweredPromptly == PS!Prompt
================================================================================
