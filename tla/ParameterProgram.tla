---------------------------- MODULE ParameterProgram ----------------------------
(***************************************************************************)
(* main_parameter: the parameter services composed with the loop that      *)
(* serves them.  MyParameterService takes from any of its services as      *)
(* EventDispatch allows; here MyExecutor::spin decides, which serves those *)
(* that rcl_wait reported, once each, in the order of its list.            *)
(***************************************************************************)
EXTENDS MyParameterService

VARIABLES
  reported,    (* services whose slot the last rcl_wait left occupied       *)
  turn,        (* the position in the list; 0 outside of spin               *)
  last,        (* history: the number of the request taken last, of each    *)
               (* caller at each service                                    *)
  missed       (* history: spins that ended since a service has had a       *)
               (* request, up to 2, without taking one                      *)

history == <<last, missed>>
loop == <<reported, turn, history>>
programVars == <<vars, loop>>

ProgramInit ==
  /\ Init
  /\ reported = {}
  /\ turn = 0
  /\ last = [c \in Callers |-> [s \in Services |-> 0]]
  /\ missed = [s \in Services |-> 0]

-----------------------------------------------------------------------------
(* The order in which the constructor registers the services, which is that  *)
(* of the node's and of the executor's list.                                 *)
Order_WithoutList == <<"get_parameters", "set_parameters", "describe_parameters">>

Order == <<"get_parameters", "set_parameters", "list_parameters", "describe_parameters">>

Pending == {s \in Services : queue[s] # << >>}

(* spin begins: it waits for a second, then returns, or finds the services   *)
(* with requests and perhaps others; an error counts as all of them.         *)
SpinWait_FirstOnly ==
  /\ turn = 0
  /\ \E first \in 1 .. Len(Order) :
       /\ reported' = {Order[first]} \cap Pending /\ reported' # {}
       /\ \A i \in 1 .. first - 1 : Order[i] \notin Pending
  /\ turn' = 1
  /\ UNCHANGED <<vars, history>>

SpinWait ==
  /\ turn = 0
  /\ reported' \in {ready \in SUBSET Services : Pending \subseteq ready /\ ready # {}}
  /\ turn' = 1
  /\ UNCHANGED <<vars, history>>

InTurn(service) == request = None /\ turn \in 1 .. Len(Order) /\ Order[turn] = service

(* The callback of a reported service takes one request, if there is one.    *)
ServeTurn ==
  \E service \in reported :
    /\ InTurn(service)
    /\ Take(service)
    /\ LET id == request'.id IN last' = [last EXCEPT ![id[1]][service] = id[2]]
    /\ missed' = [missed EXCEPT ![service] = 0]
    /\ turn' = turn + 1
    /\ UNCHANGED reported

PassTurn ==
  /\ \E service \in Services :
       InTurn(service) /\ (service \notin reported \/ queue[service] = << >>)
  /\ turn' = turn + 1
  /\ UNCHANGED <<vars, reported, history>>

(* spin returns when the last handler has finished, and the program sleeps.  *)
EndSpin ==
  /\ request = None /\ turn > Len(Order)
  /\ turn' = 0 /\ reported' = {}
  /\ missed' = [s \in Services |->
       IF s \in Pending /\ missed[s] < 2 THEN missed[s] + 1 ELSE missed[s]]
  /\ UNCHANGED <<vars, last>>

ProgramHandle == Handle /\ UNCHANGED loop

Spin == SpinWait \/ ServeTurn \/ PassTurn \/ EndSpin \/ ProgramHandle

(* main declares its parameters before the loop, and then only serves.       *)
DeclareFirst(name, value) ==
  /\ turn = 0 /\ sent = [c \in Callers |-> 0]
  /\ Declare(name, value)
  /\ UNCHANGED loop

ProgramNext ==
  \/ Spin
  \/ \E name \in Names, value \in Values : DeclareFirst(name, value)
  \/ \E caller \in Callers, content \in Contents : Send(caller, content) /\ UNCHANGED loop

(* The one thread goes on.  (A wait that finds nothing for ever does not     *)
(* matter: it is not among the steps.)                                       *)
ProgramSpec == ProgramInit /\ [][ProgramNext]_programVars /\ WF_programVars(Spin)

-----------------------------------------------------------------------------
(* Properties.                                                               *)

(* The loop keeps what MyParameterService assumes of it: one handler at a    *)
(* time, run to its end, and every service is taken from again.              *)
ImplementsHandlers == Spec

(* A request at the head of its queue waits for the end of the spin under    *)
(* way and is served in the next: the other services overtake it, whose      *)
(* requests may be younger, but by two requests each at most.                *)
ServedNextSpin == \A s \in Services : missed[s] <= 1

(* A caller that does not wait for answers can rely on the order of its      *)
(* requests only within one service: what is in a queue is behind what was   *)
(* taken from it, and in the order of sending.  (Between services there is   *)
(* no order: a later get overtakes an earlier set.)                          *)
InSendingOrder ==
  \A s \in Services : \A i \in 1 .. Len(queue[s]) :
    LET id == queue[s][i].id IN
      /\ last[id[1]][s] < id[2]
      /\ \A j \in 1 .. i - 1 : queue[s][j].id[1] = id[1] => queue[s][j].id[2] < id[2]
================================================================================
