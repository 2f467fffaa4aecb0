------------------------------ MODULE OldAddTwoInts ------------------------------
(***************************************************************************)
(* The earlier client and service, old/my_client_old.h and                 *)
(* old/my_service_old.h: sendRequest blocks its caller in a loop of its    *)
(* own until a response arrives, without a time limit.  What is exchanged  *)
(* is as in AddTwoInts, so clients of both versions can share the service. *)
(***************************************************************************)
EXTENDS AddTwoInts, FiniteSets

CONSTANT OldClients   (* the clients of the earlier version *)

ASSUME OldClientsAssumption == OldClients \subseteq Clients

VARIABLES
  pc,        (* where sendRequest is; "app" outside of it                   *)
  caught,    (* clients whose application has caught an exception of it     *)
  during     (* history: the call in which each response was heard          *)

calling == <<pc, caught, during>>
oldVars == <<vars, calling>>

OldInit ==
  /\ Init
  /\ pc = [c \in OldClients |-> "app"]
  /\ caught = {}
  /\ during = [c \in OldClients |-> << >>]

Goto(c, place) == pc' = [pc EXCEPT ![c] = place]

-----------------------------------------------------------------------------
(* sendRequest first sends the request ... *)
SendRequest_ReturnsAtOnce(c, question) ==
  /\ pc[c] = "app"
  /\ Request(c, question)
  /\ UNCHANGED calling

SendRequest(c, question) ==
  /\ pc[c] = "app"
  /\ Request(c, question)
  /\ Goto(c, "round")
  /\ UNCHANGED <<caught, during>>

(* ... then initialises its wait set and fills it, again in each round.     *)
FillWaitSet(c) ==
  /\ c \notin ended /\ pc[c] = "round"
  /\ Goto(c, "waiting")
  /\ UNCHANGED <<vars, caught, during>>

(* The second has passed, or nothing can be taken: the next round begins.    *)
NextRound_GivesUp(c) ==
  /\ c \notin ended /\ pc[c] = "waiting"
  /\ Goto(c, "heard")
  /\ UNCHANGED <<vars, caught, during>>

NextRound_WithoutFilling(c) ==
  /\ c \notin ended /\ pc[c] = "waiting"
  /\ Goto(c, "waiting for nothing")
  /\ UNCHANGED <<vars, caught, during>>

NextRound(c) ==
  /\ c \notin ended /\ pc[c] = "waiting"
  /\ Goto(c, "round")
  /\ UNCHANGED <<vars, caught, during>>

(* Whatever response comes first is taken for the answer: its number is      *)
(* shown, and not compared with the request's.                               *)
HearResponse(c) ==
  /\ pc[c] = "waiting"
  /\ TakeResponse(c)
  /\ during' = [during EXCEPT ![c] = Append(@, Len(asked[c]))]
  /\ Goto(c, "heard")
  /\ UNCHANGED caught

Return(c) ==
  /\ c \notin ended /\ pc[c] = "heard"
  /\ Goto(c, "app")
  /\ UNCHANGED <<vars, caught, during>>

(* Sending, and all that concerns the wait set but waiting, may throw.  The  *)
(* program does not catch it; an application may, and call again.            *)
CatchException(c) ==
  /\ c \notin ended /\ pc[c] \in {"app", "round", "heard"}
  /\ caught' = caught \cup {c}
  /\ Goto(c, "app")
  /\ UNCHANGED <<vars, during>>

Uncaught(c) == pc[c] # "waiting" /\ End(c) /\ UNCHANGED calling

(* One round of the loop in service(), and the end of its process.           *)
Serve == (TakeRequest \/ SendResponse \/ Crash \/ Restart) /\ UNCHANGED calling

(* A client of the present version pipelines.                                *)
Pipeline(c) ==
  /\ TakeResponse(c) \/ End(c) \/ (\E question \in Questions : Request(c, question))
  /\ UNCHANGED calling

OldNext ==
  \/ \E c \in OldClients, question \in Questions : SendRequest(c, question)
  \/ \E c \in OldClients :
       \/ FillWaitSet(c) \/ NextRound(c) \/ HearResponse(c) \/ Return(c)
       \/ CatchException(c) \/ Uncaught(c)
  \/ \E c \in Clients \ OldClients : Pipeline(c)
  \/ \E c \in Clients : Match(c) /\ UNCHANGED calling
  \/ Serve

(* Both loops run on, a wait is over after a second at the latest, and the   *)
(* take of a response that is there does not fail for ever.                  *)
OldFairness ==
  /\ WF_oldVars(TakeRequest /\ UNCHANGED calling)
  /\ WF_oldVars(SendResponse /\ UNCHANGED calling)
  /\ \A c \in OldClients :
       /\ WF_oldVars(FillWaitSet(c) \/ NextRound(c) \/ Return(c))
       /\ SF_oldVars(HearResponse(c))
  /\ \A c \in Clients \ OldClients : WF_oldVars(TakeResponse(c) /\ UNCHANGED calling)

OldSpec == OldInit /\ [][OldNext]_oldVars /\ OldFairness

-----------------------------------------------------------------------------
(* Properties.                                                               *)

(* The response a call of sendRequest returns with is the one to its own     *)
(* request, although it takes whatever comes first: a call never returns     *)
(* without its answer, so none can be late.  Only an exception that the      *)
(* application catches leaves an answer behind for the next call.            *)
OwnAnswer ==
  \A c \in OldClients \ caught : \A i \in 1 .. Len(heard[c]) : heard[c][i].number = during[c][i]

(* Whichever versions its clients are of, no request stays undecided, but    *)
(* for those of an application that has caught an exception: an answer may   *)
(* then wait for a call that never comes.                                    *)
EveryFateDecided ==
  \A c \in Clients, n \in 1 .. MaxRequests :
    Len(asked[c]) >= n ~> Decided(c, n) \/ c \in caught

Requested(c) == {i \in 1 .. Len(inbox) : inbox[i].client = c}
Handled(c) == IF current # None /\ current.client = c THEN 1 ELSE 0

(* A client that blocks has one request under way at most, and none outside  *)
(* of sendRequest: the queues never hold more requests than there are such   *)
(* clients, so none is displaced as long as there are no more than the depth. *)
OneUnderWay ==
  \A c \in OldClients \ caught :
    Cardinality(Requested(c)) + Handled(c) + Len(outbox[c])
      <= IF pc[c] \in {"app", "heard"} THEN 0 ELSE 1

(* A call returns, unless its request or answer is lost: then it waits for   *)
(* ever.  (Or an exception ends it.)                                         *)
CallReturns ==
  \A c \in OldClients, n \in 1 .. MaxRequests :
    pc[c] # "app" /\ Len(asked[c]) = n
      ~> pc[c] = "app" \/ <<c, n>> \in lost \/ c \in ended \cup caught
================================================================================
