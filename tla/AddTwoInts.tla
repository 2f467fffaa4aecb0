------------------------------- MODULE AddTwoInts -------------------------------
(***************************************************************************)
(* The service program main_executor_service and client programs like      *)
(* main_executor_client: MyClient::request, the service callback and the   *)
(* client callback, with the middleware between them.  The executors of    *)
(* both sides run the callbacks as EventDispatch specifies.                *)
(***************************************************************************)
EXTENDS Integers, Sequences, KeepLast

CONSTANTS
  Clients,       (* the client processes                                    *)
  Questions,     (* the pairs of operands they send                         *)
  Width,         (* of an integer: 64 in the program                        *)
  MaxRequests,   (* bound: requests a client sends; main sends one          *)
  MaxCrashes,    (* bound: ends of the service process                      *)
  ServiceDepth, ClientDepth,   (* history depths of their queues            *)
  None           (* no request is being handled                             *)

Least == -(2 ^ (Width - 1))
Greatest == 2 ^ (Width - 1) - 1

Operands == Least .. Greatest
Requests == [client : Clients, number : Nat, a : Operands, b : Operands]

ASSUME AddTwoIntsAssumption ==
  /\ Width \in Nat \ {0}
  /\ Questions \subseteq Operands \X Operands
  /\ None \notin Requests
  /\ {MaxRequests, MaxCrashes} \subseteq Nat
  /\ {ServiceDepth, ClientDepth} \subseteq Nat \ {0}

(* True of every width; written down for the prover, which knows no powers. *)
ASSUME PowersAssumption ==
  2 ^ (Width - 1) \in Nat \ {0} /\ 2 ^ Width = 2 * 2 ^ (Width - 1)

VARIABLES
  crashes,     (* how often the service process ended                       *)
  up,          (* is the service process running?                           *)
  matched,     (* clients that discovered the running service               *)
  ended,       (* client processes that ended with an exception             *)
  asked,       (* the operands of each client's requests: the n-th has      *)
               (* sequence number n                                         *)
  inbox,       (* the queue of the service                                  *)
  current,     (* the request in the service callback, or None              *)
  outbox,      (* the response queue of each client                         *)
  heard,       (* the responses its callback has taken                      *)
  lost         (* history: requests <<client, number>> past being answered  *)

service == <<crashes, up, current>>
vars == <<service, matched, ended, asked, inbox, outbox, heard, lost>>

Init ==
  /\ crashes = 0
  /\ up = TRUE
  /\ matched = {}
  /\ ended = {}
  /\ asked = [c \in Clients |-> << >>]
  /\ inbox = << >>
  /\ current = None
  /\ outbox = [c \in Clients |-> << >>]
  /\ heard = [c \in Clients |-> << >>]
  /\ lost = {}

Ids(requests) == {<<r.client, r.number>> : r \in requests}

(* Client and service discover each other at some time. *)
Match(c) ==
  /\ up /\ c \notin matched
  /\ matched' = matched \cup {c}
  /\ UNCHANGED <<service, ended, asked, inbox, outbox, heard, lost>>

-----------------------------------------------------------------------------
(* MyClient::request: waits neither for a service nor for an earlier answer, *)
(* and forgets the sequence number.                                          *)
Request(c, question) ==
  /\ c \notin ended
  /\ Len(asked[c]) < MaxRequests
  /\ asked' = [asked EXCEPT ![c] = Append(@, question)]
  /\ LET new == [client |-> c, number |-> Len(asked'[c]),
                 a |-> question[1], b |-> question[2]]
     IN  IF c \in matched
         THEN /\ inbox' = Enqueue(inbox, new, ServiceDepth)
              /\ lost' = lost \cup Ids(Displaced(inbox, ServiceDepth))
         ELSE /\ lost' = lost \cup Ids({new})
              /\ UNCHANGED inbox
  /\ UNCHANGED <<service, matched, ended, outbox, heard>>

(* The client process ends: rcl refuses the request, which throws, or the    *)
(* executor throws.                                                          *)
End(c) ==
  /\ c \notin ended
  /\ ended' = ended \cup {c}
  /\ UNCHANGED <<service, matched, asked, inbox, outbox, heard, lost>>

(* The service callback takes a request ...                                  *)
TakeRequest_Newest ==
  /\ up /\ current = None
  /\ inbox # << >>
  /\ current' = inbox[Len(inbox)]
  /\ inbox' = SubSeq(inbox, 1, Len(inbox) - 1)
  /\ UNCHANGED <<crashes, up, matched, ended, asked, outbox, heard, lost>>

TakeRequest_DropsRest ==
  /\ up /\ current = None
  /\ inbox # << >>
  /\ current' = Head(inbox)
  /\ inbox' = << >>
  /\ UNCHANGED <<crashes, up, matched, ended, asked, outbox, heard, lost>>

TakeRequest ==
  /\ up /\ current = None
  /\ inbox # << >>
  /\ current' = Head(inbox)
  /\ inbox' = Tail(inbox)
  /\ UNCHANGED <<crashes, up, matched, ended, asked, outbox, heard, lost>>

(* ... adds its operands as two's complement numbers (the signed overflow is *)
(* undefined behaviour, for which the compiled addition wraps around) ...    *)
Sum(a, b) == ((a + b - Least) % (2 ^ Width)) + Least

(* ... and sends the response, or reports that it could not.                 *)
SendResponse_UnderNextNumber ==
  /\ up /\ current # None
  /\ LET c == current.client
         response == [number |-> Len(heard[c]) + Len(outbox[c]) + 1,
                      sum |-> Sum(current.a, current.b)]
     IN  /\ outbox' = [outbox EXCEPT ![c] = Enqueue(@, response, ClientDepth)]
         /\ lost' = lost
  /\ current' = None
  /\ UNCHANGED <<crashes, up, matched, ended, asked, inbox, heard>>

SendResponse ==
  /\ up /\ current # None
  /\ LET c == current.client
         response == [number |-> current.number, sum |-> Sum(current.a, current.b)]
     IN  \/ /\ outbox' = [outbox EXCEPT ![c] = Enqueue(@, response, ClientDepth)]
            /\ lost' = lost \cup {<<c, r.number>> : r \in Displaced(outbox[c], ClientDepth)}
         \/ UNCHANGED outbox /\ lost' = lost \cup Ids({current})
  /\ current' = None
  /\ UNCHANGED <<crashes, up, matched, ended, asked, inbox, heard>>

(* The client callback takes a response. *)
TakeResponse(c) ==
  /\ c \notin ended
  /\ outbox[c] # << >>
  /\ heard' = [heard EXCEPT ![c] = Append(@, Head(outbox[c]))]
  /\ outbox' = [outbox EXCEPT ![c] = Tail(@)]
  /\ UNCHANGED <<service, matched, ended, asked, inbox, lost>>

-----------------------------------------------------------------------------
(* The service process ends (an exception, a signal) with its queue and the  *)
(* request in its callback, and is started anew: clients must rediscover it. *)
Crash_QueueSurvives ==
  /\ up /\ crashes < MaxCrashes
  /\ up' = FALSE
  /\ crashes' = crashes + 1
  /\ current' = None
  /\ matched' = {}
  /\ lost' = lost \cup Ids({inbox[i] : i \in 1 .. Len(inbox)} \cup ({current} \ {None}))
  /\ UNCHANGED <<inbox, ended, asked, outbox, heard>>

Crash ==
  /\ up /\ crashes < MaxCrashes
  /\ up' = FALSE
  /\ crashes' = crashes + 1
  /\ current' = None
  /\ inbox' = << >>
  /\ matched' = {}
  /\ lost' = lost \cup Ids({inbox[i] : i \in 1 .. Len(inbox)} \cup ({current} \ {None}))
  /\ UNCHANGED <<ended, asked, outbox, heard>>

Restart ==
  /\ ~up
  /\ up' = TRUE
  /\ UNCHANGED <<crashes, current, matched, ended, asked, inbox, outbox, heard, lost>>

Next ==
  \/ \E c \in Clients : Match(c) \/ TakeResponse(c) \/ End(c)
  \/ \E c \in Clients, question \in Questions : Request(c, question)
  \/ TakeRequest \/ SendResponse \/ Crash \/ Restart

(* The executors of the service and of the clients run their callbacks; no   *)
(* process is bound to be restarted, to be discovered or to send anything.   *)
Fairness ==
  /\ WF_vars(TakeRequest) /\ WF_vars(SendResponse)
  /\ \A c \in Clients : WF_vars(TakeResponse(c))

Spec == Init /\ [][Next]_vars /\ Fairness

-----------------------------------------------------------------------------
(* Properties.                                                               *)

(* What a client hears under a sequence number is the sum of the operands it *)
(* sent under that number, whichever clients pipeline requests and whichever *)
(* requests or answers are lost on the way: exactly, if the sum fits, and    *)
(* otherwise off by a multiple of 2^Width.                                   *)
HeardSumIsAsked ==
  \A c \in Clients : \A i \in 1 .. Len(heard[c]) :
    LET h == heard[c][i]
        exact == asked[c][h.number][1] + asked[c][h.number][2]
    IN  /\ h.number \in 1 .. Len(asked[c])
        /\ h.sum \in Operands
        /\ IF exact \in Operands THEN h.sum = exact ELSE (h.sum - exact) % (2 ^ Width) = 0

(* Answers are heard in the order of the requests, and none twice: a client  *)
(* could tell from the numbers alone, which request() throws away, which of  *)
(* its requests went unanswered.                                             *)
HeardInOrder ==
  \A c \in Clients : \A i, j \in 1 .. Len(heard[c]) :
    i < j => heard[c][i].number < heard[c][j].number

Heard(c, n) == \E i \in 1 .. Len(heard[c]) : heard[c][i].number = n

(* A request that was lost, with the process or in a full queue, is never    *)
(* answered later: neither after a restart nor by the answer to another one. *)
LostNeverHeard == \A c \in Clients, n \in 1 .. MaxRequests : <<c, n>> \in lost => ~Heard(c, n)

(* What becomes of a request: it is heard of, or lost for good because the   *)
(* service was not discovered yet, a queue was full, the response could not  *)
(* be sent or the service ended; or its client has ended.                    *)
Decided(c, n) == Heard(c, n) \/ <<c, n>> \in lost \/ c \in ended
================================================================================
