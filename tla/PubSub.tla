--------------------------------- MODULE PubSub ---------------------------------
(***************************************************************************)
(* Publishing and subscribing processes: MyPublisher::publish in the       *)
(* loop of main_executor_pub, the middleware between, and the callback of  *)
(* main_executor_sub, run by MyExecutor as EventDispatch specifies.        *)
(***************************************************************************)
EXTENDS Integers, Sequences, KeepLast

CONSTANTS
  Publishers, Subscribers,   (* the processes                               *)
  MaxMessages,               (* bound: messages a publisher sends           *)
  QueueDepth                 (* history depth of a subscription             *)

Messages == [from : Publishers, number : 1 .. MaxMessages]

ASSUME PubSubAssumption == MaxMessages \in Nat /\ QueueDepth \in Nat \ {0}

VARIABLES
  published,   (* the number of messages each publisher has sent            *)
  ended,       (* publishers that ended with the exception of publish       *)
  matched,     (* pairs <<publisher, subscriber>> that discovered each other *)
  transit,     (* messages on their way from a publisher to a subscriber    *)
  queue,       (* the queue of each subscription                            *)
  arrived,     (* history: what has entered that queue                      *)
  received     (* what the callback has taken                               *)

vars == <<published, ended, matched, transit, queue, arrived, received>>

Init ==
  /\ published = [p \in Publishers |-> 0]
  /\ ended = {}
  /\ matched = {}
  /\ transit = [p \in Publishers |-> [s \in Subscribers |-> << >>]]
  /\ queue = [s \in Subscribers |-> << >>]
  /\ arrived = [s \in Subscribers |-> << >>]
  /\ received = [s \in Subscribers |-> << >>]

(* Discovery takes its time: nothing in the programs waits for it. *)
Match(p, s) ==
  /\ p \notin ended
  /\ <<p, s>> \notin matched
  /\ matched' = matched \cup {<<p, s>>}
  /\ UNCHANGED <<published, ended, transit, queue, arrived, received>>

(* publish sends to the subscriptions discovered by now, or throws, which    *)
(* ends the program.                                                         *)
publish(p, message) ==
  transit' = [transit EXCEPT ![p] = [s \in Subscribers |->
    IF <<p, s>> \in matched THEN Append(@[s], message) ELSE @[s]]]

PublishLoop(p) ==
  /\ p \notin ended
  /\ \/ /\ published[p] < MaxMessages
        /\ published' = [published EXCEPT ![p] = @ + 1]
        /\ publish(p, [from |-> p, number |-> published'[p]])
        /\ UNCHANGED ended
     \/ ended' = ended \cup {p} /\ UNCHANGED <<published, transit>>
  /\ UNCHANGED <<matched, queue, arrived, received>>

(* Reliable transport: messages of one publisher arrive in their order. *)
Arrive(p, s) ==
  /\ transit[p][s] # << >>
  /\ transit' = [transit EXCEPT ![p][s] = Tail(@)]
  /\ queue' = [queue EXCEPT ![s] = Enqueue(@, Head(transit[p][s]), QueueDepth)]
  /\ arrived' = [arrived EXCEPT ![s] = Append(@, Head(transit[p][s]))]
  /\ UNCHANGED <<published, ended, matched, received>>

(* The subscription callback takes one message. *)
Take_Newest(s) ==
  /\ queue[s] # << >>
  /\ received' = [received EXCEPT ![s] = Append(@, queue[s][Len(queue[s])])]
  /\ queue' = [queue EXCEPT ![s] = SubSeq(@, 1, Len(@) - 1)]
  /\ UNCHANGED <<published, ended, matched, transit, arrived>>

Take(s) ==
  /\ queue[s] # << >>
  /\ received' = [received EXCEPT ![s] = Append(@, Head(queue[s]))]
  /\ queue' = [queue EXCEPT ![s] = Tail(@)]
  /\ UNCHANGED <<published, ended, matched, transit, arrived>>

Next ==
  \/ \E p \in Publishers : PublishLoop(p)
  \/ \E p \in Publishers, s \in Subscribers : Match(p, s) \/ Arrive(p, s)
  \/ \E s \in Subscribers : Take(s)

(* What is on its way arrives, and MyExecutor serves the subscription. *)
Fairness ==
  /\ \A p \in Publishers, s \in Subscribers : WF_vars(Arrive(p, s))
  /\ \A s \in Subscribers : WF_vars(Take(s))

Spec == Init /\ [][Next]_vars /\ Fairness

-----------------------------------------------------------------------------
(* Properties.                                                               *)

(* A subscriber receives a publisher's messages in order and none twice, as  *)
(* often as it may have missed some: before discovery or in a full queue.    *)
ReceivedInOrder ==
  \A s \in Subscribers : \A i, j \in 1 .. Len(received[s]) :
    i < j /\ received[s][i].from = received[s][j].from
      => received[s][i].number < received[s][j].number

Elements(seq) == {seq[i] : i \in 1 .. Len(seq)}

(* A message is lost on the subscriber's side only to as many later ones as  *)
(* the queue is deep: the latest messages are always there to be taken.      *)
OnlyOldMessagesLost ==
  \A s \in Subscribers : \A i \in 1 .. Len(arrived[s]) :
    i > Len(arrived[s]) - QueueDepth
      => arrived[s][i] \in Elements(received[s]) \cup Elements(queue[s])

Newest(s, m) == arrived[s] # << >> /\ arrived[s][Len(arrived[s])] = m

(* The newest message to reach a subscriber is received in the end, unless a *)
(* newer one takes its turn.                                                 *)
NewestReceived ==
  \A s \in Subscribers, m \in Messages :
    Newest(s, m) ~> m \in Elements(received[s]) \/ ~Newest(s, m)
================================================================================
