------------------------------ MODULE PubSubProofs ------------------------------
(***************************************************************************)
(* The order and the loss of messages, for every number of publishers,     *)
(* subscribers and messages, and every depth of the queues.                *)
(***************************************************************************)
EXTENDS PubSub, KeepLastProofs, TLAPS

(* The numbers of a publisher's messages in a sequence, which rise if the      *)
(* sequence keeps the order of each publisher.                                 *)
Numbers(q, p) == {q[i].number : i \in {j \in 1 .. Len(q) : q[j].from = p}}
Rises(q) ==
  \A i, j \in 1 .. Len(q) : i < j /\ q[i].from = q[j].from => q[i].number < q[j].number

(* What a queue of messages is made of. *)
LEMMA MessageFacts ==
  ASSUME NEW q \in Seq(Messages)
  PROVE  \A i \in 1 .. Len(q) : /\ q[i] \in Messages /\ q[i].from \in Publishers
                                /\ q[i].number \in Nat /\ q[i].number \in Numbers(q, q[i].from)
<1>1. \A m \in Messages : m.from \in Publishers /\ m.number \in Nat
  BY PubSubAssumption DEF Messages
<1>2. \A i \in 1 .. Len(q) : q[i] \in Messages
  OBVIOUS
<1> QED  BY <1>1, <1>2 DEF Numbers

(* A new message, younger than all of its publisher's, keeps the queue in    *)
(* order.                                                                    *)
LEMMA EnqueueMessage ==
  ASSUME NEW q \in Seq(Messages), NEW new \in Messages, NEW depth \in Nat \ {0},
         Rises(q), \A n \in Numbers(q, new.from) : n < new.number
  PROVE  LET r == Enqueue(q, new, depth) IN
         /\ r \in Seq(Messages)
         /\ Rises(r)
         /\ \A p \in Publishers : Numbers(r, p) \subseteq
              Numbers(q, p) \cup (IF p = new.from THEN {new.number} ELSE {})
<1> DEFINE r == Enqueue(q, new, depth)
<1>1. r \in Seq(Messages)
  BY EnqueueShifts
<1>2. PICK k \in {0, 1} :
        /\ Len(r) = Len(q) - k + 1
        /\ r[Len(r)] = new
        /\ \A i \in 1 .. Len(r) - 1 : r[i] = q[i + k]
        /\ k = 1 => Len(q) > 0
  BY EnqueueShifts
<1> HIDE DEF r
<1>3. \A i \in 1 .. Len(r) - 1 : i + k \in 1 .. Len(q) /\ r[i] = q[i + k]
  BY <1>1, <1>2
<1>4. \A i \in 1 .. Len(q) : q[i].number \in Numbers(q, q[i].from)
  BY MessageFacts
<1>5. Rises(r)
  <2> SUFFICES ASSUME NEW i \in 1 .. Len(r), NEW j \in 1 .. Len(r),
                      i < j, r[i].from = r[j].from
               PROVE  r[i].number < r[j].number
    BY DEF Rises
  <2>1. i \in 1 .. Len(r) - 1
    BY <1>1
  <2>2. CASE j = Len(r)
    BY <1>2, <1>3, <1>4, <2>1, <2>2
  <2>3. CASE j \in 1 .. Len(r) - 1
    BY <1>3, <2>1, <2>3 DEF Rises
  <2> QED  BY <1>1, <2>2, <2>3
<1>6. ASSUME NEW p \in Publishers, NEW n \in Numbers(r, p)
      PROVE  n \in Numbers(q, p) \/ (p = new.from /\ n = new.number)
  <2>1. PICK i \in 1 .. Len(r) : r[i].from = p /\ r[i].number = n
    BY <1>6 DEF Numbers
  <2>2. CASE i = Len(r)
    BY <1>2, <2>1, <2>2
  <2>3. CASE i \in 1 .. Len(r) - 1
    BY <1>3, <1>4, <2>1, <2>3
  <2> QED  BY <1>1, <2>2, <2>3
<1>7. \A p \in Publishers : Numbers(r, p) \subseteq
        Numbers(q, p) \cup (IF p = new.from THEN {new.number} ELSE {})
  BY <1>6
<1> QED  BY <1>1, <1>5, <1>7 DEF r

(* A sequence without a bound is a queue that is deep enough.                  *)
LEMMA AppendMessage ==
  ASSUME NEW q \in Seq(Messages), NEW new \in Messages,
         Rises(q), \A n \in Numbers(q, new.from) : n < new.number
  PROVE  /\ Append(q, new) \in Seq(Messages)
         /\ Rises(Append(q, new))
         /\ \A p \in Publishers : Numbers(Append(q, new), p) \subseteq
              Numbers(q, p) \cup (IF p = new.from THEN {new.number} ELSE {})
<1>1. Len(q) + 1 \in Nat \ {0} /\ Len(q) < Len(q) + 1
  OBVIOUS
<1>2. Enqueue(q, new, Len(q) + 1) = Append(q, new)
  BY <1>1 DEF Enqueue
<1> QED  BY <1>1, <1>2, EnqueueMessage

(* The head of an ordered queue is the oldest of its publisher's messages. *)
LEMMA DequeueMessage ==
  ASSUME NEW q \in Seq(Messages), q # << >>, Rises(q)
  PROVE  /\ Tail(q) \in Seq(Messages) /\ Head(q) \in Messages
         /\ Rises(Tail(q))
         /\ \A p \in Publishers : Numbers(Tail(q), p) \subseteq Numbers(q, p)
         /\ Head(q).number \in Numbers(q, Head(q).from)
         /\ \A n \in Numbers(Tail(q), Head(q).from) : Head(q).number < n
<1>1. /\ Tail(q) \in Seq(Messages) /\ Len(q) > 0 /\ Len(Tail(q)) = Len(q) - 1
      /\ \A i \in 1 .. Len(Tail(q)) : i + 1 \in 1 .. Len(q) /\ Tail(q)[i] = q[i + 1]
      /\ Head(q) = q[1] /\ 1 \in 1 .. Len(q) /\ q[1] \in Messages
  OBVIOUS
<1>2. Rises(Tail(q))
  BY <1>1 DEF Rises
<1>3. \A p \in Publishers : Numbers(Tail(q), p) \subseteq Numbers(q, p)
  BY <1>1 DEF Numbers
<1>4. Head(q).number \in Numbers(q, Head(q).from)
  BY <1>1 DEF Numbers
<1>5. \A i \in 1 .. Len(Tail(q)) : Tail(q)[i].from = Head(q).from => Head(q).number < Tail(q)[i].number
  BY <1>1 DEF Rises
<1>6. \A n \in Numbers(Tail(q), Head(q).from) : Head(q).number < n
  BY <1>5 DEF Numbers
<1> QED  BY <1>1, <1>2, <1>3, <1>4, <1>6

-----------------------------------------------------------------------------
(* The way of a publisher's messages to a subscriber, from its end: R received, *)
(* Q in the queue, T in transit, n published.  The numbers rise along it.       *)
Before(A, B) == \A m \in A, n \in B : m < n
Way(R, Q, T, n) == R \cup Q \cup T \subseteq 1 .. n /\ Before(R, Q) /\ Before(R, T) /\ Before(Q, T)

Typed ==
  /\ published \in [Publishers -> 0 .. MaxMessages]
  /\ transit \in [Publishers -> [Subscribers -> Seq(Messages)]]
  /\ queue \in [Subscribers -> Seq(Messages)]
  /\ received \in [Subscribers -> Seq(Messages)]
  /\ arrived \in [Subscribers -> Seq(Messages)]

InTransit(p, s) ==
  Rises(transit[p][s]) /\ \A i \in 1 .. Len(transit[p][s]) : transit[p][s][i].from = p

OnTheWay(p, s) ==
  Way(Numbers(received[s], p), Numbers(queue[s], p), Numbers(transit[p][s], p), published[p])

PInv ==
  /\ Typed
  /\ \A s \in Subscribers : Rises(received[s]) /\ Rises(queue[s])
  /\ \A p \in Publishers, s \in Subscribers : InTransit(p, s) /\ OnTheWay(p, s)

(* A message that is published is younger than all before it. *)
LEMMA PublishKeepsPInv ==
  ASSUME PInv, NEW p \in Publishers, PublishLoop(p)
  PROVE  PInv'
<1>1. UNCHANGED <<queue, arrived, received>>
  BY DEF PublishLoop
<1>2. CASE UNCHANGED <<published, transit>>
  BY <1>1, <1>2 DEF PInv, Typed, InTransit, OnTheWay
<1>3. CASE /\ published[p] < MaxMessages
           /\ published' = [published EXCEPT ![p] = @ + 1]
           /\ publish(p, [from |-> p, number |-> published'[p]])
  <2> DEFINE new == [from |-> p, number |-> published[p] + 1]
  <2>1. /\ published[p] \in Nat /\ published'[p] = published[p] + 1
        /\ published' \in [Publishers -> 0 .. MaxMessages]
        /\ \A q \in Publishers \ {p} : published'[q] = published[q]
    BY <1>3, PubSubAssumption DEF PInv, Typed
  <2>2. new \in Messages /\ new.from = p /\ new.number = published[p] + 1
    BY <1>3, <2>1, PubSubAssumption DEF Messages
  <2>3. transit' = [transit EXCEPT ![p] = [s \in Subscribers |->
          IF <<p, s>> \in matched THEN Append(@[s], new) ELSE @[s]]]
    BY <1>3, <2>1 DEF publish
  <2> HIDE DEF new
  <2>4. /\ transit \in [Publishers -> [Subscribers -> Seq(Messages)]]
        /\ transit'[p] = [s \in Subscribers |->
             IF <<p, s>> \in matched THEN Append(transit[p][s], new) ELSE transit[p][s]]
        /\ \A q \in Publishers \ {p} : transit'[q] = transit[q]
    BY <2>3 DEF PInv, Typed
  <2>5. ASSUME NEW q \in Publishers, NEW s \in Subscribers
        PROVE  transit'[q][s] = IF q = p /\ <<p, s>> \in matched
                                THEN Append(transit[q][s], new) ELSE transit[q][s]
    BY <2>4
  <2>6. ASSUME NEW q \in Publishers, NEW s \in Subscribers
        PROVE  /\ transit[q][s] \in Seq(Messages) /\ transit'[q][s] \in Seq(Messages)
               /\ InTransit(q, s)' /\ OnTheWay(q, s)'
    <3>1. /\ transit[q][s] \in Seq(Messages) /\ InTransit(q, s)
          /\ Way(Numbers(received[s], q), Numbers(queue[s], q), Numbers(transit[q][s], q), published[q])
      BY DEF PInv, Typed, OnTheWay
    <3>2. CASE q = p /\ <<p, s>> \in matched
      <4>1. transit'[q][s] = Append(transit[q][s], new)
        BY <2>5, <3>2
      <4>2. \A n \in Numbers(transit[q][s], new.from) : n < new.number
        BY <2>1, <2>2, <3>1, <3>2 DEF Way
      <4>3. /\ transit'[q][s] \in Seq(Messages) /\ Rises(transit'[q][s])
            /\ Numbers(transit'[q][s], q) \subseteq Numbers(transit[q][s], q) \cup {published[q] + 1}
        BY <2>2, <3>1, <3>2, <4>1, <4>2, AppendMessage DEF InTransit
      <4>4. \A i \in 1 .. Len(transit'[q][s]) : transit'[q][s][i].from = q
        BY <2>2, <3>1, <3>2, <4>1 DEF InTransit
      <4>5. Way(Numbers(received[s], q), Numbers(queue[s], q), Numbers(transit'[q][s], q), published[q] + 1)
        BY <2>1, <3>1, <3>2, <4>3 DEF Way, Before
      <4> QED  BY <1>1, <2>1, <3>1, <3>2, <4>3, <4>4, <4>5 DEF InTransit, OnTheWay
    <3>3. CASE ~(q = p /\ <<p, s>> \in matched)
      <4>1. transit'[q][s] = transit[q][s]
        BY <2>5, <3>3
      <4>2. 1 .. published[q] \subseteq 1 .. published'[q]
        <5>1. CASE q = p
          BY <2>1, <5>1
        <5>2. CASE q # p
          BY <2>1, <5>2
        <5> QED  BY <5>1, <5>2
      <4> QED  BY <1>1, <3>1, <4>1, <4>2 DEF InTransit, OnTheWay, Way
    <3> QED  BY <3>2, <3>3
  <2>7. transit' \in [Publishers -> [Subscribers -> Seq(Messages)]]
    <3>1. \A s \in Subscribers : transit'[p][s] \in Seq(Messages)
      BY <2>6
    <3>2. transit'[p] = [s \in Subscribers |-> transit'[p][s]]
      BY <2>4
    <3>3. transit'[p] \in [Subscribers -> Seq(Messages)]
      BY <3>1, <3>2
    <3> QED  BY <2>3, <2>4, <3>3
  <2> QED  BY <1>1, <2>1, <2>6, <2>7 DEF PInv, Typed
<1> QED  BY <1>2, <1>3 DEF PublishLoop

(* A message that arrives queues behind older ones of its publisher. *)
LEMMA ArriveKeepsPInv ==
  ASSUME PInv, NEW p \in Publishers, NEW s \in Subscribers, Arrive(p, s)
  PROVE  PInv'
<1> DEFINE new == Head(transit[p][s])
<1>1. /\ transit[p][s] # << >> /\ transit[p][s] \in Seq(Messages) /\ Rises(transit[p][s])
      /\ transit' = [transit EXCEPT ![p][s] = Tail(@)]
      /\ queue' = [queue EXCEPT ![s] = Enqueue(@, new, QueueDepth)]
      /\ arrived' = [arrived EXCEPT ![s] = Append(@, new)]
      /\ UNCHANGED <<published, received>>
  BY DEF Arrive, PInv, Typed, InTransit
<1>2. /\ Tail(transit[p][s]) \in Seq(Messages) /\ new \in Messages
      /\ Rises(Tail(transit[p][s]))
      /\ Numbers(Tail(transit[p][s]), p) \subseteq Numbers(transit[p][s], p)
      /\ new.number \in Numbers(transit[p][s], new.from)
      /\ \A n \in Numbers(Tail(transit[p][s]), new.from) : new.number < n
  BY <1>1, DequeueMessage
<1>3. /\ new.from = p
      /\ \A i \in 1 .. Len(Tail(transit[p][s])) : Tail(transit[p][s])[i].from = p
  BY <1>1 DEF PInv, InTransit
<1> HIDE DEF new
<1>4. \A q \in Publishers : Way(Numbers(received[s], q), Numbers(queue[s], q),
                                Numbers(transit[q][s], q), published[q])
  BY DEF PInv, OnTheWay
<1>5. queue[s] \in Seq(Messages) /\ Rises(queue[s])
      /\ \A n \in Numbers(queue[s], new.from) : n < new.number
  BY <1>2, <1>3, <1>4 DEF PInv, Typed, Way, Before
<1>6. /\ Enqueue(queue[s], new, QueueDepth) \in Seq(Messages)
      /\ Rises(Enqueue(queue[s], new, QueueDepth))
      /\ \A q \in Publishers : Numbers(Enqueue(queue[s], new, QueueDepth), q) \subseteq
              Numbers(queue[s], q) \cup (IF q = p THEN {new.number} ELSE {})
  BY <1>2, <1>3, <1>5, PubSubAssumption, EnqueueMessage
<1>7. /\ queue' \in [Subscribers -> Seq(Messages)]
      /\ queue'[s] = Enqueue(queue[s], new, QueueDepth)
      /\ \A u \in Subscribers \ {s} : queue'[u] = queue[u]
  BY <1>1, <1>6 DEF PInv, Typed
<1>8. /\ transit' \in [Publishers -> [Subscribers -> Seq(Messages)]]
      /\ transit'[p][s] = Tail(transit[p][s])
      /\ \A q \in Publishers, u \in Subscribers : q # p \/ u # s => transit'[q][u] = transit[q][u]
  <2>1. /\ transit \in [Publishers -> [Subscribers -> Seq(Messages)]]
        /\ transit' = [transit EXCEPT ![p] = [transit[p] EXCEPT ![s] = Tail(transit[p][s])]]
    BY <1>1 DEF PInv, Typed
  <2>2. [transit[p] EXCEPT ![s] = Tail(transit[p][s])] \in [Subscribers -> Seq(Messages)]
    BY <1>2, <2>1
  <2>3. /\ transit' \in [Publishers -> [Subscribers -> Seq(Messages)]]
        /\ transit'[p] = [transit[p] EXCEPT ![s] = Tail(transit[p][s])]
        /\ \A q \in Publishers \ {p} : transit'[q] = transit[q]
    BY <2>1, <2>2
  <2>4. /\ transit'[p][s] = Tail(transit[p][s])
        /\ \A u \in Subscribers \ {s} : transit'[p][u] = transit[p][u]
    BY <2>1, <2>3
  <2> QED  BY <2>3, <2>4
<1>9. arrived' \in [Subscribers -> Seq(Messages)]
  BY <1>1, <1>2 DEF PInv, Typed
<1>10. ASSUME NEW q \in Publishers, NEW u \in Subscribers
       PROVE  InTransit(q, u)' /\ OnTheWay(q, u)'
  <2>1. InTransit(q, u) /\ OnTheWay(q, u)
    BY DEF PInv
  <2>2. CASE u # s
    <3>1. transit'[q][u] = transit[q][u]
      BY <1>8, <2>2
    <3> QED  BY <1>1, <1>7, <2>1, <2>2, <3>1 DEF InTransit, OnTheWay
  <2>3. CASE u = s /\ q # p
    <3>1. transit'[q][s] = transit[q][s]
      BY <1>8, <2>3
    <3>2. Numbers(queue'[s], q) \subseteq Numbers(queue[s], q)
      BY <1>6, <1>7, <2>3
    <3> QED  BY <1>1, <2>1, <2>3, <3>1, <3>2 DEF InTransit, OnTheWay, Way, Before
  <2>4. CASE u = s /\ q = p
    <3>1. Numbers(queue'[s], p) \subseteq Numbers(queue[s], p) \cup {new.number}
      BY <1>6, <1>7
    <3>2. InTransit(p, s)'
      BY <1>2, <1>3, <1>8 DEF InTransit
    <3>3. Way(Numbers(received[s], p), Numbers(queue'[s], p), Numbers(transit'[p][s], p), published[p])
      <4>1. /\ Numbers(transit'[p][s], p) \subseteq Numbers(transit[p][s], p)
            /\ new.number \in Numbers(transit[p][s], p)
            /\ \A n \in Numbers(transit'[p][s], p) : new.number < n
        BY <1>2, <1>3, <1>8
      <4>2. Way(Numbers(received[s], p), Numbers(queue[s], p), Numbers(transit[p][s], p), published[p])
        BY <1>4
      <4> QED  BY <3>1, <4>1, <4>2 DEF Way, Before
    <3> QED  BY <1>1, <2>4, <3>2, <3>3 DEF OnTheWay
  <2> QED  BY <2>2, <2>3, <2>4
<1>11. \A u \in Subscribers : Rises(received[u]) /\ Rises(queue'[u])
  BY <1>6, <1>7 DEF PInv
<1> QED  BY <1>1, <1>7, <1>8, <1>9, <1>10, <1>11 DEF PInv, Typed

(* A subscriber takes a message younger than all it has received from the    *)
(* publisher.                                                                *)
LEMMA TakeKeepsPInv ==
  ASSUME PInv, NEW s \in Subscribers, Take(s)
  PROVE  PInv'
<1> DEFINE new == Head(queue[s])
<1>1. /\ queue[s] # << >> /\ queue[s] \in Seq(Messages) /\ received[s] \in Seq(Messages)
      /\ Rises(queue[s]) /\ Rises(received[s])
      /\ received' = [received EXCEPT ![s] = Append(@, new)]
      /\ queue' = [queue EXCEPT ![s] = Tail(@)]
      /\ UNCHANGED <<published, transit, arrived>>
  BY DEF Take, PInv, Typed
<1>2. /\ Tail(queue[s]) \in Seq(Messages) /\ new \in Messages
      /\ Rises(Tail(queue[s]))
      /\ \A p \in Publishers : Numbers(Tail(queue[s]), p) \subseteq Numbers(queue[s], p)
      /\ new.number \in Numbers(queue[s], new.from)
      /\ \A n \in Numbers(Tail(queue[s]), new.from) : new.number < n
  BY <1>1, DequeueMessage
<1>3. new.from \in Publishers
  BY <1>2 DEF Messages
<1> HIDE DEF new
<1>4. \A p \in Publishers : Way(Numbers(received[s], p), Numbers(queue[s], p),
                                Numbers(transit[p][s], p), published[p])
  BY DEF PInv, OnTheWay
<1>5. \A n \in Numbers(received[s], new.from) : n < new.number
  BY <1>2, <1>3, <1>4 DEF Way, Before
<1>6. /\ Append(received[s], new) \in Seq(Messages) /\ Rises(Append(received[s], new))
      /\ \A p \in Publishers : Numbers(Append(received[s], new), p) \subseteq
           Numbers(received[s], p) \cup (IF p = new.from THEN {new.number} ELSE {})
  BY <1>1, <1>2, <1>5, AppendMessage
<1>7. /\ received' \in [Subscribers -> Seq(Messages)] /\ queue' \in [Subscribers -> Seq(Messages)]
      /\ received'[s] = Append(received[s], new) /\ queue'[s] = Tail(queue[s])
      /\ \A u \in Subscribers \ {s} : received'[u] = received[u] /\ queue'[u] = queue[u]
  BY <1>1, <1>2, <1>6 DEF PInv, Typed
<1>8. ASSUME NEW p \in Publishers, NEW u \in Subscribers
      PROVE  InTransit(p, u)' /\ OnTheWay(p, u)'
  <2>1. InTransit(p, u)' /\ OnTheWay(p, u)
    BY <1>1 DEF PInv, InTransit
  <2>2. CASE u # s
    BY <1>1, <1>7, <2>1, <2>2 DEF OnTheWay
  <2>3. CASE u = s
    <3>1. /\ Numbers(queue'[s], p) \subseteq Numbers(queue[s], p)
          /\ Numbers(received'[s], p) \subseteq
               Numbers(received[s], p) \cup (IF p = new.from THEN {new.number} ELSE {})
      BY <1>2, <1>6, <1>7
    <3>2. p = new.from => /\ new.number \in Numbers(queue[s], p)
                          /\ \A n \in Numbers(queue'[s], p) : new.number < n
      BY <1>2, <1>7
    <3>3. Way(Numbers(received'[s], p), Numbers(queue'[s], p), Numbers(transit[p][s], p), published[p])
      <4>1. Way(Numbers(received[s], p), Numbers(queue[s], p), Numbers(transit[p][s], p), published[p])
        BY <1>4
      <4>2. CASE p = new.from
        BY <3>1, <3>2, <4>1, <4>2 DEF Way, Before
      <4>3. CASE p # new.from
        BY <3>1, <4>1, <4>3 DEF Way, Before
      <4> QED  BY <4>2, <4>3
    <3> QED  BY <1>1, <2>1, <2>3, <3>3 DEF OnTheWay
  <2> QED  BY <2>2, <2>3
<1>9. \A u \in Subscribers : Rises(received'[u]) /\ Rises(queue'[u])
  BY <1>2, <1>6, <1>7 DEF PInv
<1> QED  BY <1>1, <1>7, <1>8, <1>9 DEF PInv, Typed

(* So messages are always on their way in order. *)
LEMMA WayOfMessages == Spec => []PInv
<1>1. Init => PInv
  <2> SUFFICES ASSUME Init PROVE PInv
    OBVIOUS
  <2>1. Typed
    BY PubSubAssumption DEF Init, Typed
  <2>2. \A s \in Subscribers : /\ Rises(received[s]) /\ Rises(queue[s])
                               /\ \A p \in Publishers : Numbers(received[s], p) = {} /\ Numbers(queue[s], p) = {}
    BY DEF Init, Rises, Numbers
  <2>3. \A p \in Publishers, s \in Subscribers : transit[p][s] = << >>
    BY DEF Init
  <2>4. \A p \in Publishers, s \in Subscribers : InTransit(p, s) /\ Numbers(transit[p][s], p) = {}
    BY <2>3 DEF InTransit, Rises, Numbers
  <2> QED  BY <2>1, <2>2, <2>4 DEF PInv, OnTheWay, Way, Before
<1>2. PInv /\ [Next]_vars => PInv'
  <2> SUFFICES ASSUME PInv, [Next]_vars PROVE PInv'
    OBVIOUS
  <2>1. CASE \E p \in Publishers : PublishLoop(p)
    BY <2>1, PublishKeepsPInv
  <2>2. CASE \E p \in Publishers, s \in Subscribers : Arrive(p, s)
    BY <2>2, ArriveKeepsPInv
  <2>3. CASE \E s \in Subscribers : Take(s)
    BY <2>3, TakeKeepsPInv
  <2>4. CASE (\E p \in Publishers, s \in Subscribers : Match(p, s)) \/ UNCHANGED vars
    <3>1. UNCHANGED <<published, transit, queue, arrived, received>>
      BY <2>4 DEF Match, vars
    <3> QED  BY <3>1 DEF PInv, Typed, InTransit, OnTheWay
  <2> QED  BY <2>1, <2>2, <2>3, <2>4 DEF Next
<1> QED  BY <1>1, <1>2, PTL DEF Spec

(* Each subscriber receives the messages of a publisher in the order of their  *)
(* publication, and none twice, whatever it misses and however the messages of *)
(* several publishers interleave.                                              *)
THEOREM MessagesInOrder == Spec => []ReceivedInOrder
<1>1. PInv => ReceivedInOrder
  BY DEF PInv, Rises, ReceivedInOrder
<1> QED  BY <1>1, WayOfMessages, PTL

-----------------------------------------------------------------------------
(* The queue is the end of what has arrived, and what was in it before, as far *)
(* as it is not older than the queue is deep, has been received.               *)
IsEnd(q, a) ==
  /\ Len(q) <= QueueDepth /\ Len(q) <= Len(a)
  /\ \A i \in 1 .. Len(q) : q[i] = a[Len(a) - Len(q) + i]

AllKept(a, r, q) ==
  \A i \in 1 .. Len(a) : i > Len(a) - QueueDepth => a[i] \in Elements(r) \cup Elements(q)

LInv == \A s \in Subscribers : IsEnd(queue[s], arrived[s]) /\ AllKept(arrived[s], received[s], queue[s])

(* After an arrival the queue still is the end of what has arrived, and      *)
(* keeps the latest.                                                         *)
LEMMA ArrivalKeepsEnd ==
  ASSUME NEW q \in Seq(Messages), NEW a \in Seq(Messages), NEW r, NEW new \in Messages,
         IsEnd(q, a), AllKept(a, r, q)
  PROVE  /\ IsEnd(Enqueue(q, new, QueueDepth), Append(a, new))
         /\ AllKept(Append(a, new), r, Enqueue(q, new, QueueDepth))
<1> DEFINE b == Append(a, new)
           p == Enqueue(q, new, QueueDepth)
<1>1. /\ b \in Seq(Messages) /\ Len(b) = Len(a) + 1 /\ b[Len(b)] = new
      /\ \A i \in 1 .. Len(a) : b[i] = a[i]
  OBVIOUS
<1>2. p \in Seq(Messages) /\ QueueDepth \in Nat \ {0}
  BY PubSubAssumption, EnqueueShifts
<1>3. PICK k \in {0, 1} :
        /\ Len(p) = Len(q) - k + 1
        /\ p[Len(p)] = new
        /\ \A i \in 1 .. Len(p) - 1 : p[i] = q[i + k]
        /\ k = 1 <=> Len(q) = QueueDepth
  <2>1. CASE Len(q) < QueueDepth
    <3>1. p = Append(q, new)
      BY <2>1 DEF Enqueue
    <3>2. /\ Len(p) = Len(q) - 0 + 1 /\ p[Len(p)] = new
          /\ \A i \in 1 .. Len(p) - 1 : p[i] = q[i + 0]
          /\ Len(q) # QueueDepth
      BY <1>2, <2>1, <3>1
    <3> HIDE DEF p
    <3> QED  BY <3>2
  <2>2. CASE ~(Len(q) < QueueDepth)
    <3>1. p = Append(Tail(q), new) /\ Len(q) = QueueDepth /\ Len(q) > 0
      BY <1>2, <2>2 DEF Enqueue, IsEnd
    <3>2. /\ Tail(q) \in Seq(Messages) /\ Len(Tail(q)) = Len(q) - 1
          /\ \A i \in 1 .. Len(q) - 1 : Tail(q)[i] = q[i + 1]
      BY <3>1
    <3> HIDE DEF p
    <3>3. /\ Len(p) = Len(q) - 1 + 1 /\ p[Len(p)] = new
          /\ \A i \in 1 .. Len(p) - 1 : p[i] = q[i + 1]
      BY <3>1, <3>2
    <3> QED  BY <3>1, <3>3
  <2> QED  BY <2>1, <2>2
<1> HIDE DEF b, p
<1>4. Len(q) \in Nat /\ Len(a) \in Nat /\ Len(q) <= Len(a) /\ Len(q) <= QueueDepth
  BY DEF IsEnd
<1>5. \A i \in 1 .. Len(p) - 1 : /\ i + k \in 1 .. Len(q) /\ p[i] = q[i + k]
                                 /\ Len(a) - Len(q) + i + k \in 1 .. Len(a)
                                 /\ p[i] = a[Len(a) - Len(q) + i + k]
  BY <1>2, <1>3, <1>4 DEF IsEnd
<1>6. IsEnd(p, b)
  <2>1. Len(p) <= QueueDepth /\ Len(p) <= Len(b)
    BY <1>1, <1>2, <1>3, <1>4
  <2>2. ASSUME NEW i \in 1 .. Len(p) PROVE p[i] = b[Len(b) - Len(p) + i]
    <3>1. CASE i = Len(p)
      BY <1>1, <1>2, <1>3, <3>1
    <3>2. CASE i \in 1 .. Len(p) - 1
      <4>1. Len(b) - Len(p) + i = Len(a) - Len(q) + i + k
        BY <1>1, <1>2, <1>3, <1>4
      <4> QED  BY <1>1, <1>5, <3>2, <4>1
    <3> QED  BY <1>2, <3>1, <3>2
  <2> QED  BY <2>1, <2>2 DEF IsEnd
<1>7. AllKept(b, r, p)
  <2> SUFFICES ASSUME NEW i \in 1 .. Len(b), i > Len(b) - QueueDepth
               PROVE  b[i] \in Elements(r) \cup Elements(p)
    BY DEF AllKept
  <2>1. CASE i = Len(b)
    <3>1. Len(p) \in 1 .. Len(p)
      BY <1>2, <1>3, <1>4
    <3> QED  BY <1>1, <1>3, <2>1, <3>1 DEF Elements
  <2>2. CASE i \in 1 .. Len(a)
    <3>1. b[i] = a[i] /\ i > Len(a) - QueueDepth
      BY <1>1, <1>2, <1>4, <2>2
    <3>2. a[i] \in Elements(r) \cup Elements(q)
      BY <2>2, <3>1 DEF AllKept
    <3>3. CASE a[i] \in Elements(r)
      BY <3>1, <3>3
    <3>4. CASE k = 0 /\ a[i] \in Elements(q)
      <4>1. PICK j \in 1 .. Len(q) : a[i] = q[j]
        BY <3>4 DEF Elements
      <4>2. j \in 1 .. Len(p) /\ j \in 1 .. Len(p) - 1 /\ p[j] = q[j]
        BY <1>2, <1>3, <1>4, <3>4
      <4> QED  BY <3>1, <4>1, <4>2 DEF Elements
    <3>5. CASE k = 1
      (* The queue was full: a[i] is not the displaced element.                *)
      <4> DEFINE j == i - (Len(a) - Len(q)) - 1
      <4>1. j \in 1 .. Len(p) - 1 /\ j \in 1 .. Len(p) /\ Len(a) - Len(q) + j + 1 = i
        BY <1>1, <1>2, <1>3, <1>4, <2>2, <3>5
      <4> HIDE DEF j
      <4>2. p[j] = a[i]
        BY <1>5, <3>5, <4>1
      <4> QED  BY <3>1, <4>1, <4>2 DEF Elements
    <3> QED  BY <3>2, <3>3, <3>4, <3>5
  <2> QED  BY <1>1, <1>4, <2>1, <2>2
<1> QED  BY <1>6, <1>7 DEF b, p

(* So it is after its head has been taken. *)
LEMMA TakingKeepsEnd ==
  ASSUME NEW q \in Seq(Messages), NEW a \in Seq(Messages), NEW r \in Seq(Messages), q # << >>,
         IsEnd(q, a), AllKept(a, r, q)
  PROVE  IsEnd(Tail(q), a) /\ AllKept(a, Append(r, Head(q)), Tail(q))
<1>1. /\ Tail(q) \in Seq(Messages) /\ Len(q) \in Nat /\ Len(q) > 0 /\ Len(Tail(q)) = Len(q) - 1
      /\ \A i \in 1 .. Len(q) - 1 : Tail(q)[i] = q[i + 1]
      /\ Head(q) = q[1] /\ Len(a) \in Nat /\ QueueDepth \in Nat
  BY PubSubAssumption
<1>2. IsEnd(Tail(q), a)
  BY <1>1 DEF IsEnd
<1>3. \A x \in Elements(q) : x = q[1] \/ x \in Elements(Tail(q))
  <2> SUFFICES ASSUME NEW i \in 1 .. Len(q) PROVE q[i] = q[1] \/ q[i] \in Elements(Tail(q))
    BY DEF Elements
  <2>1. CASE i = 1
    BY <2>1
  <2>2. CASE i # 1
    <3>1. i - 1 \in 1 .. Len(Tail(q)) /\ Tail(q)[i - 1] = q[i]
      BY <1>1, <2>2
    <3> QED  BY <3>1 DEF Elements
  <2> QED  BY <2>1, <2>2
<1>4. Elements(r) \cup {q[1]} \subseteq Elements(Append(r, q[1]))
  <2>1. /\ q[1] \in Messages /\ Len(Append(r, q[1])) = Len(r) + 1
        /\ Append(r, q[1])[Len(r) + 1] = q[1]
        /\ \A i \in 1 .. Len(r) : Append(r, q[1])[i] = r[i]
    BY <1>1
  <2> DEFINE t == Append(r, q[1])
  <2>2. Len(r) \in Nat /\ Len(t) = Len(r) + 1 /\ t[Len(r) + 1] = q[1] /\ \A i \in 1 .. Len(r) : t[i] = r[i]
    BY <2>1
  <2> HIDE DEF t
  <2>3. Elements(r) \cup {q[1]} \subseteq Elements(t)
    BY <2>2 DEF Elements
  <2> QED  BY <2>3 DEF t
<1>5. AllKept(a, Append(r, Head(q)), Tail(q))
  BY <1>1, <1>3, <1>4 DEF AllKept
<1> QED  BY <1>2, <1>5

(* So a queue always is the end of what has arrived. *)
LEMMA EndOfArrivals == Spec => []LInv
<1>1. Init => LInv
  BY PubSubAssumption DEF Init, LInv, IsEnd, AllKept
<1>2. PInv /\ LInv /\ [Next]_vars => LInv'
  <2> SUFFICES ASSUME PInv, LInv, [Next]_vars PROVE LInv'
    OBVIOUS
  <2>1. ASSUME NEW p \in Publishers, NEW s \in Subscribers, Arrive(p, s) PROVE LInv'
    <3>1. /\ transit[p][s] # << >> /\ transit[p][s] \in Seq(Messages)
          /\ queue[s] \in Seq(Messages) /\ arrived[s] \in Seq(Messages)
          /\ queue' = [queue EXCEPT ![s] = Enqueue(@, Head(transit[p][s]), QueueDepth)]
          /\ arrived' = [arrived EXCEPT ![s] = Append(@, Head(transit[p][s]))]
          /\ queue \in [Subscribers -> Seq(Messages)] /\ arrived \in [Subscribers -> Seq(Messages)]
          /\ received' = received
      BY <2>1 DEF Arrive, PInv, Typed
    <3>2. Head(transit[p][s]) \in Messages
      BY <3>1
    <3>3. /\ queue'[s] = Enqueue(queue[s], Head(transit[p][s]), QueueDepth)
          /\ arrived'[s] = Append(arrived[s], Head(transit[p][s]))
          /\ \A u \in Subscribers \ {s} : queue'[u] = queue[u] /\ arrived'[u] = arrived[u]
      BY <3>1
    <3>4. IsEnd(queue'[s], arrived'[s]) /\ AllKept(arrived'[s], received[s], queue'[s])
      BY <3>1, <3>2, <3>3, ArrivalKeepsEnd DEF LInv
    <3> QED  BY <3>1, <3>3, <3>4 DEF LInv
  <2>2. ASSUME NEW s \in Subscribers, Take(s) PROVE LInv'
    <3>1. /\ queue[s] # << >> /\ queue[s] \in Seq(Messages) /\ arrived[s] \in Seq(Messages)
          /\ received[s] \in Seq(Messages)
          /\ received' = [received EXCEPT ![s] = Append(@, Head(queue[s]))]
          /\ queue' = [queue EXCEPT ![s] = Tail(@)]
          /\ queue \in [Subscribers -> Seq(Messages)] /\ received \in [Subscribers -> Seq(Messages)]
          /\ arrived' = arrived
      BY <2>2 DEF Take, PInv, Typed
    <3>2. /\ queue'[s] = Tail(queue[s]) /\ received'[s] = Append(received[s], Head(queue[s]))
          /\ \A u \in Subscribers \ {s} : queue'[u] = queue[u] /\ received'[u] = received[u]
      BY <3>1
    <3>3. IsEnd(queue'[s], arrived[s]) /\ AllKept(arrived[s], received'[s], queue'[s])
      BY <3>1, <3>2, TakingKeepsEnd DEF LInv
    <3> QED  BY <3>1, <3>2, <3>3 DEF LInv
  <2>3. CASE UNCHANGED <<queue, arrived, received>>
    BY <2>3 DEF LInv
  <2>4. \/ \E p \in Publishers, s \in Subscribers : Arrive(p, s)
        \/ \E s \in Subscribers : Take(s)
        \/ UNCHANGED <<queue, arrived, received>>
    BY DEF Next, Match, PublishLoop, vars
  <2> QED  BY <2>1, <2>2, <2>3, <2>4
<1> QED  BY <1>1, <1>2, WayOfMessages, PTL DEF Spec

(* Of the messages that reached a subscription, those that as many later ones  *)
(* have not followed as its queue is deep are received, or still to be taken.  *)
THEOREM LatestKept == Spec => []OnlyOldMessagesLost
<1>1. LInv => OnlyOldMessagesLost
  BY DEF LInv, AllKept, OnlyOldMessagesLost
<1> QED  BY <1>1, EndOfArrivals, PTL
================================================================================
