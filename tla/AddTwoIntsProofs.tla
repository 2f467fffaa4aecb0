---------------------------- MODULE AddTwoIntsProofs ----------------------------
(***************************************************************************)
(* The order of requests and responses, for every number of clients,       *)
(* requests and restarts, every depth of the queues, and clients of both   *)
(* versions, of which the earlier ones hear each answer in its own call.   *)
(***************************************************************************)
EXTENDS OldAddTwoInts, KeepLastProofs, FiniteSetTheorems, SequenceTheorems, TLAPS

Sums == {Sum(a, b) : a \in Operands, b \in Operands}
Responses == [number : Nat, sum : Sums]

(* The numbers of a client's requests in a queue, and of its responses.      *)
Asking(q, c) == {q[i].number : i \in {j \in 1 .. Len(q) : q[j].client = c}}
Answering(s) == {s[i].number : i \in 1 .. Len(s)}

RequestsRise(q) ==
  \A i, j \in 1 .. Len(q) : i < j /\ q[i].client = q[j].client => q[i].number < q[j].number
Rising(s) == \A i, j \in 1 .. Len(s) : i < j => s[i].number < s[j].number

(* A new request, younger than all of its client's, keeps the queue in       *)
(* order; one it displaces is gone.                                          *)
LEMMA EnqueueRequest ==
  ASSUME NEW q \in Seq(Requests), NEW new \in Requests, NEW depth \in Nat \ {0},
         RequestsRise(q), \A n \in Asking(q, new.client) : n < new.number
  PROVE  LET r == Enqueue(q, new, depth) IN
         /\ r \in Seq(Requests)
         /\ RequestsRise(r)
         /\ \A c \in Clients : Asking(r, c) \subseteq
              Asking(q, c) \cup (IF c = new.client THEN {new.number} ELSE {})
         /\ \A x \in Displaced(q, depth) :
              /\ x \in Requests
              /\ x.number \in Asking(q, x.client) /\ x.number \notin Asking(r, x.client)
<1> DEFINE r == Enqueue(q, new, depth)
<1>1. r \in Seq(Requests)
  BY EnqueueShifts
<1>2. PICK k \in {0, 1} :
        /\ Len(r) = Len(q) - k + 1
        /\ r[Len(r)] = new
        /\ \A i \in 1 .. Len(r) - 1 : r[i] = q[i + k]
        /\ Displaced(q, depth) = IF k = 0 THEN {} ELSE {q[1]}
        /\ k = 1 => Len(q) > 0
  BY EnqueueShifts
<1> HIDE DEF r
<1>3. \A i \in 1 .. Len(r) - 1 : i + k \in 1 .. Len(q) /\ r[i] = q[i + k]
  BY <1>1, <1>2
<1>4. \A i \in 1 .. Len(q) : q[i] \in Requests /\ q[i].number \in Asking(q, q[i].client)
  BY DEF Asking
<1>5. new.number \in Nat /\ \A i \in 1 .. Len(q) : q[i].number \in Nat
  BY <1>4 DEF Requests
<1>6. RequestsRise(r)
  <2> SUFFICES ASSUME NEW i \in 1 .. Len(r), NEW j \in 1 .. Len(r),
                      i < j, r[i].client = r[j].client
               PROVE  r[i].number < r[j].number
    BY DEF RequestsRise
  <2>1. i \in 1 .. Len(r) - 1
    BY <1>1
  <2>2. CASE j = Len(r)
    BY <1>2, <1>3, <1>4, <2>1, <2>2
  <2>3. CASE j \in 1 .. Len(r) - 1
    <3>1. /\ i + k \in 1 .. Len(q) /\ j + k \in 1 .. Len(q)
          /\ r[i] = q[i + k] /\ r[j] = q[j + k]
      BY <1>3, <2>1, <2>3
    <3>2. i + k < j + k
      BY <2>1, <2>3
    <3>3. q[i + k].client = q[j + k].client
      BY <3>1
    <3> QED  BY <3>1, <3>2, <3>3 DEF RequestsRise
  <2> QED  BY <1>1, <2>2, <2>3
<1>7. ASSUME NEW c \in Clients, NEW n \in Asking(r, c)
      PROVE  n \in Asking(q, c) \/ (c = new.client /\ n = new.number)
  <2>1. PICK i \in 1 .. Len(r) : r[i].client = c /\ r[i].number = n
    BY <1>7 DEF Asking
  <2>2. CASE i = Len(r)
    BY <1>2, <2>1, <2>2
  <2>3. CASE i \in 1 .. Len(r) - 1
    BY <1>3, <1>4, <2>1, <2>3
  <2> QED  BY <1>1, <2>2, <2>3
<1>8. ASSUME NEW x \in Displaced(q, depth)
      PROVE  /\ x \in Requests
             /\ x.number \in Asking(q, x.client) /\ x.number \notin Asking(r, x.client)
  <2>1. k = 1 /\ x = q[1] /\ Len(q) > 0 /\ 1 \in 1 .. Len(q)
    BY <1>2
  <2>2. ASSUME NEW i \in 1 .. Len(r), r[i].client = x.client PROVE x.number < r[i].number
    <3>1. CASE i = Len(r)
      BY <1>2, <1>4, <2>1, <2>2, <3>1
    <3>2. CASE i \in 1 .. Len(r) - 1
      <4>1. i + 1 \in 1 .. Len(q) /\ r[i] = q[i + 1] /\ 1 < i + 1
        BY <1>3, <2>1, <3>2
      <4> QED  BY <2>1, <2>2, <4>1 DEF RequestsRise
    <3> QED  BY <1>1, <3>1, <3>2
  <2>3. x \in Requests /\ x.number \in Nat /\ x.number \in Asking(q, x.client)
    BY <1>4, <1>5, <2>1
  <2> QED  BY <2>2, <2>3 DEF Asking
<1>9. \A c \in Clients : Asking(r, c) \subseteq
        Asking(q, c) \cup (IF c = new.client THEN {new.number} ELSE {})
  BY <1>7
<1> QED  BY <1>1, <1>6, <1>8, <1>9 DEF r

(* The head of an ordered queue is the oldest of its client's requests. *)
LEMMA DequeueRequest ==
  ASSUME NEW q \in Seq(Requests), q # << >>, RequestsRise(q)
  PROVE  /\ Tail(q) \in Seq(Requests) /\ Head(q) \in Requests
         /\ RequestsRise(Tail(q))
         /\ \A c \in Clients : Asking(Tail(q), c) \subseteq Asking(q, c)
         /\ Head(q).number \in Asking(q, Head(q).client)
         /\ \A n \in Asking(Tail(q), Head(q).client) : Head(q).number < n
<1>1. /\ Tail(q) \in Seq(Requests) /\ Len(q) > 0 /\ Len(Tail(q)) = Len(q) - 1
      /\ \A i \in 1 .. Len(Tail(q)) : i + 1 \in 1 .. Len(q) /\ Tail(q)[i] = q[i + 1]
      /\ Head(q) = q[1] /\ 1 \in 1 .. Len(q) /\ q[1] \in Requests
  OBVIOUS
<1>2. RequestsRise(Tail(q))
  BY <1>1 DEF RequestsRise
<1>3. \A c \in Clients : Asking(Tail(q), c) \subseteq Asking(q, c)
  BY <1>1 DEF Asking
<1>4. Head(q).number \in Asking(q, Head(q).client)
  BY <1>1 DEF Asking
<1>5. \A i \in 1 .. Len(Tail(q)) : Tail(q)[i].client = Head(q).client
                                     => Head(q).number < Tail(q)[i].number
  BY <1>1 DEF RequestsRise
<1>6. \A n \in Asking(Tail(q), Head(q).client) : Head(q).number < n
  BY <1>5 DEF Asking
<1> QED  BY <1>1, <1>2, <1>3, <1>4, <1>6

(* The same for the responses of one client.                                 *)
LEMMA EnqueueResponse ==
  ASSUME NEW q \in Seq(Responses), NEW new \in Responses, NEW depth \in Nat \ {0},
         Rising(q), \A n \in Answering(q) : n < new.number
  PROVE  LET r == Enqueue(q, new, depth) IN
         /\ r \in Seq(Responses)
         /\ Rising(r)
         /\ Answering(r) \subseteq Answering(q) \cup {new.number}
         /\ \A x \in Displaced(q, depth) :
              x.number \in Answering(q) /\ x.number \notin Answering(r)
<1> DEFINE r == Enqueue(q, new, depth)
<1>1. r \in Seq(Responses)
  BY EnqueueShifts
<1>2. PICK k \in {0, 1} :
        /\ Len(r) = Len(q) - k + 1
        /\ r[Len(r)] = new
        /\ \A i \in 1 .. Len(r) - 1 : r[i] = q[i + k]
        /\ Displaced(q, depth) = IF k = 0 THEN {} ELSE {q[1]}
        /\ k = 1 => Len(q) > 0
  BY EnqueueShifts
<1> HIDE DEF r
<1>3. \A i \in 1 .. Len(r) - 1 : i + k \in 1 .. Len(q) /\ r[i] = q[i + k]
  BY <1>1, <1>2
<1>4. /\ \A i \in 1 .. Len(q) : q[i].number \in Nat /\ q[i].number \in Answering(q)
      /\ new.number \in Nat
  <2>1. \A x \in Responses : x.number \in Nat
    BY DEF Responses
  <2>2. \A i \in 1 .. Len(q) : q[i] \in Responses
    OBVIOUS
  <2> QED  BY <2>1, <2>2 DEF Answering
<1>5. Rising(r)
  <2> SUFFICES ASSUME NEW i \in 1 .. Len(r), NEW j \in 1 .. Len(r), i < j
               PROVE  r[i].number < r[j].number
    BY DEF Rising
  <2>1. i \in 1 .. Len(r) - 1
    BY <1>1
  <2>2. CASE j = Len(r)
    BY <1>2, <1>3, <1>4, <2>1, <2>2
  <2>3. CASE j \in 1 .. Len(r) - 1
    BY <1>3, <2>1, <2>3 DEF Rising
  <2> QED  BY <1>1, <2>2, <2>3
<1>6. Answering(r) \subseteq Answering(q) \cup {new.number}
  <2> SUFFICES ASSUME NEW i \in 1 .. Len(r)
               PROVE  r[i].number \in Answering(q) \cup {new.number}
    BY DEF Answering
  <2>1. CASE i = Len(r)
    BY <1>2, <2>1
  <2>2. CASE i \in 1 .. Len(r) - 1
    BY <1>3, <1>4, <2>2
  <2> QED  BY <1>1, <2>1, <2>2
<1>7. ASSUME NEW x \in Displaced(q, depth)
      PROVE  x.number \in Answering(q) /\ x.number \notin Answering(r)
  <2>1. k = 1 /\ x = q[1] /\ Len(q) > 0 /\ 1 \in 1 .. Len(q)
    BY <1>2
  <2>2. ASSUME NEW i \in 1 .. Len(r) PROVE x.number < r[i].number
    <3>1. CASE i = Len(r)
      BY <1>2, <1>4, <2>1, <3>1
    <3>2. CASE i \in 1 .. Len(r) - 1
      <4>1. i + 1 \in 1 .. Len(q) /\ r[i] = q[i + 1] /\ 1 < i + 1
        BY <1>3, <2>1, <3>2
      <4> QED  BY <2>1, <4>1 DEF Rising
    <3> QED  BY <1>1, <3>1, <3>2
  <2>3. x.number \in Nat /\ x.number \in Answering(q)
    BY <1>4, <2>1
  <2> QED  BY <2>2, <2>3 DEF Answering
<1> QED  BY <1>1, <1>5, <1>6, <1>7 DEF r

(* The same of a queue of responses, all of one client. *)
LEMMA DequeueResponse ==
  ASSUME NEW q \in Seq(Responses), q # << >>, Rising(q)
  PROVE  /\ Tail(q) \in Seq(Responses) /\ Head(q) \in Responses
         /\ Rising(Tail(q))
         /\ Answering(Tail(q)) \subseteq Answering(q)
         /\ Head(q).number \in Answering(q)
         /\ \A n \in Answering(Tail(q)) : Head(q).number < n
<1>1. /\ Tail(q) \in Seq(Responses) /\ Len(q) > 0 /\ Len(Tail(q)) = Len(q) - 1
      /\ \A i \in 1 .. Len(Tail(q)) : i + 1 \in 1 .. Len(q) /\ Tail(q)[i] = q[i + 1]
      /\ Head(q) = q[1] /\ 1 \in 1 .. Len(q) /\ q[1] \in Responses
  OBVIOUS
<1>2. Rising(Tail(q))
  BY <1>1 DEF Rising
<1>3. Answering(Tail(q)) \subseteq Answering(q) /\ Head(q).number \in Answering(q)
  BY <1>1 DEF Answering
<1>4. \A i \in 1 .. Len(Tail(q)) : Head(q).number < Tail(q)[i].number
  BY <1>1 DEF Rising
<1>5. \A n \in Answering(Tail(q)) : Head(q).number < n
  BY <1>4 DEF Answering
<1> QED  BY <1>1, <1>2, <1>3, <1>5

(* A response younger than all before it keeps them in order. *)
LEMMA AppendResponse ==
  ASSUME NEW s \in Seq(Responses), NEW new \in Responses,
         Rising(s), \A n \in Answering(s) : n < new.number
  PROVE  /\ Append(s, new) \in Seq(Responses)
         /\ Rising(Append(s, new))
         /\ Answering(Append(s, new)) \subseteq Answering(s) \cup {new.number}
<1> DEFINE r == Append(s, new)
<1>1. /\ r \in Seq(Responses) /\ Len(r) = Len(s) + 1 /\ r[Len(r)] = new
      /\ \A i \in 1 .. Len(s) : r[i] = s[i] /\ s[i].number \in Answering(s)
  BY DEF Answering
<1> HIDE DEF r
<1>2. Rising(r)
  <2> SUFFICES ASSUME NEW i \in 1 .. Len(r), NEW j \in 1 .. Len(r), i < j
               PROVE  r[i].number < r[j].number
    BY DEF Rising
  <2>1. CASE j = Len(r)
    BY <1>1, <2>1
  <2>2. CASE j # Len(r)
    BY <1>1, <2>2 DEF Rising
  <2> QED  BY <2>1, <2>2
<1>3. Answering(r) \subseteq Answering(s) \cup {new.number}
  BY <1>1 DEF Answering
<1> QED  BY <1>1, <1>2, <1>3 DEF r

-----------------------------------------------------------------------------
(* The way of a client's requests, from the end to the beginning: heard, in    *)
(* the response queue, in the callback, in the queue of the service.  Their    *)
(* numbers rise along it, and the lost ones are nowhere on it.                 *)
InCallback(c) == {r.number : r \in {x \in {current} \ {None} : x.client = c}}
Lost(l, c) == {id[2] : id \in {x \in l : x[1] = c}}
Sent(c) == 1 .. Len(asked[c])

Before(A, B) == \A m \in A, n \in B : m < n

Typed ==
  /\ asked \in [Clients -> Seq(Questions)]
  /\ inbox \in Seq(Requests)
  /\ current \in Requests \cup {None}
  /\ outbox \in [Clients -> Seq(Responses)]
  /\ heard \in [Clients -> Seq(Responses)]
  /\ lost \subseteq Clients \X Nat

(* What can be said of the way of one client: H heard, O in the response       *)
(* queue, C in the callback, I in the service's queue, L lost, of S sent.      *)
Way(H, O, C, I, L, S) ==
  /\ H \cup O \cup C \cup I \cup L \subseteq S
  /\ Before(H, O) /\ Before(H, C) /\ Before(H, I)
  /\ Before(O, C) /\ Before(O, I) /\ Before(C, I)
  /\ L \cap (H \cup O \cup C \cup I) = {}

OnTheWay ==
  \A c \in Clients :
    Way(Answering(heard[c]), Answering(outbox[c]), InCallback(c), Asking(inbox, c), Lost(lost, c), Sent(c))

WInv ==
  /\ Typed
  /\ RequestsRise(inbox)
  /\ \A c \in Clients : Rising(heard[c]) /\ Rising(outbox[c])
  /\ OnTheWay

(* What is assumed of the constants, in the form the proofs use. *)
LEMMA ServiceFacts ==
  /\ ServiceDepth \in Nat \ {0} /\ ClientDepth \in Nat \ {0} /\ None \notin Requests
  /\ \A q \in Questions : q[1] \in Operands /\ q[2] \in Operands
BY AddTwoIntsAssumption

(* The numbers that a client has lost are those of its requests that are     *)
(* lost.                                                                     *)
LEMMA LostIds ==
  ASSUME NEW l \in SUBSET (Clients \X Nat), NEW c, NEW n
  PROVE  n \in Lost(l, c) <=> <<c, n>> \in l
BY DEF Lost

(* A request that is sent is lost, or displaces another, or queues behind    *)
(* older ones.                                                               *)
LEMMA RequestKeepsWInv ==
  ASSUME WInv, NEW c \in Clients, NEW question \in Questions, Request(c, question)
  PROVE  WInv'
<1> DEFINE new == [client |-> c, number |-> Len(asked[c]) + 1, a |-> question[1], b |-> question[2]]
<1>1. /\ asked' = [asked EXCEPT ![c] = Append(@, question)]
      /\ asked' \in [Clients -> Seq(Questions)]
      /\ Len(asked'[c]) = Len(asked[c]) + 1 /\ Len(asked[c]) \in Nat
      /\ \A d \in Clients \ {c} : asked'[d] = asked[d]
  BY DEF Request, WInv, Typed
<1>2. new \in Requests
  BY <1>1, ServiceFacts DEF Requests
<1>3. UNCHANGED <<current, outbox, heard>>
  BY DEF Request, service
<1>4. \A d \in Clients : /\ Sent(d) \subseteq Sent(d)'
                         /\ \A n \in Sent(d) : n \in Nat /\ n <= Len(asked[d])
  BY <1>1 DEF Sent, WInv, Typed
<1>5. /\ new.number \in Sent(c)' /\ new.number \in Nat /\ new.client = c
      /\ \A n \in Sent(c) : n < new.number
  BY <1>1 DEF Sent
<1>6. \A d \in Clients : InCallback(d)' = InCallback(d)
  BY <1>3 DEF InCallback
<1> HIDE DEF new
<1>7. CASE /\ inbox' = Enqueue(inbox, new, ServiceDepth)
           /\ lost' = lost \cup Ids(Displaced(inbox, ServiceDepth))
  <2>1. /\ inbox \in Seq(Requests) /\ RequestsRise(inbox)
        /\ \A n \in Asking(inbox, new.client) : n < new.number
    BY <1>5 DEF WInv, Typed, OnTheWay, Way
  <2>2. /\ inbox' \in Seq(Requests) /\ RequestsRise(inbox')
        /\ \A d \in Clients : Asking(inbox', d) \subseteq
              Asking(inbox, d) \cup (IF d = c THEN {new.number} ELSE {})
        /\ \A x \in Displaced(inbox, ServiceDepth) :
             /\ x \in Requests
             /\ x.number \in Asking(inbox, x.client) /\ x.number \notin Asking(inbox', x.client)
    BY <1>2, <1>5, <1>7, <2>1, ServiceFacts, EnqueueRequest
  <2>3. /\ lost' \subseteq Clients \X Nat
        /\ \A d \in Clients : \A n \in Lost(lost', d) :
             n \in Lost(lost, d) \/ (n \in Asking(inbox, d) /\ n \notin Asking(inbox', d))
    <3>1. \A x \in Displaced(inbox, ServiceDepth) : x.client \in Clients /\ x.number \in Nat
      BY <2>2 DEF Requests
    <3>2. Ids(Displaced(inbox, ServiceDepth)) \subseteq Clients \X Nat
      BY <3>1 DEF Ids
    <3>3. ASSUME NEW d \in Clients, NEW n, <<d, n>> \in lost'
          PROVE  <<d, n>> \in lost \/ (n \in Asking(inbox, d) /\ n \notin Asking(inbox', d))
      BY <1>7, <2>2, <3>3 DEF Ids
    <3>4. lost' \subseteq Clients \X Nat
      BY <1>7, <3>2 DEF WInv, Typed
    <3> QED  BY <3>3, <3>4, LostIds DEF WInv, Typed
  <2>4. OnTheWay'
    <3> SUFFICES ASSUME NEW d \in Clients
                 PROVE  Way(Answering(heard[d]), Answering(outbox[d]), InCallback(d),
                            Asking(inbox', d), Lost(lost', d), Sent(d)')
      BY <1>3, <1>6 DEF OnTheWay
    <3>1. Way(Answering(heard[d]), Answering(outbox[d]), InCallback(d), Asking(inbox, d), Lost(lost, d), Sent(d))
      BY DEF WInv, OnTheWay
    <3>2. CASE d = c
      BY <1>4, <1>5, <2>2, <2>3, <3>1, <3>2 DEF Way, Before
    <3>3. CASE d # c
      BY <1>4, <2>2, <2>3, <3>1, <3>3 DEF Way, Before
    <3> QED  BY <3>2, <3>3
  <2> QED  BY <1>1, <1>3, <2>2, <2>3, <2>4 DEF WInv, Typed
<1>8. CASE inbox' = inbox /\ lost' = lost \cup Ids({new})
  <2>1. Ids({new}) = {<<c, new.number>>}
    BY <1>5 DEF Ids
  <2>2. /\ lost' \subseteq Clients \X Nat
        /\ \A d \in Clients : Lost(lost', d) \subseteq Lost(lost, d) \cup (IF d = c THEN {new.number} ELSE {})
    <3> DEFINE m == new.number
    <3>1. m \in Nat /\ <<c, m>> \in Clients \X Nat
      BY <1>5
    <3>2. lost' = lost \cup {<<c, m>>} /\ lost \subseteq Clients \X Nat
      BY <1>8, <2>1 DEF WInv, Typed
    <3> HIDE DEF m
    <3>3. lost' \subseteq Clients \X Nat
      BY <3>1, <3>2
    <3>4. ASSUME NEW d \in Clients, NEW n \in Lost(lost', d)
          PROVE  <<d, n>> \in lost \/ (d = c /\ n = m)
      <4>1. <<d, n>> \in lost'
        BY <3>3, LostIds
      <4>2. <<d, n>> \in lost \/ <<d, n>> = <<c, m>>
        BY <3>2, <4>1
      <4> QED  BY <4>2
    <3>5. \A d \in Clients : \A n \in Lost(lost', d) : n \in Lost(lost, d) \/ (d = c /\ n = m)
      BY <3>2, <3>4, LostIds
    <3> QED  BY <3>3, <3>5 DEF m
  <2>3. OnTheWay'
    <3> SUFFICES ASSUME NEW d \in Clients
                 PROVE  Way(Answering(heard[d]), Answering(outbox[d]), InCallback(d),
                            Asking(inbox, d), Lost(lost', d), Sent(d)')
      BY <1>3, <1>6, <1>8 DEF OnTheWay
    <3>1. Way(Answering(heard[d]), Answering(outbox[d]), InCallback(d), Asking(inbox, d), Lost(lost, d), Sent(d))
      BY DEF WInv, OnTheWay
    <3>2. CASE d = c
      BY <1>4, <1>5, <2>2, <3>1, <3>2 DEF Way
    <3>3. CASE d # c
      BY <1>4, <2>2, <3>1, <3>3 DEF Way
    <3> QED  BY <3>2, <3>3
  <2> QED  BY <1>1, <1>3, <1>8, <2>2, <2>3 DEF WInv, Typed
<1> QED
  <2>1. Len(asked'[c]) = Len(asked[c]) + 1
    BY <1>1
  <2> QED  BY <1>7, <1>8, <2>1 DEF Request, new

(* The service takes the oldest request, which is then nowhere else. *)
LEMMA TakeRequestKeepsWInv ==
  ASSUME WInv, TakeRequest
  PROVE  WInv'
<1>1. /\ current = None /\ inbox # << >>
      /\ current' = Head(inbox) /\ inbox' = Tail(inbox)
      /\ UNCHANGED <<asked, outbox, heard, lost>>
  BY DEF TakeRequest
<1>2. /\ inbox' \in Seq(Requests) /\ current' \in Requests /\ RequestsRise(inbox')
      /\ \A c \in Clients : Asking(inbox', c) \subseteq Asking(inbox, c)
      /\ current'.number \in Asking(inbox, current'.client)
      /\ \A n \in Asking(inbox', current'.client) : current'.number < n
  BY <1>1, DequeueRequest DEF WInv, Typed
<1>3. current' # None
  BY <1>2, ServiceFacts
<1>4. OnTheWay'
  <2> SUFFICES ASSUME NEW d \in Clients
               PROVE  Way(Answering(heard[d]), Answering(outbox[d]), InCallback(d)',
                          Asking(inbox', d), Lost(lost, d), Sent(d))
    BY <1>1 DEF OnTheWay, Sent
  <2>1. Way(Answering(heard[d]), Answering(outbox[d]), InCallback(d), Asking(inbox, d), Lost(lost, d), Sent(d))
    BY DEF WInv, OnTheWay
  <2>2. InCallback(d)' = IF d = current'.client THEN {current'.number} ELSE {}
    BY <1>3 DEF InCallback
  <2>3. CASE d = current'.client
    BY <1>2, <2>1, <2>2, <2>3 DEF Way, Before
  <2>4. CASE d # current'.client
    BY <1>2, <2>1, <2>2, <2>4 DEF Way, Before
  <2> QED  BY <2>3, <2>4
<1> QED  BY <1>1, <1>2, <1>4 DEF WInv, Typed

(* A response joins its client's queue behind older ones, is lost, or        *)
(* displaces one.                                                            *)
LEMMA SendResponseKeepsWInv ==
  ASSUME WInv, SendResponse
  PROVE  WInv'
<1> DEFINE c == current.client
           m == current.number
           response == [number |-> m, sum |-> Sum(current.a, current.b)]
<1>1. /\ current # None /\ current \in Requests /\ c \in Clients /\ m \in Nat
      /\ current' = None /\ UNCHANGED <<asked, inbox, heard>>
  BY DEF SendResponse, WInv, Typed, Requests
<1>2. response \in Responses /\ response.number = m
  BY <1>1 DEF Responses, Sums, Requests
<1>3. \A d \in Clients : InCallback(d) = IF d = c THEN {m} ELSE {}
  BY <1>1 DEF InCallback
<1>4. \A d \in Clients : InCallback(d)' = {}
  BY <1>1 DEF InCallback
<1>5. \A d \in Clients : Way(Answering(heard[d]), Answering(outbox[d]), InCallback(d),
                             Asking(inbox, d), Lost(lost, d), Sent(d))
  BY DEF WInv, OnTheWay
<1>6. \A d \in Clients : \A n \in Sent(d) : n \in Nat
  BY DEF Sent
<1>7. lost \in SUBSET (Clients \X Nat) /\ outbox \in [Clients -> Seq(Responses)]
  BY DEF WInv, Typed
<1>8. \/ /\ outbox' = [outbox EXCEPT ![c] = Enqueue(@, response, ClientDepth)]
         /\ lost' = lost \cup {<<c, r.number>> : r \in Displaced(outbox[c], ClientDepth)}
      \/ outbox' = outbox /\ lost' = lost \cup Ids({current})
  BY DEF SendResponse
<1> HIDE DEF c, m, response
<1>9. CASE /\ outbox' = [outbox EXCEPT ![c] = Enqueue(@, response, ClientDepth)]
           /\ lost' = lost \cup {<<c, r.number>> : r \in Displaced(outbox[c], ClientDepth)}
  <2>1. outbox[c] \in Seq(Responses) /\ Rising(outbox[c]) /\ \A n \in Answering(outbox[c]) : n < m
    BY <1>1, <1>3, <1>5, <1>7 DEF WInv, Way, Before
  <2> DEFINE q == Enqueue(outbox[c], response, ClientDepth)
  <2>2. /\ q \in Seq(Responses) /\ Rising(q)
        /\ Answering(q) \subseteq Answering(outbox[c]) \cup {m}
        /\ \A x \in Displaced(outbox[c], ClientDepth) :
             x.number \in Answering(outbox[c]) /\ x.number \notin Answering(q)
    BY <1>2, <2>1, ServiceFacts, EnqueueResponse
  <2>3. /\ outbox' \in [Clients -> Seq(Responses)] /\ outbox'[c] = q
        /\ \A d \in Clients \ {c} : outbox'[d] = outbox[d]
    BY <1>1, <1>7, <1>9, <2>2
  <2> HIDE DEF q
  <2>4. ASSUME NEW x \in Displaced(outbox[c], ClientDepth) PROVE x.number \in Nat
    <3>1. x.number \in Sent(c)
      BY <1>1, <1>5, <2>2 DEF Way
    <3> QED  BY <1>1, <1>6, <3>1
  <2>5. lost' \in SUBSET (Clients \X Nat)
    BY <1>1, <1>7, <1>9, <2>4
  <2>6. ASSUME NEW d \in Clients, NEW n \in Lost(lost', d)
        PROVE  n \in Lost(lost, d) \/ (d = c /\ n \in Answering(outbox[c]) /\ n \notin Answering(q))
    <3>1. <<d, n>> \in lost'
      BY <2>5, LostIds
    <3>2. CASE <<d, n>> \in lost
      BY <1>7, <3>2, LostIds
    <3>3. CASE <<d, n>> \notin lost
      <4>1. PICK x \in Displaced(outbox[c], ClientDepth) : <<d, n>> = <<c, x.number>>
        BY <1>9, <3>1, <3>3
      <4> QED  BY <2>2, <4>1
    <3> QED  BY <3>2, <3>3
  <2>7. OnTheWay'
    <3> SUFFICES ASSUME NEW d \in Clients
                 PROVE  Way(Answering(heard[d]), Answering(outbox'[d]), {},
                            Asking(inbox, d), Lost(lost', d), Sent(d))
      BY <1>1, <1>4 DEF OnTheWay, Sent
    <3>1. Way(Answering(heard[d]), Answering(outbox[d]), InCallback(d), Asking(inbox, d), Lost(lost, d), Sent(d))
      BY <1>5
    <3>2. CASE d # c
      BY <1>3, <2>3, <2>6, <3>1, <3>2 DEF Way, Before
    <3>3. CASE d = c
      <4> DEFINE H == Answering(heard[d])
                 O == Answering(outbox[d])
                 O1 == Answering(outbox'[d])
                 I == Asking(inbox, d)
                 L == Lost(lost, d)
                 L1 == Lost(lost', d)
      <4>1. /\ O1 \subseteq O \cup {m}
            /\ \A n \in L1 : n \in L \/ (n \in O /\ n \notin O1)
        BY <2>2, <2>3, <2>6, <3>3
      <4>2. /\ Way(H, O, {m}, I, L, Sent(d)) /\ \A n \in Sent(d) : n \in Nat
        BY <1>3, <1>6, <3>1, <3>3
      <4> HIDE DEF H, O, O1, I, L, L1
      <4>3. H \cup O1 \cup {} \cup I \cup L1 \subseteq Sent(d)
        BY <4>1, <4>2 DEF Way
      <4>4. Before(H, O1) /\ Before(H, I) /\ Before(O1, I)
        BY <4>1, <4>2 DEF Way, Before
      <4>5. ASSUME NEW n \in L1 PROVE n \notin H \cup O1 \cup I
        BY <4>1, <4>2 DEF Way, Before
      <4>6. Way(H, O1, {}, I, L1, Sent(d))
        BY <4>3, <4>4, <4>5 DEF Way, Before
      <4> QED  BY <4>6 DEF H, O1, I, L1
    <3> QED  BY <3>2, <3>3
  <2>8. \A d \in Clients : Rising(outbox'[d])
    BY <2>2, <2>3 DEF WInv
  <2> QED  BY <1>1, <2>3, <2>5, <2>7, <2>8 DEF WInv, Typed
<1>10. CASE outbox' = outbox /\ lost' = lost \cup Ids({current})
  <2>1. Ids({current}) = {<<c, m>>}
    BY DEF Ids, c, m
  <2>2. lost' = lost \cup {<<c, m>>} /\ lost' \in SUBSET (Clients \X Nat)
    <3>1. lost' = lost \cup {<<c, m>>}
      BY <1>10, <2>1, Zenon
    <3>2. {<<c, m>>} \in SUBSET (Clients \X Nat)
      BY <1>1
    <3> QED  BY <1>7, <3>1, <3>2
  <2>3. ASSUME NEW d \in Clients, NEW n \in Lost(lost', d)
        PROVE  n \in Lost(lost, d) \/ n \in InCallback(d)
    <3>1. <<d, n>> \in lost'
      BY <2>2, LostIds
    <3>2. <<d, n>> \in lost \/ <<d, n>> = <<c, m>>
      BY <2>2, <3>1
    <3>3. <<d, n>> \in lost \/ (d = c /\ n = m)
      BY <3>2
    <3> QED  BY <1>3, <1>7, <3>3, LostIds
  <2>4. OnTheWay'
    <3> SUFFICES ASSUME NEW d \in Clients
                 PROVE  Way(Answering(heard[d]), Answering(outbox[d]), {},
                            Asking(inbox, d), Lost(lost', d), Sent(d))
      BY <1>1, <1>4, <1>10 DEF OnTheWay, Sent
    <3>1. /\ Way(Answering(heard[d]), Answering(outbox[d]), InCallback(d), Asking(inbox, d), Lost(lost, d), Sent(d))
          /\ \A n \in Sent(d) : n \in Nat
      BY <1>5, <1>6
    <3>2. /\ Lost(lost', d) \subseteq Sent(d)
          /\ Lost(lost', d) \cap (Answering(heard[d]) \cup Answering(outbox[d]) \cup Asking(inbox, d)) = {}
      BY <2>3, <3>1 DEF Way, Before
    <3> QED  BY <3>1, <3>2 DEF Way, Before
  <2> QED  BY <1>1, <1>10, <2>2, <2>4 DEF WInv, Typed
<1> QED  BY <1>8, <1>9, <1>10

(* A client hears the oldest response, which is younger than all it has      *)
(* heard.                                                                    *)
LEMMA TakeResponseKeepsWInv ==
  ASSUME WInv, NEW c \in Clients, TakeResponse(c)
  PROVE  WInv'
<1> DEFINE response == Head(outbox[c])
<1>1. /\ outbox[c] # << >> /\ UNCHANGED <<current, asked, inbox, lost>>
      /\ heard \in [Clients -> Seq(Responses)] /\ outbox \in [Clients -> Seq(Responses)]
      /\ heard' = [heard EXCEPT ![c] = Append(@, response)]
      /\ outbox' = [outbox EXCEPT ![c] = Tail(@)]
  BY DEF TakeResponse, service, WInv, Typed
<1>2. /\ outbox[c] \in Seq(Responses) /\ heard[c] \in Seq(Responses)
      /\ Rising(outbox[c]) /\ Rising(heard[c])
  BY <1>1 DEF WInv
<1>3. /\ Tail(outbox[c]) \in Seq(Responses) /\ response \in Responses
      /\ Rising(Tail(outbox[c]))
      /\ Answering(Tail(outbox[c])) \subseteq Answering(outbox[c])
      /\ response.number \in Answering(outbox[c])
      /\ \A n \in Answering(Tail(outbox[c])) : response.number < n
  BY <1>1, <1>2, DequeueResponse
<1>4. \A d \in Clients : Way(Answering(heard[d]), Answering(outbox[d]), InCallback(d),
                             Asking(inbox, d), Lost(lost, d), Sent(d))
  BY DEF WInv, OnTheWay
<1>5. \A n \in Answering(heard[c]) : n < response.number
  BY <1>3, <1>4 DEF Way, Before
<1> HIDE DEF response
<1>6. /\ Append(heard[c], response) \in Seq(Responses)
      /\ Rising(Append(heard[c], response))
      /\ Answering(Append(heard[c], response)) \subseteq Answering(heard[c]) \cup {response.number}
  BY <1>2, <1>3, <1>5, AppendResponse
<1>7. /\ heard' \in [Clients -> Seq(Responses)] /\ outbox' \in [Clients -> Seq(Responses)]
      /\ heard'[c] = Append(heard[c], response) /\ outbox'[c] = Tail(outbox[c])
      /\ \A d \in Clients \ {c} : heard'[d] = heard[d] /\ outbox'[d] = outbox[d]
  BY <1>1, <1>3, <1>6
<1>8. \A d \in Clients : Rising(heard'[d]) /\ Rising(outbox'[d])
  BY <1>3, <1>6, <1>7 DEF WInv
<1>9. OnTheWay'
  <2> SUFFICES ASSUME NEW d \in Clients
               PROVE  Way(Answering(heard'[d]), Answering(outbox'[d]), InCallback(d),
                          Asking(inbox, d), Lost(lost, d), Sent(d))
    BY <1>1 DEF OnTheWay, Sent, InCallback
  <2>1. CASE d # c
    BY <1>4, <1>7, <2>1
  <2>2. CASE d = c
    <3>1. /\ Answering(heard'[d]) \subseteq Answering(heard[d]) \cup {response.number}
          /\ Answering(outbox'[d]) \subseteq Answering(outbox[d])
          /\ response.number \in Answering(outbox[d])
          /\ \A n \in Answering(outbox'[d]) : response.number < n
      BY <1>3, <1>6, <1>7, <2>2
    <3> QED  BY <1>4, <3>1 DEF Way, Before
  <2> QED  BY <2>1, <2>2
<1> QED  BY <1>1, <1>7, <1>8, <1>9 DEF WInv, Typed

(* A crash loses what the service has, and nothing else. *)
LEMMA CrashKeepsWInv ==
  ASSUME WInv, Crash
  PROVE  WInv'
<1> DEFINE gone == {inbox[i] : i \in 1 .. Len(inbox)} \cup ({current} \ {None})
<1>1. /\ current' = None /\ inbox' = << >> /\ lost' = lost \cup Ids(gone)
      /\ UNCHANGED <<asked, outbox, heard>>
  BY DEF Crash
<1>2. gone \subseteq Requests
  BY DEF WInv, Typed
<1>3. \A x \in gone : x.client \in Clients /\ x.number \in Nat
  BY <1>2 DEF Requests
<1>4. ASSUME NEW x \in gone PROVE x.number \in InCallback(x.client) \cup Asking(inbox, x.client)
  BY DEF InCallback, Asking
<1> HIDE DEF gone
<1>5. Ids(gone) \in SUBSET (Clients \X Nat)
  BY <1>3 DEF Ids
<1>6. lost \in SUBSET (Clients \X Nat) /\ lost' \in SUBSET (Clients \X Nat)
  BY <1>1, <1>5 DEF WInv, Typed
<1>7. ASSUME NEW d \in Clients, NEW n \in Lost(lost', d)
      PROVE  n \in Lost(lost, d) \cup InCallback(d) \cup Asking(inbox, d)
  <2>1. <<d, n>> \in lost'
    BY <1>6, LostIds
  <2>2. CASE <<d, n>> \in lost
    BY <1>6, <2>2, LostIds
  <2>3. CASE <<d, n>> \notin lost
    <3>1. PICK x \in gone : <<d, n>> = <<x.client, x.number>>
      BY <1>1, <2>1, <2>3 DEF Ids
    <3> QED  BY <1>4, <3>1
  <2> QED  BY <2>2, <2>3
<1>8. /\ inbox' \in Seq(Requests) /\ RequestsRise(inbox')
      /\ \A d \in Clients : Asking(inbox', d) = {} /\ InCallback(d)' = {}
  BY <1>1 DEF RequestsRise, Asking, InCallback
<1>9. OnTheWay'
  <2> SUFFICES ASSUME NEW d \in Clients
               PROVE  Way(Answering(heard[d]), Answering(outbox[d]), {}, {}, Lost(lost', d), Sent(d))
    BY <1>1, <1>8 DEF OnTheWay, Sent
  <2>1. /\ Way(Answering(heard[d]), Answering(outbox[d]), InCallback(d), Asking(inbox, d), Lost(lost, d), Sent(d))
        /\ \A n \in Sent(d) : n \in Nat
    BY DEF WInv, OnTheWay, Sent
  <2>2. /\ Lost(lost', d) \subseteq Sent(d)
        /\ Lost(lost', d) \cap (Answering(heard[d]) \cup Answering(outbox[d])) = {}
    BY <1>7, <2>1 DEF Way, Before
  <2> QED  BY <2>1, <2>2 DEF Way, Before
<1> QED  BY <1>1, <1>6, <1>8, <1>9 DEF WInv, Typed

(* Nothing else matters to the way of a request. *)
LEMMA RestKeepsWInv ==
  ASSUME WInv, UNCHANGED <<asked, inbox, current, outbox, heard, lost>>
  PROVE  WInv'
BY DEF WInv, Typed, OnTheWay, InCallback, Sent

(* At first nothing is on the way.                                            *)
LEMMA WInvInitially == Init => WInv
<1> SUFFICES ASSUME Init PROVE WInv
  OBVIOUS
<1>1. Typed /\ RequestsRise(inbox) /\ \A c \in Clients : Rising(heard[c]) /\ Rising(outbox[c])
  BY DEF Init, Typed, RequestsRise, Rising
<1>2. \A c \in Clients : /\ Answering(heard[c]) = {} /\ Answering(outbox[c]) = {}
                         /\ InCallback(c) = {} /\ Asking(inbox, c) = {} /\ Lost(lost, c) = {}
  BY DEF Init, Answering, InCallback, Asking, Lost
<1> QED  BY <1>1, <1>2 DEF WInv, OnTheWay, Way, Before

(* Each action keeps the way of the requests in order.                        *)
LEMMA StepKeepsWInv == WInv /\ [Next]_vars => WInv'
<1> SUFFICES ASSUME WInv, [Next]_vars PROVE WInv'
  OBVIOUS
<1>1. CASE \E c \in Clients, question \in Questions : Request(c, question)
  BY <1>1, RequestKeepsWInv
<1>2. CASE TakeRequest
  BY <1>2, TakeRequestKeepsWInv
<1>3. CASE SendResponse
  BY <1>3, SendResponseKeepsWInv
<1>4. CASE \E c \in Clients : TakeResponse(c)
  BY <1>4, TakeResponseKeepsWInv
<1>5. CASE Crash
  BY <1>5, CrashKeepsWInv
<1>6. CASE Restart \/ \E c \in Clients : Match(c) \/ End(c)
  BY <1>6, RestKeepsWInv DEF Restart, Match, End, service
<1>7. CASE UNCHANGED vars
  BY <1>7, RestKeepsWInv DEF vars, service
<1> QED  BY <1>1, <1>2, <1>3, <1>4, <1>5, <1>6, <1>7 DEF Next

(* The clients of the earlier version take no step that those of the present  *)
(* one could not take.                                                        *)
LEMMA OldStepIsStep == [OldNext]_oldVars => [Next]_vars
<1> SUFFICES ASSUME [OldNext]_oldVars PROVE Next \/ UNCHANGED vars
  OBVIOUS
<1> USE OldClientsAssumption
<1>1. CASE \E c \in OldClients, question \in Questions : SendRequest(c, question)
  BY <1>1 DEF SendRequest, Next
<1>2. CASE \E c \in OldClients : FillWaitSet(c) \/ NextRound(c) \/ Return(c) \/ CatchException(c)
  BY <1>2 DEF FillWaitSet, NextRound, Return, CatchException
<1>3. CASE \E c \in OldClients : HearResponse(c) \/ Uncaught(c)
  BY <1>3 DEF HearResponse, Uncaught, Next
<1>4. CASE \E c \in Clients \ OldClients : Pipeline(c)
  BY <1>4 DEF Pipeline, Next
<1>5. CASE \E c \in Clients : Match(c) /\ UNCHANGED calling
  BY <1>5 DEF Next
<1>6. CASE Serve
  BY <1>6 DEF Serve, Next
<1>7. CASE UNCHANGED oldVars
  BY <1>7 DEF oldVars
<1> QED  BY <1>1, <1>2, <1>3, <1>4, <1>5, <1>6, <1>7 DEF OldNext

(* The way of the requests is in order, also next to earlier clients.         *)
LEMMA WayOfRequests == OldSpec => []WInv
<1>1. OldInit => WInv
  BY WInvInitially DEF OldInit
<1>2. WInv /\ [OldNext]_oldVars => WInv'
  BY StepKeepsWInv, OldStepIsStep
<1> QED  BY <1>1, <1>2, PTL DEF OldSpec

-----------------------------------------------------------------------------
(* Every client hears answers in the order of its requests, and none twice,    *)
(* however requests of several clients interleave in the service's queue and   *)
(* whenever the service process ends.                                          *)
THEOREM AnswersHeardInOrder == OldSpec => []HeardInOrder
<1>1. WInv => HeardInOrder
  BY DEF WInv, Rising, HeardInOrder
<1> QED  BY <1>1, WayOfRequests, PTL

(* A request once lost, before discovery, in a full queue or with the service  *)
(* process, is never answered afterwards.                                      *)
THEOREM LostRequestsStayLost == OldSpec => []LostNeverHeard
<1>1. ASSUME WInv PROVE LostNeverHeard
  <2> SUFFICES ASSUME NEW c \in Clients, NEW n \in 1 .. MaxRequests, <<c, n>> \in lost, Heard(c, n)
               PROVE  FALSE
    BY DEF LostNeverHeard
  <2>1. n \in Lost(lost, c)
    BY <1>1, LostIds DEF WInv, Typed
  <2>2. n \in Answering(heard[c])
    BY DEF Heard, Answering
  <2>3. Lost(lost, c) \cap Answering(heard[c]) = {}
    BY <1>1 DEF WInv, OnTheWay, Way
  <2> QED  BY <2>1, <2>2, <2>3
<1> QED  BY <1>1, WayOfRequests, PTL

-----------------------------------------------------------------------------
(* What is under way of a client that blocks: nothing outside of sendRequest  *)
(* and once a response is taken, at most the request of the call otherwise.   *)
UnderWay(c) == Answering(outbox[c]) \cup InCallback(c) \cup Asking(inbox, c)

Awaited(c) == IF pc[c] \in {"app", "heard"} THEN {} ELSE {Len(asked[c])}

Places == {"app", "round", "waiting", "heard"}

BlockInv ==
  /\ pc \in [OldClients -> Places]
  /\ during \in [OldClients -> Seq(Nat)]
  /\ \A c \in OldClients \ caught :
       /\ UnderWay(c) \subseteq Awaited(c)
       /\ Len(heard[c]) = Len(during[c])
       /\ \A i \in 1 .. Len(heard[c]) : heard[c][i].number = during[c][i]

(* A request adds its number to what is under way of its client.              *)
LEMMA RequestUnderWay ==
  ASSUME WInv, NEW c \in Clients, NEW question \in Questions, Request(c, question)
  PROVE  \A d \in Clients :
           UnderWay(d)' \subseteq UnderWay(d) \cup (IF d = c THEN {Len(asked[c])'} ELSE {})
<1> DEFINE new == [client |-> c, number |-> Len(asked'[c]), a |-> question[1], b |-> question[2]]
<1>1. /\ asked'[c] \in Seq(Questions) /\ Len(asked'[c]) = Len(asked[c]) + 1
      /\ Len(asked[c]) \in Nat /\ UNCHANGED <<current, outbox>>
      /\ inbox' = Enqueue(inbox, new, ServiceDepth) \/ inbox' = inbox
  BY DEF Request, WInv, Typed, service
<1>2. new \in Requests
  BY <1>1, ServiceFacts DEF Requests
<1>3. \A n \in Asking(inbox, c) : n < new.number
  <2>1. \A n \in Asking(inbox, c) : n \in 1 .. Len(asked[c])
    BY DEF WInv, OnTheWay, Way, Sent
  <2> QED  BY <1>1, <2>1
<1>4. new.client = c /\ new.number = Len(asked'[c])
  OBVIOUS
<1> HIDE DEF new
<1>5. \A d \in Clients : Asking(inbox', d) \subseteq
         Asking(inbox, d) \cup (IF d = c THEN {new.number} ELSE {})
  BY <1>1, <1>2, <1>3, <1>4, ServiceFacts, EnqueueRequest DEF WInv, Typed
<1>6. \A d \in Clients : InCallback(d)' = InCallback(d)
  BY <1>1 DEF InCallback
<1> QED  BY <1>1, <1>4, <1>5, <1>6 DEF UnderWay

(* The service adds nothing to what is under way.                             *)
LEMMA ServiceUnderWay ==
  ASSUME WInv, TakeRequest \/ SendResponse \/ Crash
  PROVE  \A d \in Clients : UnderWay(d)' \subseteq UnderWay(d)
<1>1. CASE TakeRequest
  <2>1. /\ current = None /\ inbox # << >> /\ current' = Head(inbox) /\ inbox' = Tail(inbox)
        /\ UNCHANGED outbox
    BY <1>1 DEF TakeRequest
  <2>2. /\ current' \in Requests
        /\ \A c \in Clients : Asking(inbox', c) \subseteq Asking(inbox, c)
        /\ current'.number \in Asking(inbox, current'.client)
    BY <2>1, DequeueRequest DEF WInv, Typed
  <2>3. \A d \in Clients : InCallback(d)' \subseteq Asking(inbox, d)
    BY <2>2 DEF InCallback
  <2> QED  BY <2>1, <2>2, <2>3 DEF UnderWay
<1>2. CASE SendResponse
  <2> DEFINE c == current.client
             response == [number |-> current.number, sum |-> Sum(current.a, current.b)]
  <2>1. /\ current # None /\ current' = None /\ UNCHANGED inbox
        /\ \/ outbox' = [outbox EXCEPT ![c] = Enqueue(@, response, ClientDepth)]
           \/ outbox' = outbox
    BY <1>2 DEF SendResponse
  <2>2. c \in Clients /\ response \in Responses /\ response.number \in InCallback(c)
    BY <2>1 DEF WInv, Typed, Requests, Responses, Sums, InCallback
  <2>3. /\ outbox[c] \in Seq(Responses) /\ Rising(outbox[c])
        /\ \A n \in Answering(outbox[c]) : n < response.number
    BY <2>2 DEF WInv, Typed, OnTheWay, Way, Before
  <2> HIDE DEF response
  <2>4. Answering(Enqueue(outbox[c], response, ClientDepth)) \subseteq Answering(outbox[c]) \cup {response.number}
    BY <2>2, <2>3, ServiceFacts, EnqueueResponse
  <2>5. \A d \in Clients : InCallback(d)' = {}
    BY <2>1 DEF InCallback
  <2>6. \A d \in Clients : Answering(outbox'[d]) \subseteq Answering(outbox[d]) \cup InCallback(d)
    <3>1. DOMAIN outbox = Clients
      BY DEF WInv, Typed
    <3> HIDE DEF c
    <3>2. CASE outbox' = outbox
      BY <3>2
    <3>3. CASE outbox' = [outbox EXCEPT ![c] = Enqueue(@, response, ClientDepth)]
      <4>1. /\ outbox'[c] = Enqueue(outbox[c], response, ClientDepth)
            /\ \A d \in Clients \ {c} : outbox'[d] = outbox[d]
        BY <3>1, <3>3, <2>2
      <4> QED  BY <4>1, <2>2, <2>4
    <3> QED  BY <2>1, <3>2, <3>3 DEF c
  <2> QED  BY <2>1, <2>5, <2>6 DEF UnderWay
<1>3. CASE Crash
  <2>1. current' = None /\ inbox' = << >> /\ UNCHANGED outbox
    BY <1>3 DEF Crash
  <2> QED  BY <2>1 DEF UnderWay, InCallback, Asking
<1> QED  BY <1>1, <1>2, <1>3

(* A response that is taken is no longer under way, and if it was the only   *)
(* number under way, nothing is left.                                        *)
LEMMA TakeResponseUnderWay ==
  ASSUME WInv, NEW c \in Clients, TakeResponse(c)
  PROVE  /\ \A d \in Clients : UnderWay(d)' \subseteq UnderWay(d)
         /\ Head(outbox[c]).number \in UnderWay(c)
         /\ Head(outbox[c]).number \notin UnderWay(c)'
<1>1. /\ outbox[c] # << >> /\ UNCHANGED <<current, inbox>>
      /\ outbox' = [outbox EXCEPT ![c] = Tail(@)]
      /\ outbox \in [Clients -> Seq(Responses)]
  BY DEF TakeResponse, service, WInv, Typed
<1>2. /\ outbox'[c] = Tail(outbox[c]) /\ \A d \in Clients \ {c} : outbox'[d] = outbox[d]
      /\ outbox[c] \in Seq(Responses) /\ Rising(outbox[c])
  BY <1>1 DEF WInv
<1> DEFINE n == Head(outbox[c]).number
<1>3. /\ n \in Nat /\ n \in Answering(outbox[c])
      /\ Answering(Tail(outbox[c])) \subseteq Answering(outbox[c])
      /\ \A m \in Answering(Tail(outbox[c])) : n < m
  BY <1>1, <1>2, DequeueResponse DEF Responses
<1> HIDE DEF n
<1>4. \A d \in Clients : InCallback(d)' = InCallback(d)
  BY <1>1 DEF InCallback
<1>5. /\ n \notin InCallback(c) /\ n \notin Asking(inbox, c)
  BY <1>3 DEF WInv, OnTheWay, Way, Before
<1>6. n \notin Answering(Tail(outbox[c]))
  BY <1>3
<1> QED  BY <1>1, <1>2, <1>3, <1>4, <1>5, <1>6 DEF UnderWay, n

(* A step of others, or of the middleware, that adds nothing to what is under *)
(* way of a blocking client keeps the invariant.                              *)
LEMMA OthersKeepBlockInv ==
  ASSUME BlockInv, UNCHANGED calling,
         \A d \in OldClients : /\ asked'[d] = asked[d] /\ heard'[d] = heard[d]
                               /\ UnderWay(d)' \subseteq UnderWay(d)
  PROVE  BlockInv'
<1>1. pc' = pc /\ caught' = caught /\ during' = during
  BY DEF calling
<1>2. ASSUME NEW d \in OldClients \ caught
      PROVE  /\ UnderWay(d)' \subseteq Awaited(d)'
             /\ Len(heard'[d]) = Len(during'[d])
             /\ \A i \in 1 .. Len(heard'[d]) : heard'[d][i].number = during'[d][i]
  <2>1. Awaited(d)' = Awaited(d) /\ heard'[d] = heard[d] /\ UnderWay(d)' \subseteq UnderWay(d)
    BY <1>1 DEF Awaited
  <2>2. UnderWay(d) \subseteq Awaited(d)
    BY DEF BlockInv
  <2>3. UnderWay(d)' \subseteq Awaited(d)'
    BY <2>1, <2>2, Zenon
  <2>4. /\ Len(heard[d]) = Len(during[d])
        /\ \A i \in 1 .. Len(heard[d]) : heard[d][i].number = during[d][i]
    BY DEF BlockInv
  <2> QED  BY <1>1, <2>1, <2>3, <2>4, Zenon
<1>3. pc \in [OldClients -> Places] /\ during \in [OldClients -> Seq(Nat)]
  BY DEF BlockInv
<1> QED  BY <1>1, <1>2, <1>3, Zenon DEF BlockInv

(* A call adds its own number, which it is then waiting for.                  *)
LEMMA SendRequestKeepsBlockInv ==
  ASSUME WInv, BlockInv, NEW c \in OldClients, NEW question \in Questions, SendRequest(c, question)
  PROVE  BlockInv'
<1>1. /\ pc[c] = "app" /\ pc' = [pc EXCEPT ![c] = "round"] /\ UNCHANGED <<caught, during, heard>>
      /\ Request(c, question) /\ asked' = [asked EXCEPT ![c] = Append(@, question)]
  BY DEF SendRequest, Goto, Request
<1>2. \A d \in OldClients :
         UnderWay(d)' \subseteq UnderWay(d) \cup (IF d = c THEN {Len(asked[c])'} ELSE {})
  BY <1>1, RequestUnderWay, OldClientsAssumption
<1>3. \A d \in OldClients \ {c} : asked'[d] = asked[d] /\ pc'[d] = pc[d]
  BY <1>1, OldClientsAssumption DEF WInv, Typed, BlockInv
<1>4. pc' \in [OldClients -> Places] /\ pc'[c] = "round"
  BY <1>1 DEF BlockInv, Places
<1>5. ASSUME NEW d \in OldClients \ caught' PROVE UnderWay(d)' \subseteq Awaited(d)'
  <2>1. UnderWay(d) \subseteq Awaited(d)
    BY <1>1, <1>5 DEF BlockInv
  <2>2. CASE d = c
    BY <1>1, <1>2, <1>4, <2>1, <2>2 DEF Awaited
  <2>3. CASE d # c
    BY <1>2, <1>3, <2>1, <2>3 DEF Awaited
  <2> QED  BY <2>2, <2>3
<1> QED  BY <1>1, <1>4, <1>5 DEF BlockInv

(* The response that is taken is the awaited one: nothing else is under way. *)
LEMMA HearResponseKeepsBlockInv ==
  ASSUME WInv, BlockInv, NEW c \in OldClients, HearResponse(c)
  PROVE  BlockInv'
<1> DEFINE response == Head(outbox[c])
<1>0. c \in Clients
  BY OldClientsAssumption
<1>1. /\ pc[c] = "waiting" /\ pc' = [pc EXCEPT ![c] = "heard"] /\ UNCHANGED <<caught, asked>>
      /\ TakeResponse(c) /\ heard' = [heard EXCEPT ![c] = Append(@, response)]
      /\ during' = [during EXCEPT ![c] = Append(@, Len(asked[c]))]
  BY DEF HearResponse, Goto, TakeResponse
<1>2. /\ \A d \in Clients : UnderWay(d)' \subseteq UnderWay(d)
      /\ response.number \in UnderWay(c) /\ response.number \notin UnderWay(c)'
  BY <1>0, <1>1, TakeResponseUnderWay
<1> HIDE DEF response
<1>3. /\ pc' \in [OldClients -> Places] /\ pc'[c] = "heard"
      /\ \A d \in OldClients \ {c} : pc'[d] = pc[d] /\ during'[d] = during[d] /\ heard'[d] = heard[d]
  BY <1>1, OldClientsAssumption DEF BlockInv, Places, WInv, Typed
<1>4. /\ during[c] \in Seq(Nat) /\ heard[c] \in Seq(Responses) /\ Len(asked[c]) \in Nat
      /\ heard'[c] = Append(heard[c], response) /\ during'[c] = Append(during[c], Len(asked[c]))
  BY <1>0, <1>1 DEF BlockInv, WInv, Typed
<1>5. during' \in [OldClients -> Seq(Nat)]
  BY <1>1, <1>4 DEF BlockInv
<1>6. ASSUME c \notin caught
      PROVE  response.number = Len(asked[c]) /\ UnderWay(c)' = {}
  BY <1>0, <1>1, <1>2, <1>6 DEF BlockInv, Awaited
<1>7. ASSUME NEW d \in OldClients \ caught'
      PROVE  /\ UnderWay(d)' \subseteq Awaited(d)'
             /\ Len(heard'[d]) = Len(during'[d])
             /\ \A i \in 1 .. Len(heard'[d]) : heard'[d][i].number = during'[d][i]
  <2>1. /\ d \in Clients /\ UnderWay(d) \subseteq Awaited(d)
        /\ Len(heard[d]) = Len(during[d])
        /\ \A i \in 1 .. Len(heard[d]) : heard[d][i].number = during[d][i]
    BY <1>1, <1>7, OldClientsAssumption DEF BlockInv
  <2>2. CASE d = c
    <3>1. response.number = Len(asked[c]) /\ UnderWay(c)' = {}
      BY <1>1, <1>6, <1>7, <2>2
    <3>2. response \in Responses
      <4>1. outbox[c] \in Seq(Responses) /\ outbox[c] # << >>
        BY <1>0, <1>1 DEF WInv, Typed, TakeResponse
      <4> QED  BY <4>1 DEF response
    <3> DEFINE h == heard[c]
               w == during[c]
               n == Len(asked[c])
    <3>3. /\ h \in Seq(Responses) /\ w \in Seq(Nat) /\ n \in Nat /\ response.number = n
          /\ Len(h) = Len(w) /\ \A i \in 1 .. Len(h) : h[i].number = w[i]
      BY <1>4, <2>1, <2>2, <3>1
    <3> HIDE DEF h, w, n
    <3>4. /\ Len(Append(h, response)) = Len(h) + 1 /\ Len(Append(w, n)) = Len(w) + 1
          /\ Append(h, response)[Len(h) + 1] = response /\ Append(w, n)[Len(w) + 1] = n
          /\ \A i \in 1 .. Len(h) : Append(h, response)[i] = h[i] /\ Append(w, n)[i] = w[i]
      BY <3>2, <3>3
    <3>5. /\ Len(Append(h, response)) = Len(Append(w, n))
          /\ \A i \in 1 .. Len(Append(h, response)) :
               Append(h, response)[i].number = Append(w, n)[i]
      BY <3>3, <3>4
    <3>6. heard'[d] = Append(h, response) /\ during'[d] = Append(w, n)
      BY <1>4, <2>2 DEF h, w, n
    <3> QED  BY <2>1, <2>2, <3>1, <3>5, <3>6
  <2>3. CASE d # c
    BY <1>1, <1>2, <1>3, <2>1, <2>3 DEF Awaited
  <2> QED  BY <2>2, <2>3
<1> QED  BY <1>3, <1>5, <1>7 DEF BlockInv

(* Within its rounds a client only changes its place, and leaves the call     *)
(* with its answer or as one that has caught an exception.                    *)
LEMMA RoundKeepsBlockInv ==
  ASSUME BlockInv, NEW c \in OldClients,
         FillWaitSet(c) \/ NextRound(c) \/ Return(c) \/ CatchException(c)
  PROVE  BlockInv'
<1>1. /\ UNCHANGED <<vars, during>> /\ caught \subseteq caught'
      /\ \E place \in Places :
           /\ pc' = [pc EXCEPT ![c] = place]
           /\ c \in caught' \/ (place \in {"app", "heard"} => pc[c] \in {"app", "heard"})
  BY DEF FillWaitSet, NextRound, Return, CatchException, Goto, Places
<1>2. /\ pc' \in [OldClients -> Places]
      /\ \A d \in OldClients \ caught' : pc'[d] \in {"app", "heard"} => pc[d] \in {"app", "heard"}
  BY <1>1 DEF BlockInv
<1>3. /\ asked' = asked /\ heard' = heard /\ outbox' = outbox /\ inbox' = inbox
      /\ current' = current /\ during' = during
  BY <1>1 DEF vars, service
<1>4. \A d \in OldClients : UnderWay(d)' = UnderWay(d)
  BY <1>3 DEF UnderWay, InCallback
<1>5. ASSUME NEW d \in OldClients \ caught' PROVE UnderWay(d)' \subseteq Awaited(d)'
  <2>1. UnderWay(d) \subseteq Awaited(d) /\ UnderWay(d)' = UnderWay(d)
    BY <1>1, <1>4, <1>5 DEF BlockInv
  <2>2. pc'[d] \in {"app", "heard"} => pc[d] \in {"app", "heard"}
    BY <1>2, <1>5
  <2> QED  BY <1>3, <2>1, <2>2 DEF Awaited
<1> QED  BY <1>1, <1>2, <1>3, <1>5 DEF BlockInv

(* Clients that pipeline leave the ones that block alone.                     *)
LEMMA PipelineKeepsBlockInv ==
  ASSUME WInv, BlockInv, NEW c \in Clients \ OldClients, Pipeline(c)
  PROVE  BlockInv'
<1>1. CASE TakeResponse(c)
  <2>1. \A d \in OldClients : asked'[d] = asked[d] /\ heard'[d] = heard[d]
    BY <1>1, OldClientsAssumption DEF TakeResponse, WInv, Typed
  <2> QED
    BY <1>1, <2>1, TakeResponseUnderWay, OthersKeepBlockInv, OldClientsAssumption DEF Pipeline
<1>2. CASE End(c)
  <2>1. /\ asked' = asked /\ heard' = heard /\ outbox' = outbox /\ inbox' = inbox /\ current' = current
    BY <1>2 DEF End, service
  <2> QED  BY <2>1, OthersKeepBlockInv DEF Pipeline, UnderWay, InCallback
<1>3. CASE \E question \in Questions : Request(c, question)
  <2>1. \A d \in OldClients : asked'[d] = asked[d] /\ heard'[d] = heard[d]
    BY <1>3, OldClientsAssumption DEF Request, WInv, Typed
  <2>2. \A d \in OldClients : UnderWay(d)' \subseteq UnderWay(d)
    BY <1>3, RequestUnderWay, OldClientsAssumption
  <2> QED  BY <2>1, <2>2, OthersKeepBlockInv DEF Pipeline
<1> QED  BY <1>1, <1>2, <1>3 DEF Pipeline

(* So a blocking client never has more under way than it is waiting for.      *)
LEMMA BlockInvariance == OldSpec => []BlockInv
<1>1. OldInit => BlockInv
  BY OldClientsAssumption
     DEF OldInit, Init, BlockInv, UnderWay, Answering, InCallback, Asking, Places
<1>2. WInv /\ BlockInv /\ [OldNext]_oldVars => BlockInv'
  <2> SUFFICES ASSUME WInv, BlockInv, [OldNext]_oldVars PROVE BlockInv'
    OBVIOUS
  <2>1. CASE \E c \in OldClients, question \in Questions : SendRequest(c, question)
    BY <2>1, SendRequestKeepsBlockInv
  <2>2. CASE \E c \in OldClients : FillWaitSet(c) \/ NextRound(c) \/ Return(c) \/ CatchException(c)
    BY <2>2, RoundKeepsBlockInv
  <2>3. CASE \E c \in OldClients : HearResponse(c)
    BY <2>3, HearResponseKeepsBlockInv
  <2>4. CASE \E c \in Clients \ OldClients : Pipeline(c)
    BY <2>4, PipelineKeepsBlockInv
  <2>5. CASE (TakeRequest \/ SendResponse \/ Crash) /\ UNCHANGED calling
    <3>1. asked' = asked /\ heard' = heard
      BY <2>5 DEF TakeRequest, SendResponse, Crash
    <3> QED  BY <2>5, <3>1, ServiceUnderWay, OthersKeepBlockInv, OldClientsAssumption
  <2>6. CASE \/ \E c \in Clients : Match(c) /\ UNCHANGED calling
             \/ \E c \in OldClients : Uncaught(c)
             \/ Restart /\ UNCHANGED calling
             \/ UNCHANGED oldVars
    <3>1. /\ asked' = asked /\ heard' = heard /\ outbox' = outbox /\ inbox' = inbox
          /\ current' = current /\ UNCHANGED calling
      BY <2>6 DEF Match, Uncaught, End, Restart, oldVars, vars, service
    <3> QED  BY <3>1, OthersKeepBlockInv DEF UnderWay, InCallback
  <2> QED  BY <2>1, <2>2, <2>3, <2>4, <2>5, <2>6 DEF OldNext, Serve
<1> QED  BY <1>1, <1>2, WayOfRequests, PTL DEF OldSpec

(* A call of the earlier client that takes any response takes its own, for    *)
(* any number of clients of both versions, any loss and any restart, as long  *)
(* as no application calls again after an exception.                          *)
THEOREM CallsHearTheirOwn == OldSpec => []OwnAnswer
<1>1. BlockInv => OwnAnswer
  BY DEF BlockInv, OwnAnswer
<1> QED  BY <1>1, BlockInvariance, PTL

(* A blocking client never has two requests under way, and none between its   *)
(* calls.                                                                     *)
THEOREM NeverTwoUnderWay == OldSpec => []OneUnderWay
<1>1. ASSUME WInv, BlockInv PROVE OneUnderWay
  <2> SUFFICES ASSUME NEW c \in OldClients \ caught
               PROVE  Cardinality(Requested(c)) + Handled(c) + Len(outbox[c])
                        <= IF pc[c] \in {"app", "heard"} THEN 0 ELSE 1
    BY DEF OneUnderWay
  <2>1. /\ c \in Clients /\ outbox[c] \in Seq(Responses) /\ Rising(outbox[c])
        /\ inbox \in Seq(Requests) /\ RequestsRise(inbox) /\ current \in Requests \cup {None}
        /\ UnderWay(c) \subseteq Awaited(c)
    BY <1>1, OldClientsAssumption DEF WInv, Typed, BlockInv
  <2>2. /\ Before(Answering(outbox[c]), InCallback(c)) /\ Before(Answering(outbox[c]), Asking(inbox, c))
        /\ Before(InCallback(c), Asking(inbox, c))
    BY <1>1, <2>1 DEF WInv, OnTheWay, Way
  <2>3. \A m, n \in UnderWay(c) : m = n /\ m \in Nat
    <3>1. Len(asked[c]) \in Nat
      BY <1>1, <2>1 DEF WInv, Typed
    <3> QED  BY <2>1, <3>1 DEF Awaited
  <2>4. /\ \A i \in 1 .. Len(outbox[c]) : outbox[c][i].number \in Answering(outbox[c])
        /\ \A i \in Requested(c) : i \in 1 .. Len(inbox) /\ inbox[i].number \in Asking(inbox, c)
        /\ Handled(c) \in {0, 1} /\ (Handled(c) = 1 => current.number \in InCallback(c))
    BY <2>1 DEF Answering, Asking, Requested, Handled, InCallback
  <2>5. Len(outbox[c]) \in {0, 1}
    <3> SUFFICES ASSUME Len(outbox[c]) \notin {0, 1} PROVE FALSE
      OBVIOUS
    <3>1. 1 \in 1 .. Len(outbox[c]) /\ 2 \in 1 .. Len(outbox[c])
      <4>1. Len(outbox[c]) \in Nat
        BY <2>1
      <4>2. \A n \in Nat : n \notin {0, 1} => 1 \in 1 .. n /\ 2 \in 1 .. n
        OBVIOUS
      <4> QED  BY <4>1, <4>2, Zenon
    <3>2. outbox[c][1].number < outbox[c][2].number
      BY <2>1, <3>1 DEF Rising
    <3>3. outbox[c][1].number \in UnderWay(c) /\ outbox[c][2].number \in UnderWay(c)
      BY <2>4, <3>1 DEF UnderWay
    <3> QED  BY <2>3, <3>2, <3>3
  <2>6. Requested(c) = {} \/ \E i : Requested(c) = {i}
    <3> SUFFICES ASSUME NEW i \in Requested(c), NEW j \in Requested(c), i # j PROVE FALSE
      OBVIOUS
    <3>1. i \in 1 .. Len(inbox) /\ j \in 1 .. Len(inbox) /\ inbox[i].client = inbox[j].client
      BY <2>4 DEF Requested
    <3>2. inbox[i].number < inbox[j].number \/ inbox[j].number < inbox[i].number
      BY <2>1, <3>1 DEF RequestsRise
    <3>3. inbox[i].number \in UnderWay(c) /\ inbox[j].number \in UnderWay(c)
      BY <2>4 DEF UnderWay
    <3> QED  BY <2>3, <3>2, <3>3
  <2>7. Cardinality(Requested(c)) = IF Requested(c) = {} THEN 0 ELSE 1
    BY <2>6, FS_EmptySet, FS_Singleton
  <2>8. /\ Requested(c) # {} => Asking(inbox, c) # {}
        /\ Handled(c) = 1 => InCallback(c) # {}
        /\ Len(outbox[c]) = 1 => Answering(outbox[c]) # {}
    BY <2>4
  <2>9. /\ ~(Asking(inbox, c) # {} /\ InCallback(c) # {})
        /\ ~(Asking(inbox, c) # {} /\ Answering(outbox[c]) # {})
        /\ ~(InCallback(c) # {} /\ Answering(outbox[c]) # {})
    BY <2>2, <2>3 DEF Before, UnderWay
  <2>10. CASE pc[c] \in {"app", "heard"}
    <3>1. UnderWay(c) = {}
      BY <2>1, <2>10 DEF Awaited
    <3>2. Requested(c) = {} /\ Handled(c) = 0 /\ Len(outbox[c]) = 0
      BY <2>4, <2>5, <2>8, <3>1 DEF UnderWay
    <3> QED  BY <2>7, <3>2
  <2>11. CASE pc[c] \notin {"app", "heard"}
    BY <2>4, <2>5, <2>7, <2>8, <2>9, <2>11
  <2> QED  BY <2>10, <2>11
<1> QED  BY <1>1, WayOfRequests, BlockInvariance, PTL

-----------------------------------------------------------------------------
(* What is asked and what is answered: the operands travel with the request, *)
(* the sum with the response, under the number of the request.               *)
Asked ==
  {r \in Requests : r.number \in 1 .. Len(asked[r.client]) /\ asked[r.client][r.number] = <<r.a, r.b>>}

(* A number that may be answered to a and b. *)
IsSum(s, a, b) == IF a + b \in Operands THEN s = a + b ELSE (s - (a + b)) % (2 ^ Width) = 0

RightAnswers(c) ==
  {h \in [number : Nat, sum : Operands] :
     /\ h.number \in 1 .. Len(asked[c])
     /\ IsSum(h.sum, asked[c][h.number][1], asked[c][h.number][2])}

SumInv ==
  /\ inbox \in Seq(Asked)
  /\ current # None => current \in Asked
  /\ \A c \in Clients : outbox[c] \in Seq(RightAnswers(c)) /\ heard[c] \in Seq(RightAnswers(c))

(* Adding within the width is right up to a multiple of the modulus, and     *)
(* exact within the range.                                                   *)
LEMMA WrapsAround ==
  ASSUME NEW m \in Nat \ {0}, NEW least \in Int, NEW x \in Int
  PROVE  /\ ((x - least) % m) + least \in least .. least + m - 1
         /\ ((((x - least) % m) + least) - x) % m = 0
         /\ x \in least .. least + m - 1 => ((x - least) % m) + least = x
<1>1. ((x - least) % m) + least \in least .. least + m - 1
  OBVIOUS
<1> DEFINE y == x - least
<1>2. y \in Int /\ y = m * (y \div m) + (y % m) /\ y % m \in 0 .. m - 1 /\ y \div m \in Int
  OBVIOUS
<1> HIDE DEF y
<1> DEFINE k == y \div m
<1>3. k \in Int /\ ((y % m) + least) - x = -(m * k)
  BY <1>2 DEF y
<1> HIDE DEF k
<1>4. \A j \in Int : (m * j) % m = 0
  OBVIOUS
<1>5. -(m * k) = m * (-k) /\ -k \in Int
  BY <1>3
<1>6. (((y % m) + least) - x) % m = 0
  BY <1>3, <1>4, <1>5
<1>7. ASSUME x \in least .. least + m - 1 PROVE ((x - least) % m) + least = x
  <2>1. \A z \in 0 .. m - 1 : z % m = z
    OBVIOUS
  <2>2. x - least \in 0 .. m - 1
    BY <1>7
  <2>3. (x - least) % m = x - least
    BY <2>1, <2>2, Zenon
  <2> QED  BY <2>3
<1> QED  BY <1>1, <1>6, <1>7 DEF y

(* So is the sum of the service.                                             *)
LEMMA SumIsRight ==
  ASSUME NEW a \in Operands, NEW b \in Operands
  PROVE  Sum(a, b) \in Operands /\ IsSum(Sum(a, b), a, b)
<1> DEFINE m == 2 ^ Width h == 2 ^ (Width - 1)
<1>1. m \in Nat \ {0} /\ h \in Nat \ {0} /\ m = 2 * h
  BY PowersAssumption
<1>2. Least = -h /\ Greatest = h - 1 /\ Sum(a, b) = ((a + b - Least) % m) + Least
  BY DEF Least, Greatest, Sum
<1> HIDE DEF m, h
<1>3. Least \in Int /\ a \in Int /\ b \in Int /\ a + b \in Int /\ Least + m - 1 = Greatest
  BY <1>1, <1>2 DEF Operands
<1>4. /\ Sum(a, b) \in Least .. Least + m - 1
      /\ (Sum(a, b) - (a + b)) % m = 0
      /\ a + b \in Least .. Least + m - 1 => Sum(a, b) = a + b
  <2> DEFINE x == a + b
  <2>1. x \in Int
    BY <1>3
  <2> HIDE DEF x
  <2>2. /\ ((x - Least) % m) + Least \in Least .. Least + m - 1
        /\ ((((x - Least) % m) + Least) - x) % m = 0
        /\ x \in Least .. Least + m - 1 => ((x - Least) % m) + Least = x
    BY <1>1, <1>3, <2>1, WrapsAround
  <2> DEFINE w == ((x - Least) % m) + Least
  <2>3. /\ w \in Least .. Least + m - 1 /\ (w - x) % m = 0
        /\ x \in Least .. Least + m - 1 => w = x
    BY <2>2
  <2>4. Sum(a, b) = w
    <3>1. a + b - Least = x - Least
      BY <1>3 DEF x
    <3> QED  BY <1>2, <3>1
  <2> HIDE DEF w
  <2> QED  BY <2>3, <2>4 DEF x
<1>5. Operands = Least .. Least + m - 1
  BY <1>3 DEF Operands
<1>6. a + b \in Operands => Sum(a, b) = a + b
  BY <1>4, <1>5
<1> QED  BY <1>4, <1>5, <1>6 DEF IsSum, m

(* What was asked under a number stays so when more is asked.                *)
LEMMA AskingMore ==
  ASSUME Typed, NEW c \in Clients, NEW question \in Questions,
         asked' = [asked EXCEPT ![c] = Append(@, question)]
  PROVE  /\ Asked \subseteq Asked' /\ \A d \in Clients : RightAnswers(d) \subseteq RightAnswers(d)'
         /\ Len(asked'[c]) = Len(asked[c]) + 1 /\ asked'[c][Len(asked'[c])] = question
<1>1. asked[c] \in Seq(Questions) /\ asked'[c] = Append(asked[c], question)
  BY DEF Typed
<1>2. /\ Len(asked'[c]) = Len(asked[c]) + 1 /\ Len(asked[c]) \in Nat
      /\ asked'[c][Len(asked'[c])] = question
      /\ \A i \in 1 .. Len(asked[c]) : asked'[c][i] = asked[c][i]
  BY <1>1
<1>3. \A d \in Clients : \A i \in 1 .. Len(asked[d]) :
        i \in 1 .. Len(asked'[d]) /\ asked'[d][i] = asked[d][i]
  <2> TAKE d \in Clients
  <2>1. CASE d = c
    BY <1>2, <2>1
  <2>2. CASE d # c
    BY <2>2 DEF Typed
  <2> QED  BY <2>1, <2>2
<1>4. Asked \subseteq Asked'
  BY <1>3 DEF Asked, Requests
<1>5. \A d \in Clients : RightAnswers(d) \subseteq RightAnswers(d)'
  BY <1>3 DEF RightAnswers
<1> QED  BY <1>2, <1>4, <1>5

(* A request takes its operands along.                                       *)
LEMMA RequestKeepsSumInv ==
  ASSUME Typed, SumInv, NEW c \in Clients, NEW question \in Questions, Request(c, question)
  PROVE  SumInv'
<1> DEFINE new == [client |-> c, number |-> Len(asked'[c]), a |-> question[1], b |-> question[2]]
<1>1. /\ asked' = [asked EXCEPT ![c] = Append(@, question)]
      /\ inbox' = inbox \/ inbox' = Enqueue(inbox, new, ServiceDepth)
      /\ current' = current /\ outbox' = outbox /\ heard' = heard
  BY DEF Request, service
<1>2. /\ Asked \subseteq Asked' /\ \A d \in Clients : RightAnswers(d) \subseteq RightAnswers(d)'
      /\ Len(asked'[c]) = Len(asked[c]) + 1 /\ asked'[c][Len(asked'[c])] = question
  BY <1>1, AskingMore
<1>3. new \in Asked'
  <2>1. question \in Operands \X Operands /\ Len(asked[c]) \in Nat
    BY AddTwoIntsAssumption DEF Typed
  <2>2. new \in Requests /\ <<new.a, new.b>> = question
    BY <1>2, <2>1 DEF Requests
  <2> QED  BY <1>2, <2>1, <2>2 DEF Asked
<1> HIDE DEF new
<1>4. inbox \in Seq(Asked')
  BY <1>2, SeqMonotonic DEF SumInv
<1>5. inbox' \in Seq(Asked')
  <2>1. Enqueue(inbox, new, ServiceDepth) \in Seq(Asked')
    BY <1>3, <1>4, AddTwoIntsAssumption, EnqueueShifts
  <2> QED  BY <1>1, <1>4, <2>1
<1>6. \A d \in Clients : outbox'[d] \in Seq(RightAnswers(d)') /\ heard'[d] \in Seq(RightAnswers(d)')
  <2> TAKE d \in Clients
  <2>1. outbox[d] \in Seq(RightAnswers(d)) /\ heard[d] \in Seq(RightAnswers(d))
    BY DEF SumInv
  <2>2. RightAnswers(d) \subseteq RightAnswers(d)'
    BY <1>2
  <2>3. outbox[d] \in Seq(RightAnswers(d)') /\ heard[d] \in Seq(RightAnswers(d)')
    BY <2>1, <2>2, SeqMonotonic
  <2> QED  BY <1>1, <2>3
<1> QED  BY <1>1, <1>2, <1>5, <1>6 DEF SumInv

(* The response is that to the request in the callback.                      *)
LEMMA SendResponseKeepsSumInv ==
  ASSUME Typed, SumInv, SendResponse
  PROVE  SumInv'
<1> DEFINE c == current.client
           response == [number |-> current.number, sum |-> Sum(current.a, current.b)]
<1>1. /\ current # None /\ current' = None /\ asked' = asked /\ inbox' = inbox /\ heard' = heard
      /\ outbox' = outbox \/ outbox' = [outbox EXCEPT ![c] = Enqueue(@, response, ClientDepth)]
  BY DEF SendResponse
<1>2. current \in Asked
  BY <1>1 DEF SumInv
<1>3. c \in Clients /\ response \in RightAnswers(c)
  <2>1. /\ c \in Clients /\ current.number \in Nat
        /\ current.a \in Operands /\ current.b \in Operands
        /\ current.number \in 1 .. Len(asked[c]) /\ asked[c][current.number] = <<current.a, current.b>>
    BY <1>2 DEF Asked, Requests
  <2>2. /\ Sum(current.a, current.b) \in Operands
        /\ IsSum(Sum(current.a, current.b), current.a, current.b)
    BY <2>1, SumIsRight
  <2>3. response.number = current.number /\ response.sum = Sum(current.a, current.b)
        /\ response \in [number : Nat, sum : Operands]
    BY <2>1, <2>2
  <2> HIDE DEF response, c
  <2>4. asked[c][response.number][1] = current.a /\ asked[c][response.number][2] = current.b
    BY <2>1, <2>3
  <2> QED  BY <2>1, <2>2, <2>3, <2>4 DEF RightAnswers
<1> HIDE DEF response, c
<1>4. Enqueue(outbox[c], response, ClientDepth) \in Seq(RightAnswers(c))
  BY <1>3, AddTwoIntsAssumption, EnqueueShifts DEF SumInv
<1>5. /\ Asked' = Asked /\ \A d \in Clients : RightAnswers(d)' = RightAnswers(d)
  BY <1>1 DEF Asked, RightAnswers
<1>6. \A d \in Clients : outbox'[d] \in Seq(RightAnswers(d))
  BY <1>1, <1>4 DEF SumInv, Typed
<1> QED  BY <1>1, <1>5, <1>6 DEF SumInv

(* Every sum a client hears is that of the operands it sent under the number *)
(* of the response, up to a multiple of the modulus.                         *)
THEOREM HeardSumsAreRight == OldSpec => []HeardSumIsAsked
<1>1. OldInit => SumInv
  BY DEF OldInit, Init, SumInv
<1>2. WInv /\ SumInv /\ [Next]_vars => SumInv'
  <2> SUFFICES ASSUME Typed, SumInv, [Next]_vars PROVE SumInv'
    BY DEF WInv
  <2>0. asked' = asked => Asked' = Asked /\ \A d \in Clients : RightAnswers(d)' = RightAnswers(d)
    BY DEF Asked, RightAnswers
  <2>1. CASE \E c \in Clients, question \in Questions : Request(c, question)
    BY <2>1, RequestKeepsSumInv
  <2>2. CASE TakeRequest
    <3>1. /\ inbox # << >> /\ current' = Head(inbox) /\ inbox' = Tail(inbox)
          /\ asked' = asked /\ outbox' = outbox /\ heard' = heard
      BY <2>2 DEF TakeRequest
    <3>2. Head(inbox) \in Asked /\ Tail(inbox) \in Seq(Asked)
      <4>1. \A S : \A s \in Seq(S) : s # << >> => Head(s) \in S /\ Tail(s) \in Seq(S)
        OBVIOUS
      <4> QED  BY <3>1, <4>1, Zenon DEF SumInv
    <3> QED  BY <2>0, <3>1, <3>2 DEF SumInv
  <2>3. CASE SendResponse
    BY <2>3, SendResponseKeepsSumInv
  <2>4. ASSUME NEW c \in Clients, TakeResponse(c) PROVE SumInv'
    <3>1. /\ outbox[c] # << >> /\ heard' = [heard EXCEPT ![c] = Append(@, Head(outbox[c]))]
          /\ outbox' = [outbox EXCEPT ![c] = Tail(@)]
          /\ asked' = asked /\ inbox' = inbox /\ current' = current
      BY <2>4 DEF TakeResponse, service
    <3>2. \A S : \A s, t \in Seq(S) :
            s # << >> => Tail(s) \in Seq(S) /\ Append(t, Head(s)) \in Seq(S)
      OBVIOUS
    <3>3. outbox[c] \in Seq(RightAnswers(c)) /\ heard[c] \in Seq(RightAnswers(c))
      BY DEF SumInv
    <3>4. /\ Tail(outbox[c]) \in Seq(RightAnswers(c))
          /\ Append(heard[c], Head(outbox[c])) \in Seq(RightAnswers(c))
      BY <3>1, <3>2, <3>3, Zenon
    <3>5. \A d \in Clients : outbox'[d] \in Seq(RightAnswers(d)) /\ heard'[d] \in Seq(RightAnswers(d))
      BY <3>1, <3>4 DEF SumInv, Typed
    <3> QED  BY <2>0, <3>1, <3>5 DEF SumInv
  <2>5. CASE Crash
    BY <2>0, <2>5 DEF Crash, SumInv
  <2>6. CASE (\E c \in Clients : Match(c) \/ End(c)) \/ Restart \/ UNCHANGED vars
    <3>1. UNCHANGED <<asked, inbox, current, outbox, heard>>
      BY <2>6 DEF Match, End, Restart, service, vars
    <3> QED  BY <2>0, <3>1 DEF SumInv
  <2> QED  BY <2>1, <2>2, <2>3, <2>4, <2>5, <2>6 DEF Next
<1>3. SumInv => HeardSumIsAsked
  <2> SUFFICES ASSUME SumInv, NEW c \in Clients, NEW i \in 1 .. Len(heard[c])
               PROVE  heard[c][i] \in RightAnswers(c)
    BY Zenon DEF RightAnswers, IsSum, HeardSumIsAsked
  <2> QED  BY DEF SumInv
<1> QED  BY <1>1, <1>2, <1>3, WayOfRequests, OldStepIsStep, PTL DEF OldSpec
================================================================================
