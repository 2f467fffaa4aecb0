----------------------------- MODULE KeepLastProofs -----------------------------
(***************************************************************************)
(* What an arrival does to a KEEP_LAST queue, for every depth: the fact    *)
(* behind the proofs about the order of messages, requests and responses.  *)
(***************************************************************************)
EXTENDS KeepLast, Integers, TLAPS

(* A queue after an arrival: the elements before the new one keep their      *)
(* order, and if the first is missing, it is the displaced one.              *)
LEMMA EnqueueShifts ==
  ASSUME NEW S, NEW q \in Seq(S), NEW new \in S, NEW depth \in Nat \ {0}
  PROVE  LET r == Enqueue(q, new, depth) IN
         /\ r \in Seq(S)
         /\ \E k \in {0, 1} :
              /\ Len(r) = Len(q) - k + 1
              /\ r[Len(r)] = new
              /\ \A i \in 1 .. Len(r) - 1 : r[i] = q[i + k]
              /\ Displaced(q, depth) = IF k = 0 THEN {} ELSE {q[1]}
              /\ k = 1 => Len(q) > 0
<1>1. CASE Len(q) < depth
  <2>1. Enqueue(q, new, depth) = Append(q, new) /\ Displaced(q, depth) = {}
    BY <1>1 DEF Enqueue, Displaced
  <2>2. /\ Append(q, new) \in Seq(S) /\ Len(Append(q, new)) = Len(q) - 0 + 1
        /\ Append(q, new)[Len(q) + 1] = new
        /\ \A i \in 1 .. Len(q) : Append(q, new)[i] = q[i + 0]
    OBVIOUS
  <2> QED  BY <2>1, <2>2
<1>2. CASE ~(Len(q) < depth)
  <2>1. Len(q) > 0
    BY <1>2
  <2>2. /\ Enqueue(q, new, depth) = Append(Tail(q), new) /\ Displaced(q, depth) = {q[1]}
    BY <1>2, <2>1 DEF Enqueue, Displaced
  <2>3. /\ Tail(q) \in Seq(S) /\ Len(Tail(q)) = Len(q) - 1
        /\ \A i \in 1 .. Len(q) - 1 : Tail(q)[i] = q[i + 1]
    BY <2>1
  <2>4. /\ Append(Tail(q), new) \in Seq(S) /\ Len(Append(Tail(q), new)) = Len(q) - 1 + 1
        /\ Append(Tail(q), new)[Len(q)] = new
        /\ \A i \in 1 .. Len(q) - 1 : Append(Tail(q), new)[i] = q[i + 1]
    BY <2>1, <2>3
  <2> DEFINE r == Enqueue(q, new, depth)
  <2>5. /\ r \in Seq(S) /\ Len(r) = Len(q) /\ Len(q) = Len(q) - 1 + 1 /\ Len(q) \in Nat
        /\ r[Len(r)] = new /\ \A i \in 1 .. Len(r) - 1 : r[i] = q[i + 1]
    BY <2>2, <2>4
  <2> HIDE DEF r
  <2>6. /\ r \in Seq(S)
        /\ Len(r) = Len(q) - 1 + 1 /\ r[Len(r)] = new /\ \A i \in 1 .. Len(r) - 1 : r[i] = q[i + 1]
        /\ Displaced(q, depth) = {q[1]} /\ Len(q) > 0
    BY <2>1, <2>2, <2>5
  <2> QED  BY <2>6 DEF r
<1> QED  BY <1>1, <1>2
================================================================================
