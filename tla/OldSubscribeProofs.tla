--------------------------- MODULE OldSubscribeProofs ---------------------------
(* What OldSubscribe guarantees for every duration, clock resolution, queue    *)
(* depth and number of settings of the clock.                                  *)
EXTENDS OldSubscribe, TLAPS

(* The slots are read in their order. *)
LEMMA MinOfSlots ==
  ASSUME NEW S \in SUBSET Topics, S # {}
  PROVE  Min(S) = IF 1 \in S THEN 1 ELSE 2
<1>1. \A x \in S : x = 1 \/ x = 2
  BY DEF Topics
<1>2. \E x \in S : \A y \in S : x <= y
  <2>1. CASE 1 \in S
    BY <1>1, <2>1
  <2>2. CASE 1 \notin S
    BY <1>1, <2>2
  <2> QED  BY <2>1, <2>2
<1>3. Min(S) \in S /\ \A y \in S : Min(S) <= y
  BY <1>2 DEF Min
<1> QED  BY <1>1, <1>3

(* The lesser of two numbers. *)
LEMMA MinOfPair == ASSUME NEW a \in Nat, NEW b \in Nat PROVE Min({a, b}) = IF a <= b THEN a ELSE b
BY DEF Min

-----------------------------------------------------------------------------
(* The messages: what the loop has read of the wait set decides how far a      *)
(* topic can be behind.                                                        *)
MessagesTyped ==
  /\ pending \in [Topics -> Nat]
  /\ behind \in [Topics -> Nat]
  /\ slots \subseteq Topics
  /\ pc = "taking" => slots # {}

(* A topic without messages is behind nobody. *)
IdleNotBehind == \A t \in Topics : pending[t] = 0 => behind[t] = 0

FirstBehind ==
  /\ behind[1] <= 1
  /\ pc = "taking" /\ 1 \notin slots => behind[1] = 0

SecondBehind ==
  /\ behind[2] <= 2
  /\ pc # "taking" => behind[2] <= 1
  /\ pc = "taking" /\ 1 \in slots => behind[2] <= 1
  /\ pc = "taking" /\ 2 \notin slots => behind[2] = 0

BInv == MessagesTyped /\ IdleNotBehind /\ FirstBehind /\ SecondBehind

(* Taking a message, or finding none, keeps the counts of who overtook whom. *)
LEMMA TakeKeepsBInv == BInv /\ Take => BInv'
<1> SUFFICES ASSUME BInv, Take PROVE BInv'
  OBVIOUS
<1> DEFINE t == Min(slots)
<1>0. /\ pc = "taking" /\ slots \in SUBSET Topics /\ slots # {}
      /\ Topics = {1, 2}
  BY DEF Take, BInv, MessagesTyped, Topics
<1>1. /\ pc = "taking" /\ slots \subseteq Topics /\ slots # {}
      /\ t = (IF 1 \in slots THEN 1 ELSE 2) /\ t \in slots
      /\ pending[1] \in Nat /\ pending[2] \in Nat /\ behind[1] \in Nat /\ behind[2] \in Nat
  BY <1>0, MinOfSlots DEF BInv, MessagesTyped
<1>2. /\ slots' = slots \ {t}
      /\ pc' = IF slots' = {} THEN "head" ELSE "taking"
  BY DEF Take
<1>3. CASE /\ pending[t] > 0
           /\ pending' = [pending EXCEPT ![t] = @ - 1]
           /\ behind' = [u \in Topics |->
                IF u = t \/ pending[u] = 0 THEN 0 ELSE Min({behind[u] + 1, 3})]
  <2>1. \A u \in Topics : Min({behind[u] + 1, 3}) = IF behind[u] <= 2 THEN behind[u] + 1 ELSE 3
    BY <1>1, MinOfPair DEF Topics
  <2>2. behind' = [u \in Topics |-> IF u = t \/ pending[u] = 0 THEN 0
                                    ELSE IF behind[u] <= 2 THEN behind[u] + 1 ELSE 3]
    BY <1>3, <2>1
  <2>3. CASE t = 1
    <3>1. /\ behind'[1] = 0
          /\ behind'[2] = IF pending[2] = 0 THEN 0 ELSE IF behind[2] <= 2 THEN behind[2] + 1 ELSE 3
          /\ pending' \in [Topics -> Nat] /\ pending'[2] = pending[2]
          /\ behind' \in [Topics -> Nat]
      BY <1>1, <1>3, <2>2, <2>3 DEF Topics, BInv, MessagesTyped
    <3>2. 1 \in slots /\ 1 \notin slots' /\ (slots' = {} => 2 \notin slots) /\ slots' \subseteq {2}
      BY <1>1, <1>2, <2>3 DEF Topics
    <3>3. behind[2] <= 1 /\ (2 \notin slots => behind[2] = 0)
      BY <1>1, <3>2 DEF BInv, SecondBehind
    <3> QED
      BY <1>1, <1>2, <2>3, <3>1, <3>2, <3>3
      DEF BInv, MessagesTyped, IdleNotBehind, FirstBehind, SecondBehind, Topics
  <2>4. CASE t = 2
    <3>1. /\ behind'[2] = 0
          /\ behind'[1] = IF pending[1] = 0 THEN 0 ELSE IF behind[1] <= 2 THEN behind[1] + 1 ELSE 3
          /\ pending' \in [Topics -> Nat] /\ pending'[1] = pending[1]
          /\ behind' \in [Topics -> Nat]
      BY <1>1, <1>3, <2>2, <2>4 DEF Topics, BInv, MessagesTyped
    <3>2. 1 \notin slots /\ slots' = {}
      BY <1>1, <1>2, <2>4 DEF Topics
    <3>3. behind[1] = 0
      BY <1>1, <3>2 DEF BInv, FirstBehind
    <3> QED
      BY <1>1, <1>2, <2>4, <3>1, <3>2, <3>3
      DEF BInv, MessagesTyped, IdleNotBehind, FirstBehind, SecondBehind, Topics
  <2> QED  BY <1>1, <2>3, <2>4
<1>4. CASE behind' = [behind EXCEPT ![t] = 0] /\ UNCHANGED pending
  BY <1>1, <1>2, <1>4
  DEF BInv, MessagesTyped, IdleNotBehind, FirstBehind, SecondBehind, Topics
<1> QED  BY <1>3, <1>4 DEF Take

(* So does every other step. *)
LEMMA NextKeepsBInv == BInv /\ [Next]_vars => BInv'
<1> SUFFICES ASSUME BInv, [Next]_vars PROVE BInv'
  OBVIOUS
<1> USE DEF BInv, MessagesTyped, IdleNotBehind, FirstBehind, SecondBehind, Topics
<1>1. CASE UNCHANGED vars
  BY <1>1 DEF vars, messages
<1>2. CASE InitWaitSet \/ InitGuard \/ BeginWait \/ WaitTimeout \/ Leave \/ FiniGuard \/ FiniWaitSet
  BY <1>2 DEF InitWaitSet, InitGuard, BeginWait, WaitTimeout, Leave, FiniGuard, FiniWaitSet, messages
<1>3. CASE WaitReady
  BY <1>3 DEF WaitReady
<1>4. CASE Take
  BY <1>4, TakeKeepsBInv
<1>5. CASE RclError
  BY <1>5 DEF RclError, Throw, messages
<1>6. CASE Tick \/ SetClock
  BY <1>6 DEF Tick, SetClock, messages
<1>7. ASSUME NEW t \in Topics, Arrive(t) PROVE BInv'
  <2>1. /\ Depth \in Nat \ {0} /\ pending[t] \in Nat /\ pending[t] + 1 \in Nat
        /\ Min({pending[t] + 1, Depth}) = IF pending[t] + 1 <= Depth THEN pending[t] + 1 ELSE Depth
    BY MinOfPair, SubscribeAssumption
  <2>2. /\ pending' \in [Topics -> Nat] /\ pending'[t] > 0
        /\ \A u \in Topics \ {t} : pending'[u] = pending[u]
        /\ UNCHANGED <<pc, slots, behind>>
    BY <1>7, <2>1 DEF Arrive
  <2> QED  BY <2>2
<1> QED  BY <1>1, <1>2, <1>3, <1>4, <1>5, <1>6, <1>7 DEF Next, Run

(* However fast one topic is, a message of the other has its turn after at     *)
(* most two takes (the loop in lines 135 to 156).                              *)
THEOREM NeitherTopicStarves == Spec => []NoStarvation
<1>1. Init => BInv
  BY DEF Init, BInv, MessagesTyped, IdleNotBehind, FirstBehind, SecondBehind, Topics
<1>2. BInv => NoStarvation
  BY DEF BInv, FirstBehind, SecondBehind, NoStarvation
<1> QED  BY <1>1, <1>2, NextKeepsBInv, PTL DEF Spec

-----------------------------------------------------------------------------
(* The time: as long as nobody sets the clock, the conversion to an unsigned   *)
(* number does no harm, and seconds are compared as ticks would be.            *)
LEMMA SecondsOfTicks ==
  ASSUME NEW e \in Nat, NEW d \in Nat, NEW s \in Nat \ {0}
  PROVE  e \div s \in Nat /\ e \div s <= e /\ (e \div s < d <=> e < d * s)
<1> DEFINE q == e \div s
           r == e % s
<1>1. q \in Int /\ r \in 0 .. s - 1 /\ e = s * q + r
  OBVIOUS
<1> HIDE DEF q, r
<1>2. q >= 0
  <2> SUFFICES ASSUME q <= -1 PROVE FALSE
    BY <1>1
  <2>1. s * q <= s * (-1)
    BY <1>1
  <2> QED  BY <1>1, <2>1
<1>3. q <= e
  <2>1. s * q >= q
    BY <1>1, <1>2
  <2> QED  BY <1>1, <2>1
<1>4. q < d => e < d * s
  <2> SUFFICES ASSUME q + 1 <= d PROVE e < d * s
    BY <1>1
  <2>1. s * (q + 1) <= s * d
    BY <1>1
  <2> QED  BY <1>1, <2>1
<1>5. q >= d => e >= d * s
  <2> SUFFICES ASSUME q >= d PROVE e >= d * s
    OBVIOUS
  <2>1. s * q >= s * d
    BY <1>1
  <2> QED  BY <1>1, <2>1
<1>6. q \in Nat /\ q <= e /\ (q < d <=> e < d * s)
  BY <1>1, <1>2, <1>3, <1>4, <1>5
<1> QED  BY <1>6 DEF q

(* As long as the clock has not been set back, the loop's comparison is the  *)
(* intended one.                                                             *)
LEMMA Comparison ==
  ASSUME elapsed \in Nat, elapsed < Modulus
  PROVE  LoopGoesOn <=> elapsed < Duration * Second
<1>1. /\ Duration \in Nat /\ Second \in Nat \ {0} /\ Modulus \in Nat \ {0}
  BY SubscribeAssumption
<1>2. /\ elapsed \div Second \in Nat /\ elapsed \div Second <= elapsed
      /\ elapsed \div Second < Duration <=> elapsed < Duration * Second
  BY <1>1, SecondsOfTicks
<1>3. Seconds = elapsed \div Second
  BY DEF Seconds
<1>4. Seconds % Modulus = Seconds
  BY <1>1, <1>2, <1>3
<1> QED  BY <1>2, <1>3, <1>4 DEF LoopGoesOn

Limit == Duration * Second

(* The clock in the loop: where the last comparison left it, and the time that *)
(* has passed since then, in a wait and after it.                              *)
ClockInv ==
  /\ elapsed \in Int /\ spent \in Nat /\ sets \in Nat
  /\ InLoop => spent <= (IF pc = "waiting" THEN Second ELSE Slack)
  /\ sets = 0 => elapsed >= 0
  /\ sets = 0 /\ pc = "waiting" => elapsed < Limit + spent
  /\ sets = 0 /\ pc \in {"head", "taking"} => elapsed < Limit + Second + spent

(* The limits are positive, and far from the point where the clock would     *)
(* wrap.                                                                     *)
LEMMA LimitFacts ==
  /\ Limit \in Nat \ {0} /\ Second \in Nat \ {0} /\ Slack \in Nat \ {0}
  /\ Modulus \in Nat /\ Limit + Second + Slack < Modulus
<1>1. {Duration, Second, Slack} \subseteq Nat \ {0} /\ Modulus \in Nat
      /\ (Duration + 1) * Second + Slack < Modulus
  BY SubscribeAssumption
<1>2. (Duration + 1) * Second = Limit + Second
  BY <1>1 DEF Limit
<1>3. Limit >= 1 /\ Limit \in Nat
  BY <1>1 DEF Limit
<1> QED  BY <1>1, <1>2, <1>3

(* No step lets more time pass than the loop's place allows. *)
LEMMA NextKeepsClockInv == ClockInv /\ [Next]_vars => ClockInv'
<1> SUFFICES ASSUME ClockInv, [Next]_vars PROVE ClockInv'
  OBVIOUS
<1> USE LimitFacts DEF ClockInv, InLoop
<1>1. CASE UNCHANGED vars
  BY <1>1 DEF vars, clock
<1>2. CASE InitWaitSet \/ InitGuard \/ WaitTimeout \/ Leave \/ FiniGuard \/ FiniWaitSet
  BY <1>2 DEF InitWaitSet, InitGuard, WaitTimeout, Leave, FiniGuard, FiniWaitSet, clock
<1>3. CASE BeginWait
  <2>1. sets = 0 => elapsed < Limit
    BY <1>3, Comparison DEF BeginWait, Limit
  <2> QED  BY <1>3, <2>1 DEF BeginWait
<1>4. CASE WaitReady
  BY <1>4 DEF WaitReady
<1>5. CASE Take
  <2>1. pc = "taking" /\ pc' \in {"head", "taking"} /\ UNCHANGED clock
    BY <1>5 DEF Take
  <2> QED  BY <2>1 DEF clock
<1>6. CASE RclError
  BY <1>6 DEF RclError, Throw, clock
<1>7. CASE Tick
  BY <1>7 DEF Tick
<1>8. CASE SetClock
  BY <1>8 DEF SetClock
<1>9. ASSUME NEW t \in Topics, Arrive(t) PROVE ClockInv'
  BY <1>9 DEF Arrive, clock
<1> QED  BY <1>1, <1>2, <1>3, <1>4, <1>5, <1>6, <1>7, <1>8, <1>9 DEF Next, Run

(* If nobody sets the clock, the loop is left after Duration seconds and       *)
(* before another second and the handling of the last messages are over (the   *)
(* comparison in lines 107 to 109).                                            *)
THEOREM LoopLeftOnTime == Spec => OnTime
<1>1. Init => ClockInv
  BY LimitFacts DEF Init, ClockInv, InLoop
<1>2. ClockInv /\ [Next]_vars =>
        [Leaves /\ sets = 0
           => elapsed \in Duration * Second .. (Duration + 1) * Second + Slack - 1]_vars
  <2> SUFFICES ASSUME ClockInv, [Next]_vars, Leaves, sets = 0
               PROVE  elapsed \in Duration * Second .. (Duration + 1) * Second + Slack - 1
    OBVIOUS
  <2>1. pc = "head" /\ ~LoopGoesOn
    BY DEF Leaves, Next, Run, vars, InitWaitSet, InitGuard, BeginWait, WaitTimeout, WaitReady,
           Take, Leave, FiniGuard, FiniWaitSet, RclError, Throw, Tick, SetClock, Arrive, InLoop
  <2>2. /\ elapsed \in Nat /\ elapsed < Limit + Second + spent
        /\ spent \in Nat /\ spent <= Slack
    BY <2>1 DEF ClockInv, InLoop
  <2>3. elapsed >= Limit
    BY <2>1, <2>2, LimitFacts, Comparison DEF Limit
  <2>4. /\ {Duration, Second} \subseteq Nat
        /\ (Duration + 1) * Second = Limit + Second
    BY SubscribeAssumption DEF Limit
  <2> QED  BY <2>2, <2>3, <2>4, LimitFacts DEF Limit
<1> QED  BY <1>1, <1>2, NextKeepsClockInv, PTL DEF Spec, OnTime
================================================================================
