------------------------------ MODULE OldSubscribe ------------------------------
(***************************************************************************)
(* The earlier MySubscription::subscribe, old/my_subscription_old.h: a     *)
(* loop of its own, for a time measured by the system clock, over the two  *)
(* subscriptions of the object.  1 is the topic the program names, 2 is    *)
(* "arai_test".                                                            *)
(*                                                                         *)
(* Time is counted in ticks of the system clock.  It passes while rcl_wait *)
(* waits, at most a second each time (of a clock nobody sets), and outside *)
(* of it at most Slack ticks between two waits.                            *)
(***************************************************************************)
EXTENDS Integers, FiniteSetsExt

CONSTANTS
  Duration,     (* the time to subscribe, in seconds: 1000                  *)
  Second,       (* ticks in a second                                        *)
  Slack,        (* bound: ticks between two waits                           *)
  Modulus,      (* number of values of Duration's unsigned type: 2^64       *)
  Depth,        (* history depth of a subscription: 10                      *)
  MaxSets       (* bound: how often somebody sets the system clock          *)

ASSUME SubscribeAssumption ==
  /\ {Duration, Second, Slack, Depth} \subseteq Nat \ {0}
  /\ MaxSets \in Nat
  /\ Modulus \in Nat /\ (Duration + 1) * Second + Slack < Modulus

Topics == 1 .. 2

VARIABLES
  pc,              (* start, guard, head, waiting, taking, fini_guard,      *)
                   (* fini_wait_set, returned or threw                      *)
  waitSet, guard,  (* the local objects of rcl: none, init or fini          *)
  elapsed,         (* ticks the system clock is past the start of the loop  *)
  spent,           (* ticks that passed in this wait, or since the last one *)
  sets,            (* how often the clock was set                           *)
  pending,         (* messages in the queue of each topic                   *)
  slots,           (* topics whose slot of the wait set is still to be read *)
  behind           (* history: messages taken of the other topic while a    *)
                   (* message of this one was pending, up to 3              *)

clock == <<elapsed, spent, sets>>
local == <<waitSet, guard>>
messages == <<pending, slots, behind>>
vars == <<pc, clock, local, messages>>

Init ==
  /\ pc = "start"
  /\ waitSet = "none" /\ guard = "none"
  /\ elapsed = 0 /\ spent = 0 /\ sets = 0
  /\ pending = [t \in Topics |-> 0]
  /\ slots = {}
  /\ behind = [t \in Topics |-> 0]

(* An exception leaves the function, and whatever it has initialised.        *)
Throw == pc' = "threw" /\ UNCHANGED <<clock, local, messages>>

InitWaitSet ==
  /\ pc = "start"
  /\ pc' = "guard" /\ waitSet' = "init"
  /\ UNCHANGED <<guard, clock, messages>>

InitGuard ==
  /\ pc = "guard"
  /\ pc' = "head" /\ guard' = "init"
  /\ elapsed' = 0 /\ spent' = 0
  /\ UNCHANGED <<waitSet, sets, messages>>

-----------------------------------------------------------------------------
(* The elapsed time in whole seconds, towards zero, and its comparison with  *)
(* an unsigned number, for which it is converted to that type.               *)
Seconds == IF elapsed >= 0 THEN elapsed \div Second ELSE -((-elapsed) \div Second)

LoopGoesOn_Inclusive == Seconds % Modulus <= Duration

LoopGoesOn == Seconds % Modulus < Duration

(* A round first clears the wait set and adds both subscriptions anew.       *)
BeginWait_StartsAnew ==
  /\ pc = "head" /\ LoopGoesOn
  /\ pc' = "waiting" /\ spent' = 0 /\ elapsed' = 0
  /\ UNCHANGED <<sets, local, messages>>

BeginWait ==
  /\ pc = "head" /\ LoopGoesOn
  /\ pc' = "waiting" /\ spent' = 0
  /\ UNCHANGED <<elapsed, sets, local, messages>>

WaitTimeout ==
  /\ pc = "waiting" /\ spent = Second
  /\ \A t \in Topics : pending[t] = 0
  /\ pc' = "head" /\ spent' = 0
  /\ UNCHANGED <<elapsed, sets, local, messages>>

(* The slots with messages remain, and perhaps others: all of them, if       *)
(* rcl_wait fails, whose result is compared with a timeout only.             *)
WaitReady ==
  /\ pc = "waiting"
  /\ slots' \in (SUBSET Topics) \ {{}}
  /\ {t \in Topics : pending[t] > 0} \subseteq slots'
  /\ pc' = "taking" /\ spent' = 0
  /\ UNCHANGED <<elapsed, sets, local, pending, behind>>

Take_ThenBreak ==
  /\ pc = "taking"
  /\ LET t == Min(slots) IN
       \/ /\ pending[t] > 0
          /\ pending' = [pending EXCEPT ![t] = @ - 1]
          /\ behind' = [u \in Topics |->
               IF u = t \/ pending[u] = 0 THEN 0 ELSE Min({behind[u] + 1, 3})]
       \/ /\ behind' = [behind EXCEPT ![t] = 0]
          /\ UNCHANGED pending
  /\ slots' = {}
  /\ pc' = "head"
  /\ UNCHANGED <<clock, local>>

(* One message is taken for each slot, in their order; a take may fail.      *)
Take ==
  /\ pc = "taking"
  /\ LET t == Min(slots) IN
       /\ \/ /\ pending[t] > 0
             /\ pending' = [pending EXCEPT ![t] = @ - 1]
             /\ behind' = [u \in Topics |->
                  IF u = t \/ pending[u] = 0 THEN 0 ELSE Min({behind[u] + 1, 3})]
          \/ /\ behind' = [behind EXCEPT ![t] = 0]
             /\ UNCHANGED pending
       /\ slots' = slots \ {t}
  /\ pc' = IF slots' = {} THEN "head" ELSE "taking"
  /\ UNCHANGED <<clock, local>>

Leave ==
  /\ pc = "head" /\ ~LoopGoesOn
  /\ pc' = "fini_guard"
  /\ UNCHANGED <<clock, local, messages>>

-----------------------------------------------------------------------------
FiniGuard ==
  /\ pc = "fini_guard"
  /\ pc' = "fini_wait_set" /\ guard' = "fini"
  /\ UNCHANGED <<waitSet, clock, messages>>

FiniWaitSet ==
  /\ pc = "fini_wait_set"
  /\ pc' = "returned" /\ waitSet' = "fini"
  /\ UNCHANGED <<guard, clock, messages>>

(* Each call of rcl but rcl_wait and rcl_take is checked.                    *)
RclError ==
  /\ \/ pc \in {"start", "guard", "fini_guard", "fini_wait_set"}
     \/ pc = "head" /\ LoopGoesOn
  /\ Throw

InLoop == pc \in {"head", "waiting", "taking"}

Tick ==
  /\ InLoop
  /\ spent < IF pc = "waiting" THEN Second ELSE Slack
  /\ elapsed' = elapsed + 1 /\ spent' = spent + 1
  /\ UNCHANGED <<pc, sets, local, messages>>

(* The system clock is set, for instance by a time server.                   *)
SetClock ==
  /\ InLoop /\ sets < MaxSets
  /\ elapsed' \in -2 * Second .. Duration * Second
  /\ sets' = sets + 1
  /\ UNCHANGED <<pc, spent, local, messages>>

(* A message arrives; a full queue drops its oldest for it.                  *)
Arrive(t) ==
  /\ pc \notin {"returned", "threw"}
  /\ pending' = [pending EXCEPT ![t] = Min({@ + 1, Depth})]
  /\ UNCHANGED <<pc, clock, local, slots, behind>>

Run ==
  \/ InitWaitSet \/ InitGuard \/ BeginWait \/ WaitTimeout \/ WaitReady \/ Take \/ Leave
  \/ FiniGuard \/ FiniWaitSet

Next == Run \/ RclError \/ Tick \/ SetClock \/ (\E t \in Topics : Arrive(t))

(* The thread goes on, no wait lasts for ever, and time passes however fast  *)
(* messages come.                                                            *)
Fairness == WF_vars(Run) /\ WF_vars(Tick)

Spec == Init /\ [][Next]_vars /\ Fairness

-----------------------------------------------------------------------------
(* Properties.                                                               *)

Leaves == pc = "head" /\ pc' = "fini_guard"

(* As long as nobody sets the clock, the loop is left when the time is over, *)
(* and at most one wait and the handling of its messages later.              *)
OnTime ==
  [][Leaves /\ sets = 0
       => elapsed \in Duration * Second .. (Duration + 1) * Second + Slack - 1]_vars

(* The comment before the loop: it is left when the elapsed time exceeds the *)
(* given time.  A system clock that is set back contradicts it: the number   *)
(* of seconds is negative, and large when it is compared.                    *)
LeavesWhenElapsed == [][Leaves => elapsed >= Duration * Second]_vars

(* Neither topic starves the other: while a message of a topic is pending,   *)
(* at most one message of the second, or two of the first, are taken before  *)
(* its own turn, although a fast topic is ready again in each round.         *)
NoStarvation == behind[1] <= 1 /\ behind[2] <= 2

(* The loop ends, however many messages arrive and however often the clock   *)
(* is set: the call returns, with its local objects finalised, or throws.    *)
LoopEnds == InLoop ~> pc = "threw" \/ (pc = "returned" /\ local = <<"fini", "fini">>)
================================================================================
