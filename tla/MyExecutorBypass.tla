---------------------------- MODULE MyExecutorBypass ----------------------------
(***************************************************************************)
(* MyExecutor with a history variable: how often the callback of each      *)
(* entity has run while data of another, watched entity were waiting.      *)
(***************************************************************************)
EXTENDS MyExecutor

VARIABLE bypass   (* bypass[e][f]: runs of f's callback since e was due *)

varsB == <<vars, bypass>>

NoBypass == [f \in Entities |-> 0]

InitB == Init /\ bypass = [e \in Entities |-> NoBypass]

Due(e) == e \in Watched /\ pending[e] > 0

(* Serving f makes every other entity that is due wait once more for it. *)
Counted(f) ==
  [e \in Entities |-> IF Due(e) /\ e # f THEN [bypass[e] EXCEPT ![f] = @ + 1] ELSE NoBypass]

NextB == Next /\ bypass' = IF InvokeCallback THEN Counted(List[index]) ELSE bypass

SpecB == InitB /\ [][NextB]_varsB

-----------------------------------------------------------------------------
(* f comes before e in the order of the dispatch loops. *)
LoopOf(e) == CHOOSE l \in 1 .. Len(DispatchOrder) : DispatchOrder[l] = KindOf(e)
PositionOf(e) == CHOOSE i \in 1 .. Len(registered[KindOf(e)]) : registered[KindOf(e)][i] = e
Precedes(f, e) ==
  \/ LoopOf(f) < LoopOf(e)
  \/ LoopOf(f) = LoopOf(e) /\ PositionOf(f) < PositionOf(e)

(* While an entity waits to be served, no other entity is served more than   *)
(* twice before it, and only once if it comes later in the dispatch loops:   *)
(* a datum that just misses one rcl_wait is in the snapshot of the next one, *)
(* and a pass of spin runs each callback at most once.                       *)
BoundedBypass ==
  pc # "terminated" =>
    \A e, f \in Watched : Due(e) /\ e # f =>
      bypass[e][f] <= IF Precedes(f, e) THEN 2 ELSE 1
================================================================================
