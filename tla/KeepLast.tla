-------------------------------- MODULE KeepLast --------------------------------
(***************************************************************************)
(* The queue a subscription, a service or a client has in the middleware   *)
(* under rcl's default options: history KEEP_LAST with a fixed depth.      *)
(***************************************************************************)
EXTENDS Naturals, Sequences

Enqueue_KeepsAll(queue, new, depth) == Append(queue, new)

Enqueue_DropsNewest(queue, new, depth) ==
  IF Len(queue) < depth THEN Append(queue, new) ELSE queue

Enqueue_DropsAll(queue, new, depth) ==
  IF Len(queue) < depth THEN Append(queue, new) ELSE <<new>>

(* A full queue loses its oldest element. *)
Enqueue(queue, new, depth) ==
  IF Len(queue) < depth THEN Append(queue, new) ELSE Append(Tail(queue), new)

Displaced(queue, depth) == IF Len(queue) < depth THEN {} ELSE {Head(queue)}
================================================================================
