------------------------------ MODULE MCMyExecutor ------------------------------
(***************************************************************************)
(* The executor with its history variable, for TLC.  No action tells one   *)
(* subscription from another before they are registered, so permuting them *)
(* is a symmetry of the specification and of its invariants.               *)
(***************************************************************************)
EXTENDS MyExecutorBypass

LOCAL INSTANCE TLC

Symmetry == Permutations(Subscriptions)
================================================================================
