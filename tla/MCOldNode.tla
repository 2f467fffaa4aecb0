-------------------------------- MODULE MCOldNode --------------------------------
(* Every body of at most four creations, used or not, for TLC.                *)
EXTENDS OldNode

MCPrograms ==
  {body \o use : body \in UNION {[1 .. n -> Kinds] : n \in 0 .. 4}, use \in {<<>>, <<"use">>}}
================================================================================
