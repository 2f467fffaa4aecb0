------------------------------ MODULE MCAddTwoInts ------------------------------
(* Two clients that add 2-bit numbers, for TLC: one of the sums overflows.     *)
EXTENDS OldAddTwoInts

MCQuestions == {<<1, 1>>, <<-2, 1>>}
================================================================================
