--------------------------- MODULE MCMouseReport ---------------------------
(* Instances of MouseReport for TLC. *)
EXTENDS MouseReport

CONSTANTS left

OneButton == {left}
(* The first is reached, the second missed by a column if MoveToA has to do it. *)
SomeGoals == {<<1, 1>>, <<2, 1>>}
Speeds == {1, 2}
=============================================================================
