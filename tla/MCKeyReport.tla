---------------------------- MODULE MCKeyReport ----------------------------
(* Instances of KeyReport for TLC. *)
EXTENDS KeyReport, TLC

CONSTANTS a, b, caps, shift, ctrl

SomeKeys == {a, b, caps}
SomeModifiers == {shift}
Locks == {caps}
Symmetry == Permutations({a, b})
=============================================================================
