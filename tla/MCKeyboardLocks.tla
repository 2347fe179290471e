-------------------------- MODULE MCKeyboardLocks --------------------------
(* Instances of KeyboardLocks for TLC. *)
EXTENDS KeyboardLocks

CONSTANTS a, caps, shift

SomeKeys == {a, caps}
SomeModifiers == {shift}
Locks == {caps}
=============================================================================
