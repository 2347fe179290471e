------------------------------ MODULE HeldKeys ------------------------------
(***************************************************************************)
(* What a boot keyboard report promises: a set of held keys, of which at   *)
(* most Capacity are not modifiers.  A key beyond the capacity is ignored; *)
(* releasing a key leaves every other key as it is.                        *)
(***************************************************************************)
EXTENDS Naturals, FiniteSets

CONSTANTS Keys, Modifiers, Capacity

VARIABLE held

Init == held = {}

Fits(k) == k \in Modifiers \cup held \/ Cardinality(held \cap Keys) < Capacity

Press(k) == Fits(k) /\ held' = held \cup {k}

Release(k) == held' = held \ {k}

ReleaseAll == held' = {}

Next ==
  \/ \E k \in Keys \cup Modifiers : Press(k) \/ Release(k)
  \/ ReleaseAll

Spec == Init /\ [][Next]_held
=============================================================================
