--------------------------- MODULE MCCommandLink ---------------------------
(* Instances of CommandLink for TLC. *)
EXTENDS CommandLink, TLC

CONSTANTS t1, t2

OneThread == {t1}
TwoThreads == {t1, t2}
RefusedCommands == {2}
Symmetry == Permutations(Threads)
=============================================================================
