----------------------------- MODULE InEndpoints -----------------------------
(***************************************************************************)
(* What an IN endpoint promises: the bytes its sender has put in reach the *)
(* host in that order, none twice and none skipped, until a new            *)
(* configuration or a reset empties both sides.                            *)
(***************************************************************************)
EXTENDS Sequences, SequencesExt

CONSTANT Endpoints

VARIABLES
  written,   \* per endpoint: bytes accepted since the last configuration
  read       \* per endpoint: bytes the host has got since then

Init == written = [e \in Endpoints |-> <<>>] /\ read = [e \in Endpoints |-> <<>>]

Write(e) ==
  /\ IsStrictPrefix(written[e], written'[e])
  /\ \A f \in Endpoints \ {e} : written'[f] = written[f]
  /\ UNCHANGED read

Read(e) ==
  /\ IsStrictPrefix(read[e], read'[e])
  /\ IsPrefix(read'[e], written[e])
  /\ \A f \in Endpoints \ {e} : read'[f] = read[f]
  /\ UNCHANGED written

Empty == written' = [e \in Endpoints |-> <<>>] /\ read' = [e \in Endpoints |-> <<>>]

Next == Empty \/ \E e \in Endpoints : Write(e) \/ Read(e)

Spec == Init /\ [][Next]_<<written, read>>

=============================================================================
