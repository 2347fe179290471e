--------------------------- MODULE CommandService ---------------------------
(***************************************************************************)
(* What the command link promises its callers: every call applies its own  *)
(* command, once, at a moment between its start and its end, and a         *)
(* successful end means that the command was applied.  The promise is      *)
(* suspended while the remains of an exchange that was given up may still  *)
(* be around (lossy), and holds again after the device has been reopened   *)
(* with nothing left over.                                                 *)
(***************************************************************************)
EXTENDS Naturals

CONSTANT Threads

VARIABLES
  call,     \* "idle", "waiting", "succeeded" or "failed"
  cmd,      \* the command of each thread's current call
  applied,  \* the commands the device has carried out
  lossy     \* the promise is suspended

service == <<call, cmd, applied, lossy>>

Init ==
  /\ call = [t \in Threads |-> "idle"]
  /\ cmd = [t \in Threads |-> 0]
  /\ applied = {}
  /\ lossy = FALSE

(* A new command, unlike any that is current or applied. *)
Start(t) ==
  /\ call[t] = "idle"
  /\ cmd'[t] \in Nat /\ cmd'[t] \notin applied \cup {cmd[u] : u \in Threads}
  /\ cmd' = [cmd EXCEPT ![t] = cmd'[t]]
  /\ call' = [call EXCEPT ![t] = "waiting"]
  /\ UNCHANGED <<applied, lossy>>

Apply(t) ==
  /\ call[t] = "waiting" /\ cmd[t] \notin applied
  /\ applied' = applied \cup {cmd[t]}
  /\ UNCHANGED <<call, cmd, lossy>>

Finish(t) ==
  /\ call[t] = "waiting"
  /\ \/ cmd[t] \in applied /\ call' = [call EXCEPT ![t] = "succeeded"]
     \/ call' = [call EXCEPT ![t] = "failed"]
  /\ UNCHANGED <<cmd, applied, lossy>>

Return(t) ==
  /\ call[t] \in {"succeeded", "failed"}
  /\ call' = [call EXCEPT ![t] = "idle"] /\ cmd' = [cmd EXCEPT ![t] = 0]
  /\ UNCHANGED <<applied, lossy>>

(* The process ends: its calls never return. *)
Abort ==
  /\ call' = [t \in Threads |-> "idle"] /\ cmd' = [t \in Threads |-> 0]
  /\ lossy' \in {lossy, TRUE}
  /\ UNCHANGED applied

(* A call gives its exchange up. *)
GiveUp(t) ==
  /\ call[t] = "waiting"
  /\ call' = [call EXCEPT ![t] = "failed"]
  /\ lossy' = TRUE
  /\ UNCHANGED <<cmd, applied>>

(* While the promise is suspended, late commands are applied, torn or       *)
(* repeated, and calls end as they like.                                    *)
Degraded ==
  /\ lossy
  /\ \/ applied' # applied /\ applied \subseteq applied' /\ UNCHANGED call
     \/ /\ \E t \in Threads :
             /\ call[t] = "waiting"
             /\ call' = [call EXCEPT ![t] = "succeeded"]
        /\ UNCHANGED applied
  /\ UNCHANGED <<cmd, lossy>>

(* The bus is reset under a command. *)
Lose ==
  /\ \E t \in Threads : call[t] = "waiting"
  /\ lossy' = TRUE
  /\ UNCHANGED <<call, cmd, applied>>

Reopen == lossy /\ lossy' = FALSE /\ UNCHANGED <<call, cmd, applied>>

Next ==
  \/ \E t \in Threads : Start(t) \/ Apply(t) \/ Finish(t) \/ Return(t) \/ GiveUp(t)
  \/ Abort \/ Degraded \/ Lose \/ Reopen

Spec == Init /\ [][Next]_service
=============================================================================
