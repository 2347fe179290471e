---------------------------- MODULE KeyboardLocks ----------------------------
(***************************************************************************)
(* The lock keys: the keyboard of KeyReport together with the lock state   *)
(* the host keeps, the LED output report by which the host tells it to     *)
(* BootKeyboard, and the commands GET_*_LOCK that read it back.            *)
(*                                                                         *)
(* The host owns the lock state.  It toggles a lock on the press of its    *)
(* key, on whatever keyboard, and then sends the LEDs to all of them.      *)
(* SET_*_LOCK is a press and a release of the lock key, GET_*_LOCK reads   *)
(* the LEDs that arrived last.                                             *)
(***************************************************************************)
EXTENDS KeyReport

VARIABLES
  lockOn,   \* the locks that are on, for the host
  leds,     \* BootKeyboard_::leds
  ledDue,   \* the host has still to send the LEDs
  told,     \* history: the last LED report that was due has arrived
  watched,  \* history: a SET_*_LOCK is the last command, its bus was not reset
  goal      \* history: the lock state that SET_*_LOCK is to bring about

lockVars == <<lockOn, leds, ledDue, told, watched, goal>>
allVars == <<vars, lockVars>>

Toggle(S, T) == (S \ T) \cup (T \ S)

(* The reports the host has yet to look at, after the one it took last.     *)
Shows == <<host>> \o wire
LastShown == Shows[Len(Shows)]

(* The lock keys a report presses that the one before it did not show.      *)
PressedAt(i) == (Shows[i] \ Shows[i - 1]) \cap LockKeys

(* The lock state the host gets to when it has taken what is in the endpoint. *)
Settled ==
  {k \in LockKeys :
     (k \in lockOn) # (Cardinality({i \in 2..Len(Shows) : k \in PressedAt(i)}) % 2 = 1)}

-----------------------------------------------------------------------------
LocksInit ==
  /\ Init
  /\ lockOn \in SUBSET LockKeys
  /\ leds = {} /\ ledDue = FALSE
  /\ told = FALSE /\ watched = FALSE /\ goal = {}

(* A command.  The goal of a SET_*_LOCK: its lock toggles, unless the host   *)
(* sees the key held already or the key finds no slot.                      *)
LockCommand ==
  /\ Command
  /\ watched' = (command'.cmd = "KB_SET_LOCK")
  /\ goal' = IF watched'
             THEN Toggle(Settled, {k \in command'.keys : k \notin LastShown /\ CanAdd(k)})
             ELSE {}
  /\ UNCHANGED <<lockOn, leds, ledDue, told>>

LockOperation == Operation /\ UNCHANGED lockVars

(* The host takes a report: locks whose keys it sees pressed toggle, and    *)
(* the LEDs are due on every keyboard.                                      *)
HostTakesLocks ==
  /\ HostTakes
  /\ lockOn' = Toggle(lockOn, PressedAt(2))
  /\ ledDue' = (ledDue \/ PressedAt(2) # {})
  /\ UNCHANGED <<leds, told, watched, goal>>

(* The user presses a lock key on another keyboard. *)
OtherKeyboard(k) ==
  /\ lockOn' = Toggle(lockOn, {k})
  /\ ledDue' = configured
  /\ goal' = IF watched THEN Toggle(goal, {k}) ELSE goal
  /\ UNCHANGED <<vars, leds, told, watched>>

(* Mutant: the bits of the report are added to the ones that are set. *)
LedReportMutant ==
  /\ configured /\ ledDue
  /\ leds' = leds \cup lockOn
  /\ ledDue' = FALSE /\ told' = TRUE
  /\ UNCHANGED <<vars, lockOn, watched, goal>>

(* BootKeyboard_::setup, SET_REPORT of the output report, between any two   *)
(* steps of loop().                                                         *)
LedReport ==
  /\ configured /\ ledDue
  /\ leds' = lockOn
  /\ ledDue' = FALSE /\ told' = TRUE
  /\ UNCHANGED <<vars, lockOn, watched, goal>>

(* The transfer fails and the host gives it up. *)
LedReportFails ==
  /\ configured /\ ledDue
  /\ ledDue' = FALSE /\ told' = FALSE
  /\ UNCHANGED <<vars, lockOn, leds, watched, goal>>

(* A restart clears the RAM, a bus reset does not; the locks are the host's *)
(* and survive both.                                                        *)
ResetLocks ==
  /\ Reset
  /\ leds' = {} /\ ledDue' = FALSE /\ told' = FALSE /\ watched' = FALSE /\ goal' = {}
  /\ UNCHANGED lockOn

BusResetLocks ==
  /\ BusReset
  /\ ledDue' = FALSE /\ told' = FALSE /\ watched' = FALSE /\ goal' = {}
  /\ UNCHANGED <<lockOn, leds>>

(* Hosts differ in whether they set the LEDs of a keyboard that is new.     *)
ConfigureLocks ==
  /\ Configure
  /\ ledDue' \in BOOLEAN
  /\ UNCHANGED <<lockOn, leds, told, watched, goal>>

LocksNext ==
  \/ LockCommand \/ LockOperation \/ HostTakesLocks
  \/ \E k \in LockKeys : OtherKeyboard(k)
  \/ LedReport \/ LedReportFails
  \/ ResetLocks \/ BusResetLocks \/ ConfigureLocks

LocksSpec == LocksInit /\ [][LocksNext]_allVars

(* The main loop runs; the host need neither poll nor send LEDs.            *)
LocksFairSpec == LocksSpec /\ WF_allVars(LockOperation)

(* kb_ret of the reply to KB_GET_*_LOCK, read at any moment. *)
Answer(k) == IF k \in leds THEN 1 ELSE 0

-----------------------------------------------------------------------------
(* Properties. *)

LocksTypeOK ==
  /\ TypeOK
  /\ lockOn \subseteq LockKeys /\ leds \subseteq LockKeys /\ goal \subseteq LockKeys
  /\ ledDue \in BOOLEAN /\ told \in BOOLEAN /\ watched \in BOOLEAN
  /\ ledDue => configured

(* Set*Lock, whose reports both got into the endpoint, toggles its lock     *)
(* exactly once, counted when the host has taken them, whatever other       *)
(* commands left in the endpoint, whatever reports were given up before it  *)
(* and whatever other keyboards do; it does not toggle it if the host sees  *)
(* the key held already or no slot is free.                                 *)
SetLockToggles ==
  watched /\ todo = <<>> /\ ~lost
    => \A k \in command.keys : k \in Settled <=> k \in goal

(* Once the LED report of the last change has arrived, Get*Lock tells the   *)
(* state the host keeps, after toggles by this and by other keyboards,      *)
(* lost reports, bus resets and restarts; before, it tells an older one.    *)
GetTellsLock ==
  told /\ ~ledDue => \A k \in LockKeys : Answer(k) = 1 <=> k \in lockOn

=============================================================================
