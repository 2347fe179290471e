------------------------------ MODULE KeyReport ------------------------------
(***************************************************************************)
(* The keyboard half of the firmware: the boot report with its modifier    *)
(* byte and its key slots (DefaultKeyboardAPI, KeyboardAPI, BootKeyboard), *)
(* the keyboard commands of loop() (keyboardProcess), the IN endpoint that *)
(* carries the reports, and the keys the host believes to be held.         *)
(*                                                                         *)
(* A command is a list of operations on the report; the host may take a    *)
(* report out of the endpoint between any two of them.                     *)
(***************************************************************************)
EXTENDS Naturals, Sequences, FiniteSets

CONSTANTS
  Keys,          \* key codes that take a slot
  Modifiers,     \* KEY_LEFT_CTRL .. KEY_RIGHT_GUI, one bit each
  LEFT_SHIFT,    \* KEY_LEFT_SHIFT
  LockKeys,      \* KEY_CAPS_LOCK, KEY_NUM_LOCK, KEY_SCROLL_LOCK
  RESERVED,      \* KEY_RESERVED, an empty slot
  NumSlots,      \* sizeof(_keyReport.keycodes): 6
  Banks,         \* banks of the endpoint: 2
  CombLen        \* bound on the keys of one combination: 6 in the packet

ASSUME KeyAssumption ==
  /\ LEFT_SHIFT \in Modifiers
  /\ Keys \cap Modifiers = {}
  /\ LockKeys \subseteq Keys
  /\ RESERVED \notin Keys \cup Modifiers
  /\ NumSlots \in Nat \ {0}
  /\ Banks \in Nat \ {0}
  /\ CombLen \in Nat

VARIABLES
  modifiers,  \* _keyReport.modifiers, the set of bits
  keycodes,   \* _keyReport.keycodes
  todo,       \* operations of the current command that are still to be done
  configured, \* _usbConfiguration: the host has enumerated the device
  wire,       \* reports in the endpoint, oldest first
  host,       \* keys held according to the last report the host took
  command,    \* history: the current or last command and the keys it names
  sent,       \* history: the last report went into the endpoint
  lost        \* history: a report of the current command was given up

vars == <<modifiers, keycodes, todo, configured, wire, host, command, sent, lost>>

Slots == 1..NumSlots
AnyKey == Keys \cup Modifiers

(* A report, as the set of keys it shows. *)
Held == modifiers \cup {keycodes[i] : i \in {j \in Slots : keycodes[j] # RESERVED}}

Op(o, k) == [op |-> o, key |-> k]
Send == Op("send", RESERVED)
EachKey(o, ks) == [i \in 1..Len(ks) |-> Op(o, ks[i])]

-----------------------------------------------------------------------------
(* The operations.  Each gives the new report and whether it returns 1.     *)

Shown(k) == \E i \in Slots : keycodes[i] = k
Free == {i \in Slots : keycodes[i] = RESERVED}
First(S) == CHOOSE i \in S : \A j \in S : i <= j

(* DefaultKeyboardAPI::set(k, true) *)
CanAdd(k) == k \in Modifiers \/ Shown(k) \/ Free # {}

(* Mutant: the scan for a slot that already holds k is left out. *)
AddMutant(k) ==
  \/ /\ k \in Modifiers
     /\ modifiers' = modifiers \cup {k} /\ UNCHANGED keycodes
  \/ /\ k \notin Modifiers /\ Free = {}
     /\ UNCHANGED <<modifiers, keycodes>>
  \/ /\ k \notin Modifiers /\ Free # {}
     /\ keycodes' = [keycodes EXCEPT ![First(Free)] = k] /\ UNCHANGED modifiers

Add(k) ==
  \/ /\ k \in Modifiers
     /\ modifiers' = modifiers \cup {k} /\ UNCHANGED keycodes
  \/ /\ k \notin Modifiers /\ (Shown(k) \/ Free = {})
     /\ UNCHANGED <<modifiers, keycodes>>
  \/ /\ k \notin Modifiers /\ ~Shown(k) /\ Free # {}
     /\ keycodes' = [keycodes EXCEPT ![First(Free)] = k] /\ UNCHANGED modifiers

(* DefaultKeyboardAPI::set(k, false): the first slot that holds k *)
CanRemove(k) == k \in Modifiers \/ Shown(k)

Remove(k) ==
  \/ /\ k \in Modifiers
     /\ modifiers' = modifiers \ {k} /\ UNCHANGED keycodes
  \/ /\ k \notin Modifiers /\ ~Shown(k)
     /\ UNCHANGED <<modifiers, keycodes>>
  \/ /\ k \notin Modifiers /\ Shown(k)
     /\ keycodes' = [keycodes EXCEPT ![First({i \in Slots : keycodes[i] = k})] = RESERVED]
     /\ UNCHANGED modifiers

(* Mutant: the modifier byte is not cleared. *)
RemoveAllMutant ==
  /\ keycodes' = [i \in Slots |-> RESERVED]
  /\ UNCHANGED modifiers

(* DefaultKeyboardAPI::removeAll *)
RemoveAll ==
  /\ modifiers' = {}
  /\ keycodes' = [i \in Slots |-> RESERVED]

(* Mutant: USB_Send does not look for a free bank. *)
SendReportOverrun ==
  /\ configured /\ wire' = Append(wire, Held) /\ sent' = TRUE
  /\ UNCHANGED <<modifiers, keycodes, lost>>

(* Mutant: USB_Send waits for a free bank without a limit. *)
SendReportBlocks ==
  /\ Len(wire) < Banks
  /\ wire' = Append(wire, Held) /\ sent' = TRUE
  /\ UNCHANGED <<modifiers, keycodes, lost>>

(* BootKeyboard_::send: USB_Send into a free bank, given up at once while   *)
(* the device is not configured and after 250 ms without a free bank; every *)
(* caller ignores what it returns.                                          *)
SendReport ==
  /\ IF configured /\ Len(wire) < Banks
     THEN wire' = Append(wire, Held) /\ sent' = TRUE /\ UNCHANGED lost
     ELSE sent' = FALSE /\ lost' = TRUE /\ UNCHANGED wire
  /\ UNCHANGED <<modifiers, keycodes>>

-----------------------------------------------------------------------------
(* The commands of keyboardProcess as lists of operations. *)

Shift(o, shifted) == IF shifted THEN <<Op(o, LEFT_SHIFT)>> ELSE <<>>

KeyDown(k, shifted) == <<Op("add", k)>> \o Shift("add", shifted) \o <<Send>>
(* Mutants: no report after the key went up; the shift stays down. *)
KeyUpSilent(k, shifted) == <<Op("remove", k)>> \o Shift("remove", shifted)
KeyUpShifted(k, shifted) == <<Op("remove", k)>> \o <<Send>>

KeyUp(k, shifted)   == <<Op("remove", k)>> \o Shift("remove", shifted) \o <<Send>>

(* No report is sent for an empty combination. *)
Comb(o, ks) == IF ks = <<>> THEN <<>> ELSE EachKey(o, ks) \o <<Send>>

Combinations == UNION {[1..n -> AnyKey] : n \in 0..CombLen}

Named(ops) == {ops[i].key : i \in 1..Len(ops)} \ {RESERVED}

Begin(c, ops) ==
  /\ todo = <<>>
  /\ todo' = ops
  /\ command' = [cmd |-> c, keys |-> Named(ops)]
  /\ lost' = FALSE
  /\ UNCHANGED <<modifiers, keycodes, configured, wire, host, sent>>

KB_DOWN  == \E k \in AnyKey, s \in BOOLEAN : Begin("KB_DOWN", KeyDown(k, s))
KB_UP    == \E k \in AnyKey, s \in BOOLEAN : Begin("KB_UP", KeyUp(k, s))
KB_PRESS == \E k \in AnyKey, s \in BOOLEAN :
              Begin("KB_PRESS", KeyDown(k, s) \o KeyUp(k, s))
KB_UP_ALL == Begin("KB_UP_ALL", <<Op("releaseAll", RESERVED)>>)
KB_COMB_DOWN == \E ks \in Combinations : Begin("KB_COMB_DOWN", Comb("add", ks))
KB_COMB_UP   == \E ks \in Combinations : Begin("KB_COMB_UP", Comb("remove", ks))
KB_COMB_PRESS == \E ks \in Combinations :
                   Begin("KB_COMB_PRESS", Comb("add", ks) \o Comb("remove", ks))
(* KB_SET_*_LOCK: BootKeyboard.write, which presses and, if that returned   *)
(* 1, releases.                                                             *)
KB_SET_LOCK == \E k \in LockKeys :
                 Begin("KB_SET_LOCK", <<Op("press", k), Op("release", k)>>)

(* setup(): BootKeyboard.begin() *)
Booted == [cmd |-> "begin", keys |-> {}]

-----------------------------------------------------------------------------
(* One operation of the current command. *)
Do(o, A) ==
  /\ todo # <<>> /\ Head(todo).op = o
  /\ A
  /\ UNCHANGED <<configured, host, command>>

Continue == todo' = Tail(todo)
ThenSend == todo' = <<Send>> \o Tail(todo)

DoAdd == Do("add", Add(Head(todo).key) /\ Continue /\ UNCHANGED <<wire, sent, lost>>)

DoRemove ==
  Do("remove", Remove(Head(todo).key) /\ Continue /\ UNCHANGED <<wire, sent, lost>>)

DoSend == Do("send", SendReport /\ Continue)

(* Mutant: the press of write() does not send a report. *)
DoPressMutant ==
  Do("press", /\ Add(Head(todo).key)
              /\ IF CanAdd(Head(todo).key) THEN Continue ELSE todo' = <<>>
              /\ UNCHANGED <<wire, sent, lost>>)

(* KeyboardAPI::press: nothing else is done if the key found no slot. *)
DoPress ==
  Do("press", /\ Add(Head(todo).key)
              /\ IF CanAdd(Head(todo).key) THEN ThenSend ELSE todo' = <<>>
              /\ UNCHANGED <<wire, sent, lost>>)

(* KeyboardAPI::release *)
DoRelease ==
  Do("release", /\ Remove(Head(todo).key)
                /\ IF CanRemove(Head(todo).key) THEN ThenSend ELSE Continue
                /\ UNCHANGED <<wire, sent, lost>>)

(* KeyboardAPI::releaseAll: a report is sent if there was anything to clear *)
DoReleaseAll ==
  Do("releaseAll", /\ RemoveAll
                   /\ IF Held # {} THEN ThenSend ELSE Continue
                   /\ UNCHANGED <<wire, sent, lost>>)

Operation == DoAdd \/ DoRemove \/ DoSend \/ DoPress \/ DoRelease \/ DoReleaseAll

(* The host takes a report out of the endpoint. *)
HostTakes ==
  /\ wire # <<>>
  /\ host' = Head(wire) /\ wire' = Tail(wire)
  /\ UNCHANGED <<modifiers, keycodes, todo, configured, command, sent, lost>>

(* The device is unplugged or reset: RAM and endpoint are cleared, the host *)
(* drops the keys of a device that left, setup() tries to send a report.    *)
Reset ==
  /\ RemoveAll
  /\ todo' = <<Send>> /\ configured' = FALSE /\ wire' = <<>> /\ host' = {}
  /\ command' = Booted /\ sent' = FALSE /\ lost' = FALSE

(* The host resets the bus: endpoint and configuration are gone, the report *)
(* and the command in loop() are not.                                       *)
BusReset ==
  /\ configured /\ configured' = FALSE
  /\ wire' = <<>> /\ host' = {}
  /\ sent' = FALSE /\ lost' = (lost \/ wire # <<>>)
  /\ UNCHANGED <<modifiers, keycodes, todo, command>>

(* SET_CONFIGURATION *)
Configure ==
  /\ ~configured /\ configured' = TRUE /\ wire' = <<>>
  /\ UNCHANGED <<modifiers, keycodes, todo, host, command, sent, lost>>

Init ==
  /\ modifiers = {}
  /\ keycodes = [i \in Slots |-> RESERVED]
  /\ todo = <<Send>> /\ configured = FALSE /\ wire = <<>> /\ host = {}
  /\ command = Booted /\ sent = FALSE /\ lost = FALSE

Command ==
  \/ KB_DOWN \/ KB_UP \/ KB_PRESS \/ KB_UP_ALL
  \/ KB_COMB_DOWN \/ KB_COMB_UP \/ KB_COMB_PRESS \/ KB_SET_LOCK

Next == Command \/ Operation \/ HostTakes \/ Reset \/ BusReset \/ Configure

Spec == Init /\ [][Next]_vars

-----------------------------------------------------------------------------
(* Properties. *)

Ops == [op : {"add", "remove", "press", "release"}, key : AnyKey]
         \cup [op : {"send", "releaseAll"}, key : {RESERVED}]

Commands == {"begin", "KB_DOWN", "KB_UP", "KB_PRESS", "KB_UP_ALL", "KB_COMB_DOWN",
             "KB_COMB_UP", "KB_COMB_PRESS", "KB_SET_LOCK"}

(* Types: slots hold keys or KEY_RESERVED, and only operations that name a  *)
(* key are given one.                                                       *)
TypeOK ==
  /\ modifiers \subseteq Modifiers
  /\ keycodes \in [Slots -> Keys \cup {RESERVED}]
  /\ todo \in Seq(Ops)
  /\ configured \in BOOLEAN
  /\ wire \in Seq(SUBSET AnyKey)
  /\ Len(wire) <= Banks
  /\ host \subseteq AnyKey
  /\ command \in [cmd : Commands, keys : SUBSET AnyKey]
  /\ sent \in BOOLEAN /\ lost \in BOOLEAN

(* No key ever takes two slots, so that one set(k, false), which clears the *)
(* first slot it finds, always releases the key.                            *)
NoDuplicateKey ==
  \A i, j \in Slots : keycodes[i] = keycodes[j] /\ keycodes[i] # RESERVED => i = j

(* Between commands, once the host has taken what is in the endpoint, it    *)
(* holds exactly the keys of the firmware's report, unless the last report  *)
(* did not get into the endpoint: no command changes the report without     *)
(* sending it.                                                              *)
HostMirrorsReport ==
  todo = <<>> /\ wire = <<>> /\ sent => host = Held

(* A command that presses and releases, be it a key, a combination, a       *)
(* shifted key or a lock key, and whether or not its keys found a slot,     *)
(* leaves none of the keys it names in the report.                          *)
PressLeavesNothing ==
  todo = <<>> /\ command.cmd \in {"KB_PRESS", "KB_COMB_PRESS", "KB_SET_LOCK"}
    => Held \cap command.keys = {}

(* Refinement: the slots and the modifier byte are a set of held keys with  *)
(* room for NumSlots; adding and removing in slots behaves like adding to   *)
(* and removing from that set.                                              *)
Abstract == INSTANCE HeldKeys WITH held <- Held, Capacity <- NumSlots

ImplementsHeldKeys == Abstract!Spec

(* No command keeps loop() busy for ever, even if the host never polls      *)
(* (checked under the fairness of loop() that KeyboardLocks states).        *)
CommandEnds == todo # <<>> ~> todo = <<>>

=============================================================================
