----------------------------- MODULE EepromStore -----------------------------
(***************************************************************************)
(* The records the firmware keeps in EEPROM and the commands that write    *)
(* and read them (FuncProcess, InfoProcess, DataProcess), byte by byte     *)
(* through the address and data registers of the EEPROM, with power loss   *)
(* between any two steps and with the USB interrupt that reads descriptors *)
(* out of the same EEPROM through the same registers (SendDescriptor).     *)
(* The handlers work on the buffer of the mailbox, which is open again     *)
(* before they run: the next packet may overwrite what they still read.    *)
(*                                                                         *)
(* A record is a tag byte (FLAG: valid), a length byte and the value.  A   *)
(* value is the sequence of its bytes up to the first zero; <<>> stands    *)
(* for what a record without a tag means: the built-in string, no          *)
(* password, no data.                                                      *)
(***************************************************************************)
EXTENDS Naturals, Sequences

CONSTANTS
  Settings,     \* device descriptor, product, manufacturer, serial, key
  Described,    \* those of them the USB interrupt reads
  WPwd, RPwd,   \* the records of the two passwords
  TagAddr,      \* address of the tag of each of these records, and of a stray
  ValueLen,     \* length of the value of each of these records
  NumSlots,     \* data records of the lock: 16
  Strays,       \* where other values of dt_index lead: 0 to the passwords, ...
  SlotBase,     \* DATA_DATA_TAG_ADDR(1): 130
  SlotStride,   \* distance between two tags: 32
  SlotLen,      \* DATA_DATA_LEN_MAX: 32
  Size,         \* bytes of EEPROM: 1024
  FLAG,         \* USB_FLAGS: 0x77
  Erased,       \* 0xFF
  Values,       \* the values of settings and passwords the commands carry
  Strings,      \* the data strings they carry
  Overtaken     \* bound: the commands a second packet may overwrite

Fixed == Settings \cup {WPwd, RPwd}
Slots == 1..NumSlots
Records == Fixed \cup Slots
Places == Records \cup Strays
Indexes == Slots \cup Strays     \* dt_index of a packet
Passwords == Values \cup {<<>>}  \* dt_wpwd or dt_rpwd of a packet

(* Mutant: slots counted from 2. *)
TagMutant(r) == IF r \in Slots THEN SlotBase + (r - 2) * SlotStride ELSE TagAddr[r]

Tag(r) == IF r \in Slots THEN SlotBase + (r - 1) * SlotStride ELSE TagAddr[r]
LenOf(r) == IF r \in Indexes THEN SlotLen ELSE ValueLen[r]
Extent(r) == Tag(r) .. (Tag(r) + 1 + LenOf(r))

ASSUME StoreAssumption ==
  /\ Described \subseteq Settings
  /\ WPwd \notin Settings /\ RPwd \notin Settings \cup {WPwd}
  /\ Fixed \cap Indexes = {} /\ Slots \cap Strays = {}
  /\ NumSlots \in Nat /\ SlotBase \in Nat /\ SlotStride \in Nat /\ SlotLen \in Nat
  /\ TagAddr \in [Fixed \cup Strays -> Nat] /\ ValueLen \in [Fixed -> Nat]
  /\ Size \in Nat /\ \A r \in Places : Extent(r) \subseteq 0..(Size - 1)
  /\ FLAG \in Nat \ {0} /\ Erased \in Nat \ {0, FLAG}
  /\ Values \cup Strings \subseteq Seq(Nat \ {0})
  /\ Overtaken \subseteq {"set", "initLock", "write", "read"}

VARIABLES
  mem,       \* the EEPROM
  EEAR,      \* address register
  EEDR,      \* data register
  loaded,    \* the main loop has loaded its address (and data) but not used it
  EEPE,      \* the byte at EEAR is still being programmed (up to 3.4 ms)
  queue,     \* byte accesses of the current command still to be done
  got,       \* bytes the current command has read
  cmd,       \* the current command, with its fields as they are in rawhidreadData
  stage,     \* "idle", "check" (reading the password), "run"
  reply,     \* what the last command answered
  mixed,     \* a packet has overwritten fields of the current command
  presented, \* history: write passwords of the packets of the current WRITE_STR
  want,      \* history: the value each record was last given, TORN in between
  collided   \* history: an interrupt came between loaded and use

registers == <<EEAR, EEDR, loaded, EEPE>>
packet == <<mixed, presented>>
vars == <<mem, registers, queue, got, cmd, stage, reply, packet, want, collided>>

TORN == <<0>>     \* no value: values have no zero byte

Wr(a, b) == [op |-> "write", a |-> a, b |-> b]
Rd(a) == [op |-> "read", a |-> a, b |-> 0]

(* The bytes of a packet field: the string and zeros behind it. *)
Pad(v, n) == [i \in 1..n |-> IF i <= Len(v) THEN v[i] ELSE 0]

(* strcmp and the callers of the library see a value up to its first zero. *)
CString(bytes) ==
  LET n == CHOOSE n \in 0..Len(bytes) :
             /\ \A i \in 1..n : bytes[i] # 0
             /\ n < Len(bytes) => bytes[n + 1] = 0
  IN SubSeq(bytes, 1, n)

(* Tag and length first, then the value. *)
WriteRecord(r, v) ==
  <<Wr(Tag(r), FLAG), Wr(Tag(r) + 1, LenOf(r))>>
    \o [i \in 1..LenOf(r) |-> Wr(Tag(r) + 1 + i, Pad(v, LenOf(r))[i])]
(* Mutant: the literal address 0 of RESTORE_DEVICE_ID in every case. *)
UntagMutant(r) == <<Wr(0, 0), Wr(1, 0)>>
Untag(r) == <<Wr(Tag(r), 0), Wr(Tag(r) + 1, 0)>>
UntagSlots ==
  [i \in 1..2 * NumSlots |-> Wr(Tag((i + 1) \div 2) + ((i + 1) % 2), 0)]

(* Mutants of ReadValue: one byte too many; from the tag on. *)
ReadValueLong(r) == [i \in 1..LenOf(r) + 1 |-> Rd(Tag(r) + 1 + i)]
ReadValueEarly(r) == [i \in 1..LenOf(r) |-> Rd(Tag(r) + i)]

(* The tag word first; the value is read only if the tag is valid. *)
ReadTag(r) == <<Rd(Tag(r)), Rd(Tag(r) + 1)>>
ReadValue(r) == [i \in 1..LenOf(r) |-> Rd(Tag(r) + 1 + i)]

(* The value of a record, from its bytes. *)
Decode(bytes) ==
  IF bytes[1] = FLAG THEN CString(SubSeq(bytes, 3, Len(bytes))) ELSE <<>>

NoReply == [ok |-> FALSE, value |-> <<>>]
Idle == [op |-> "none"]

Init ==
  /\ mem = [a \in 0..(Size - 1) |-> Erased]
  /\ EEAR = 0 /\ EEDR = 0 /\ loaded = FALSE /\ EEPE = FALSE
  /\ queue = <<>> /\ got = <<>> /\ cmd = Idle /\ stage = "idle"
  /\ reply = NoReply
  /\ mixed = FALSE /\ presented = {}
  /\ want = [r \in Records |-> <<>>]
  /\ collided = FALSE

-----------------------------------------------------------------------------
(* The commands. *)

Start(c, ops, st, changed) ==
  /\ stage = "idle"
  /\ cmd' = c /\ queue' = ops /\ stage' = st /\ got' = <<>>
  /\ reply' = NoReply
  /\ mixed' = FALSE
  /\ presented' = IF c.op = "write" THEN {c.pwd} ELSE {}
  /\ want' = [r \in Records |-> IF r \in changed THEN TORN ELSE want[r]]
  /\ UNCHANGED <<mem, registers, collided>>

(* FUNC_SET_*, INIT_KEY *)
SetRecord == \E r \in Settings, v \in Values :
  /\ Len(v) <= LenOf(r)
  /\ Start([op |-> "set", rec |-> r, val |-> v], WriteRecord(r, v), "run", {r})

(* FUNC_RESTORE_*, RESET_KEY *)
RestoreRecord == \E r \in Settings :
  Start([op |-> "restore", rec |-> r], Untag(r), "run", {r})

(* INFO_*; ENC_STR and DEC_STR read the key the same way.  The value of the *)
(* device descriptor is its two id words: the rest of it never changes.     *)
Info == \E r \in Settings :
  Start([op |-> "info", rec |-> r], ReadTag(r), "run", {})

(* INIT_LOCK and RESET_LOCK ask for no password and untag every string. *)
LockRecords(w, p) == WriteRecord(WPwd, w) \o WriteRecord(RPwd, p) \o UntagSlots

InitLock == \E w \in Values, p \in Values :
  /\ Len(w) <= LenOf(WPwd) /\ Len(p) <= LenOf(RPwd)
  /\ Start([op |-> "initLock", wpwd |-> w, rpwd |-> p], LockRecords(w, p),
           "run", {WPwd, RPwd} \cup Slots)

ResetLock ==
  Start([op |-> "resetLock"], Untag(WPwd) \o Untag(RPwd) \o UntagSlots,
        "run", {WPwd, RPwd} \cup Slots)

(* Mutant: the string is written before the password is looked at. *)
WriteStrMutant == \E i \in Slots, v \in Strings, p \in Passwords :
  /\ Len(v) <= SlotLen
  /\ Start([op |-> "write", rec |-> i, val |-> v, pwd |-> p],
           WriteRecord(i, v) \o ReadTag(WPwd), "check", {i})

(* WRITE_STR and READ_STR read the password first.  The firmware takes any  *)
(* index; the packets the host sends for them have one from 1 to 16.        *)
WriteStr == \E i \in Slots, v \in Strings, p \in Passwords :
  /\ Len(v) <= SlotLen
  /\ Start([op |-> "write", rec |-> i, val |-> v, pwd |-> p],
           ReadTag(WPwd), "check", {})

ReadStr == \E i \in Slots, p \in Passwords :
  Start([op |-> "read", rec |-> i, pwd |-> p], ReadTag(RPwd), "check", {})

(* Mutant: both commands check the read password. *)
SourceMutant == IF stage = "run" THEN cmd.rec ELSE RPwd

(* The record the current stage of a command reads. *)
Source ==
  IF stage = "run" THEN cmd.rec ELSE IF cmd.op = "write" THEN WPwd ELSE RPwd

ValueDue == Len(got) = 2 /\ got[1] = FLAG

(* The tag has been read and is valid. *)
TagValid ==
  /\ queue = <<>> /\ ValueDue
  /\ queue' = ReadValue(Source)
  /\ UNCHANGED <<mem, registers, got, cmd, stage, reply, packet, want, collided>>

(* A list of accesses that changes bytes of a record. *)
Reaches(q, r) == \E n \in 1..Len(q) : q[n].op = "write" /\ q[n].a \in Extent(r)

(* The history of a command whose fields are not all of one packet: what it *)
(* writes into is in doubt.                                                 *)
Doubted(q) == [r \in Records |-> IF Reaches(q, r) THEN TORN ELSE want[r]]

Refused == Decode(got) # cmd.pwd

(* The password has been read; it is compared with the one that is in       *)
(* rawhidreadData now.                                                      *)
Check ==
  /\ stage = "check" /\ queue = <<>> /\ ~ValueDue
  /\ got' = <<>>
  /\ \/ /\ Refused
        /\ stage' = "idle" /\ cmd' = Idle /\ reply' = NoReply
        /\ mixed' = FALSE /\ presented' = {}
        /\ UNCHANGED <<queue, want>>
     \/ /\ ~Refused /\ cmd.op = "write"
        /\ stage' = "run" /\ queue' = WriteRecord(cmd.rec, cmd.val)
        /\ want' = IF mixed THEN Doubted(queue') ELSE [want EXCEPT ![cmd.rec] = TORN]
        /\ UNCHANGED <<cmd, reply, packet>>
     \/ /\ ~Refused /\ cmd.op = "read"
        /\ stage' = "run" /\ queue' = ReadTag(cmd.rec)
        /\ UNCHANGED <<cmd, reply, packet, want>>
  /\ UNCHANGED <<mem, registers, collided>>

(* What the records hold once a command has run. *)
Given(r) ==
  CASE cmd.op \in {"set", "write"} /\ cmd.rec = r -> cmd.val
    [] cmd.op = "restore" /\ cmd.rec = r -> <<>>
    [] cmd.op = "initLock" /\ r = WPwd -> cmd.wpwd
    [] cmd.op = "initLock" /\ r = RPwd -> cmd.rpwd
    [] cmd.op = "initLock" /\ r \in Slots -> <<>>
    [] cmd.op = "resetLock" /\ r \in {WPwd, RPwd} \cup Slots -> <<>>
    [] OTHER -> want[r]

(* The reply does not wait for the last byte to be programmed. *)
Finish ==
  /\ stage = "run" /\ queue = <<>> /\ ~ValueDue
  /\ reply' = [ok |-> TRUE,
               value |-> IF cmd.op \in {"info", "read"} THEN Decode(got) ELSE <<>>]
  /\ want' = IF mixed THEN want ELSE [r \in Records |-> Given(r)]
  /\ stage' = "idle" /\ cmd' = Idle /\ got' = <<>>
  /\ mixed' = FALSE /\ presented' = {}
  /\ UNCHANGED <<mem, registers, queue, collided>>

-----------------------------------------------------------------------------
(* The next packet arrives while a command runs: the handler was chosen by  *)
(* the first one, and every field it has not read yet is now the second's,  *)
(* dt_index for the tag, dt_index again for the value, and dt_buf byte by   *)
(* byte as it is written.  Any packet, of another command too, may be it.   *)
(* CommandLink says when it can come: an exchange was given up, or the      *)
(* device is open twice.  SET_DEVICE_ID alone copies its two words before   *)
(* it writes; here its value may change as that of the other settings.      *)
(* Which command is dispatched afterwards is left open.                     *)

(* Only a password that is still to be compared is taken from it.           *)
NewPasswords == IF stage = "check" THEN Passwords ELSE {cmd.pwd}

(* The command with the fields of that packet; the others read no field.    *)
Overlaid ==
  CASE cmd.op = "set" -> [op : {"set"}, rec : {cmd.rec}, val : Values]
    [] cmd.op = "initLock" -> [op : {"initLock"}, wpwd : Values, rpwd : Values]
    [] cmd.op = "write" ->
         [op : {"write"}, rec : Indexes, val : Strings, pwd : NewPasswords]
    [] cmd.op = "read" -> [op : {"read"}, rec : Indexes, pwd : NewPasswords]

Accesses(c) ==
  IF c.op = "initLock" THEN LockRecords(c.wpwd, c.rpwd) ELSE WriteRecord(c.rec, c.val)

(* Of the accesses of a command, the first `settled` have their address     *)
(* already.  Only WRITE_STR takes addresses from the packet, first that of   *)
(* the tag word, then that of the value.                                    *)
Settled(c, done, all) ==
  IF c.op # "write" THEN {0}
  ELSE (IF done = 0 /\ ~loaded THEN {0} ELSE {})
         \cup (IF done < 2 \/ (done = 2 /\ ~loaded) THEN {2} ELSE {})
         \cup (IF done >= 2 THEN {all} ELSE {})

(* The accesses still to be made, with the fields of c.  A byte that is     *)
(* loaded is written as it is.                                              *)
Remaining(new, done, settled) ==
  [n \in 1..Len(queue) |->
     IF loaded /\ n = 1 THEN queue[n]
     ELSE Wr(IF done + n <= settled THEN queue[n].a ELSE new[done + n].a,
             new[done + n].b)]

Rewritten(c) ==
  CASE stage = "run" /\ c.op \in {"set", "initLock", "write"} ->
         LET new == Accesses(c)
             done == Len(new) - Len(queue)
         IN {Remaining(new, done, settled) : settled \in Settled(c, done, Len(new))}
    [] stage = "run" /\ c.op = "read" /\ queue # <<>> /\ got = <<>> /\ ~loaded ->
         {queue, ReadTag(c.rec)}
    [] OTHER -> {queue}

(* The mailbox takes one such packet: it is full then. *)
Overwrite ==
  /\ stage # "idle" /\ cmd.op \in Overtaken /\ ~mixed
  /\ \E c \in Overlaid : \E q \in Rewritten(c) :
       /\ cmd' = c /\ queue' = q
       /\ presented' = IF c.op = "write" THEN presented \cup {c.pwd} ELSE presented
       /\ want' = Doubted(q)
  /\ mixed' = TRUE
  /\ UNCHANGED <<mem, registers, got, stage, reply, collided>>

-----------------------------------------------------------------------------
(* eeprom_read_byte and eeprom_write_byte in the main loop: the registers   *)
(* are loaded with interrupts enabled; the write itself is under cli.       *)

Load ==
  /\ queue # <<>> /\ ~loaded /\ ~EEPE
  /\ loaded' = TRUE
  /\ EEAR' = Head(queue).a
  /\ EEDR' = IF Head(queue).op = "write" THEN Head(queue).b ELSE EEDR
  /\ UNCHANGED <<mem, EEPE, queue, got, cmd, stage, reply, packet, want, collided>>

Access ==
  /\ loaded
  /\ loaded' = FALSE /\ queue' = Tail(queue)
  /\ \/ /\ Head(queue).op = "write"
        /\ mem' = [mem EXCEPT ![EEAR] = EEDR] /\ EEPE' = TRUE
        /\ UNCHANGED <<EEDR, got>>
     \/ /\ Head(queue).op = "read"
        /\ EEDR' = mem[EEAR] /\ got' = Append(got, mem[EEAR])
        /\ UNCHANGED <<mem, EEPE>>
  /\ UNCHANGED <<EEAR, cmd, stage, reply, packet, want, collided>>

(* The hardware has programmed the byte; every access waits for that.       *)
Programmed ==
  /\ EEPE /\ EEPE' = FALSE
  /\ UNCHANGED <<mem, EEAR, EEDR, loaded, queue, got, cmd, stage, reply, packet, want,
                 collided>>

(* USB_COM_vect, GET_DESCRIPTOR: the tag word and, if the tag is valid, the *)
(* value, as far as the length byte says or as the host asks for.  The main *)
(* loop does not run meanwhile; the registers keep what the last read left, *)
(* which matters only if the main loop had loaded them: any other access    *)
(* loads them first.  Bound: one such collision in a behaviour.             *)
GetDescriptor ==
  /\ loaded /\ ~collided
  /\ \E r \in Described :
       \E n \in 0..(IF mem[Tag(r)] = FLAG THEN mem[Tag(r) + 1] ELSE 0) :
         LET last == (Tag(r) + 1 + n) % Size
         IN EEAR' = last /\ EEDR' = mem[last]
  /\ collided' = TRUE
  /\ UNCHANGED <<mem, loaded, EEPE, queue, got, cmd, stage, reply, packet, want>>

(* Power is lost; a byte that was being programmed may be left erased, and  *)
(* the record it belongs to in doubt.                                       *)
PowerLoss ==
  /\ \/ UNCHANGED <<mem, want>>
     \/ /\ EEPE
        /\ mem' = [mem EXCEPT ![EEAR] = Erased]
        /\ want' = [r \in Records |-> IF EEAR \in Extent(r) THEN TORN ELSE want[r]]
  /\ EEAR' = 0 /\ EEDR' = 0 /\ loaded' = FALSE /\ EEPE' = FALSE
  /\ queue' = <<>> /\ got' = <<>> /\ cmd' = Idle /\ stage' = "idle"
  /\ reply' = NoReply
  /\ mixed' = FALSE /\ presented' = {}
  /\ UNCHANGED collided

Next ==
  \/ SetRecord \/ RestoreRecord \/ Info
  \/ InitLock \/ ResetLock \/ WriteStr \/ ReadStr
  \/ TagValid \/ Check \/ Finish \/ Overwrite
  \/ Load \/ Access \/ Programmed \/ GetDescriptor \/ PowerLoss

Spec == Init /\ [][Next]_vars

-----------------------------------------------------------------------------
(* Properties. *)

Bytes(r) == [i \in 1..LenOf(r) + 2 |-> mem[Tag(r) + i - 1]]
Stored(r) == Decode(Bytes(r))

(* Types: the EEPROM and the registers hold bytes at addresses that exist,  *)
(* and queued accesses stay inside the EEPROM.                              *)
TypeOK ==
  /\ mem \in [0..(Size - 1) -> Nat]
  /\ EEAR \in 0..(Size - 1) /\ EEDR \in Nat
  /\ loaded \in BOOLEAN /\ (loaded => queue # <<>>)
  /\ EEPE \in BOOLEAN /\ ~(EEPE /\ loaded)
  /\ \A i \in 1..Len(queue) :
       /\ queue[i].op \in {"read", "write"}
       /\ queue[i].a \in 0..(Size - 1)
       /\ queue[i].b \in Nat
  /\ got \in Seq(Nat)
  /\ stage \in {"idle", "check", "run"}
  /\ stage = "idle" <=> cmd = Idle
  /\ mixed \in BOOLEAN /\ (stage = "idle" => ~mixed)
  /\ presented \subseteq Passwords
  /\ want \in [Records -> Seq(Nat)]
  /\ collided \in BOOLEAN

(* Every setting and password keeps the value it was last given until a     *)
(* command changes it, whatever other commands run, wherever power is lost, *)
(* as long as no interrupt met a half-done access.  In particular no other  *)
(* record, lock slots included, reaches into its bytes.                     *)
SettingsKept ==
  ~collided => \A r \in Fixed : want[r] # TORN => Stored(r) = want[r]

(* An INFO command answers with the value its setting was last given, and   *)
(* not with bytes of another record or of an earlier command.               *)
ReadsTruth ==
  [][stage = "run" /\ stage' = "idle" /\ cmd.op = "info" /\ reply'.ok
       /\ ~collided /\ want[cmd.rec] # TORN
       => reply'.value = want[cmd.rec]]_vars

(* No byte of a string changes but by a WRITE_STR that was handed the write *)
(* password in force, in its own packet or in one that overwrote it, at any *)
(* moment, while it ran; or because INIT_LOCK or RESET_LOCK untags strings, *)
(* which takes no password.  Which index and which bytes that WRITE_STR     *)
(* uses is not said: they may be of a packet without the password.          *)
StringsGuarded ==
  [][\A i \in Slots : \A a \in Extent(i) :
       loaded /\ mem'[a] # mem[a] /\ ~collided =>
         \/ cmd.op = "write" /\ (want[WPwd] = TORN \/ want[WPwd] \in presented)
         \/ cmd.op \in {"initLock", "resetLock"} /\ mem'[a] = 0]_vars

(* eeprom_layout.dot gives every data index a tag, a length and a value of  *)
(* its own: a string stays readable until its own index is written again.   *)
SlotsKept ==
  ~collided => \A i \in Slots : want[i] # TORN => Stored(i) = want[i]

(* avr/eeprom.h asks that accesses from both contexts be protected: the     *)
(* address the main loop has loaded is the one it uses.                     *)
AddressKept == loaded => EEAR = Head(queue).a

=============================================================================
