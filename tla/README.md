# A verification development for the Kylin USB dongle

The repository holds the firmware of an ATmega32U4 dongle and the host library
that drives it. The dongle is a USB keyboard, a mouse and a raw HID device at
once; the library (`hidapi/windows/kylin.c`) sends it 64-byte commands over the
raw HID interface, and the firmware (`keyboardmouse.ino`) presses keys, moves
the pointer, keeps settings and password-protected strings in its EEPROM and
answers every command with one 64-byte reply.

These TLA+ modules state what the command path, the keyboard and mouse reports,
the lock keys, the EEPROM records, the USB core under them and the string cipher
promise, check it with TLC on small instances, and prove the safety of all of
them, and the three refinements, with TLAPS for every value of the constants.
`PROJECT.json` lists runs, theorems, hazards and, for every definition, the
source lines it stands for. Source paths below are relative to `src/`.

## 1. The system

| component | state it keeps | operations | who it talks to |
|---|---|---|---|
| API of the DLL, `hidapi/windows/kylin.c` | `g_handle`, `g_initialized`, `g_mutex`, a static result | open, close, some 80 calls that each send one command through `SendAndWaitIgnoreResult` or `SendAndWaitResult` | any thread of the process; hid.c |
| overlapped transport, `hidapi/windows/hid.c` | one `OVERLAPPED` with one event, `read_pending`, `read_buf` | `hid_write_timeout`, `hid_read_timeout`, open, close | the HID class driver |
| HID class driver (external) | pending reads and writes, a ring of 64 input reports | completes requests, polls the endpoint | device |
| raw HID mailbox, `hid/src/SingleReport/RawHID.*` | `dataAvailable`, a pointer into `rawhidreadData` | `setup` in the USB interrupt, `read`, `write` in `loop()` | host; `loop()` |
| main loop, `keyboardmouse.ino` | `rawhidreadData`, `rawhidwriteData` | `loop`, `keyboardProcess`, `MouseProcess`, `FuncProcess`, `InfoProcess`, `DataProcess` | all of the firmware |
| USB core, `arduino188/USBCore.cpp` | `_usbConfiguration`, endpoint banks, the register `UENUM` | `USB_Send`, `USB_SendSpace`, control requests and descriptors in `USB_COM_vect`, start of frame and bus reset in `USB_GEN_vect` | hardware |
| serial interface, `arduino188/CDC.cpp` | line coding and line state, the boot key word, the watchdog | `Serial.write`, SET_LINE_CODING, SET_CONTROL_LINE_STATE with the 1200 bps touch | USB core, bootloader |
| keyboard, `DefaultKeyboardAPI`, `KeyboardAPI`, `BootKeyboard` | `_keyReport`: modifier byte and six slots | add, remove, press, release, releaseAll, write, send | `keyboardProcess`, USB core, host |
| EEPROM records | tag, length and value of settings, passwords, key and 16 strings | `FuncProcess`, `InfoProcess`, `DataProcess`; the descriptors of `USBCore.cpp` | `loop()` and the USB interrupt |
| mouse, `MouseAPI`, `AbsoluteMouseAPI` | `_buttons` | press, release, releaseAll, click, move, moveTo | `MouseProcess`, USB core, host |
| steering, `MoveTo` of `kylin.c` | rounds, errors and steps of one call | reads the cursor of Windows, `MoveToR` and `MoveToA` | API, host |
| lock keys | `leds` of BootKeyboard; the lock state of the host | output report, `SET_*_LOCK`, `GET_*_LOCK` | host, other keyboards, `keyboardProcess` |
| string cipher, `xxtea-lib.cpp`, `xxtea_core.cpp` | the key record in the EEPROM, the key in RAM | INIT_KEY, RESET_KEY, ENC_STR, DEC_STR | `loop()`, EEPROM |
| module registry, `PluggableUSB.cpp` | list of modules, `lastEp` | plug | USB core |
| other back-ends, `hidapi/libusb`, `linux`, `mac` | per back-end | hidapi | not used by the DLL |
| key names, `common/keymap.c`, `common/map.c` | a map filled once | lookup | API |
| vendored: avr-libc, Arduino core, other HID classes, logging | | | |

What makes it hard: threads of the host share one static result and one
`OVERLAPPED`; a reply does not say which command it answers; timeouts abandon
requests that are still running; the mailbox *is* the command buffer of the
handler; an endpoint has two banks and `USB_Send` gives up; the device can be
reset, re-enumerated or lose power between any two steps; the USB interrupts use
the EEPROM registers and the endpoint register of the main loop; records are
written byte by byte; the lock state is the host's and comes back in a report of
its own.

What makes each part correct:

* command link: the verdict or reply a call returns is about its own command; a
  success was really executed; nothing is executed twice or replaced on the way;
  every call returns;
* keyboard: slots behave like a bounded set of keys; the host ends up with the
  keys the firmware holds; a press leaves nothing behind; a command ends;
* mouse: the host shows the buttons the firmware holds; `MouseUpAll` releases them
  all; a `MoveTo` that ends with its absolute move leaves the pointer at its
  goal or one column to the left of it, and every `MoveTo` ends;
* lock keys: a `Set*Lock` toggles its lock exactly once; `Get*Lock` tells what the
  host keeps;
* USB core: bytes keep their order and reports stay whole whatever interrupts the
  main loop; a send ends; a touch of the boot key is taken back completely;
* cipher: a string comes back under the record it was enciphered with, and fits
  the reply;
* EEPROM: a record keeps its value until it is written again, is read back as it
  was written, survives other commands and power loss; a string changes only under
  a command that was handed the password, or when the lock is initialised or reset.

## 2. The modules

| module | stands for |
|---|---|
| `CommandLink` | API threads, transport, driver, mailbox, `loop()` and IN endpoint |
| `CommandService` | what the link promises its callers (abstract) |
| `CommandLinkProofs` | theorems about `CommandLink` |
| `KeyReport` | keyboard report, keyboard commands, endpoint, keys of the host |
| `HeldKeys` | a bounded set of held keys (abstract) |
| `KeyReportProofs` | theorems about `KeyReport` |
| `KeyboardLocks` | composes `KeyReport` with the lock state of the host, the LED report and another keyboard |
| `KeyboardLocksProofs` | theorems about `KeyboardLocks`; those of `KeyReport` carry over |
| `MouseReport` | mouse buttons and reports, mouse commands, endpoint, pointer and buttons of the host, `MoveTo` |
| `MouseReportProofs` | theorems about `MouseReport` |
| `EepromStore` | EEPROM records, registers, commands, the USB interrupt, power loss |
| `EepromStoreProofs` | theorems about `EepromStore` |
| `UsbCore` | `USB_Send` access by access, the two USB interrupts, the 1200 bps touch, RESTART and the watchdog |
| `InEndpoints` | a byte stream per endpoint, cut by resets (abstract) |
| `UsbCoreProofs` | theorems about `UsbCore` |
| `Xxtea` | the cipher on words of any width: rounds, key, bytes, hexadecimal digits |
| `StringCipher` | key record, key in RAM, string commands, restarts and torn keys |
| `StringCipherProofs` | theorems about `Xxtea` and `StringCipher` |
| `Iterations` | lemmas about recursive functions on the natural numbers, for the proofs |
| `MCCommandLink`, `MCKeyReport`, `MCKeyboardLocks`, `MCMouseReport`, `MCEepromStore`, `MCUsbCore`, `MCStringCipher` | instances for TLC |

`CommandLink`, `KeyReport` and `MouseReport` see the endpoint as a sequence of
whole packets that may be full. `UsbCore` is why that is enough: with every
access of the registers a step of its own, the endpoints still are streams
(`ImplementsStreams`) of whole reports (`ReportsWhole`).

Definitions whose comment begins with *Mutant* are faulty variants of the
definition that follows them. They are part of no specification: putting one in
place of the original shows that the property named for it in `PROJECT.json`
notices the fault.

### CommandLink

`pc[t]` is the place of thread `t` inside one call: `clear` (memset of the static
result, before the lock), `enter`, `write`, `waitWrite`, `read`, `waitRead`,
`leave`, `return`. A command is its serial number and the reply to it the same
number; 0 is a cleared buffer. `kind` tells `SendAndWaitIgnoreResult`
("verdict", reads into the static result `Shared`) from `SendAndWaitResult`
("value", reads into the caller's buffer). `ev` and `ol` are the one event and
the completion status of the one `OVERLAPPED` of `struct hid_device_`, shared by
reads and writes as in the code. `dataAvailable` and `rawhidreadData` are the
mailbox; `fw` is the place of `loop()`.

`FwRead` re-opens the mailbox before the handler runs, and the handler works on
the mailbox itself: `FwExecute` chooses between the command dispatched on and the
one now in the buffer. `USB_Send` is two steps, the reply and the empty packet
that follows a full bank; each may find no bank and give up.

`Call` does not ask whether the device is open: the API functions do not, only
`CheckDevice` tells. `Die` is the end of the process, by a kill or by the NULL handle
a call meets when the device was never opened or another thread has closed it. `DeviceReset` is
unplugging, a brown-out or the watchdog reset after RESTART (whose steps are in `UsbCore`); `BusReset` empties
the endpoints and the configuration and leaves the firmware running, with the
handle surviving or not, as the driver stack decides.

`abandoned` is a history variable: an exchange was given up (a 3 s timeout, a
killed process, a bus reset with something left in the device) and its remains
may still answer. Re-opening a quiet device clears it. The safety properties of the link are
stated for `~abandoned`: with it they are false, since nothing in a reply
identifies its command. The first of the findings below is what happens then.

### KeyReport

A keyboard command is a list of operations on the report (`todo`), executed one
by one; the host takes reports between any two of them. `Add` and `Remove` are
`DefaultKeyboardAPI::set` slot by slot, `SendReport` is `USB_Send` with its two
ways to fail. `DoPress` and `DoRelease` are the operations of `write`, used for
the lock keys, which stop when no slot is free. `sent` and `lost` are history:
whether the last report got out, and whether one of the current command did not.

### KeyboardLocks

The module adds to every action of `KeyReport` what it does to the lock keys, and
the actions of their own: `OtherKeyboard` toggles a lock elsewhere, `LedReport` is
`BootKeyboard_::setup` with the output report, which may also fail or come late.
`HostTakesLocks` toggles the locks whose keys the report presses and the one
before it did not. `Settled` is the lock state the host gets to with the reports
still in the endpoint. `goal` is history: the lock state the last `SET_*_LOCK` is
to bring about, computed when the command starts and followed by what other
keyboards toggle meanwhile.

### MouseReport

As in `KeyReport`, a mouse command is a list of operations (`todo`) and the host
takes reports between any two. `Set` is `MouseAPI::buttons`, which sends only on a
change; `DoHold` is one half of `click`, `DoReleaseAll` sends always. The reports
go through the HID class of the Arduino core, which is not in the repository; it
calls the `USB_Send` of `USBCore.cpp`, once for the report id and once for the data.
That a report is in the endpoint whole or not at all is an assumption about that
library. `Unit` is for goals on the screen: the cast to `short` stands before the
bound (`kylin.c:1519-1520`), and units of goals far off the screen would wrap. The
reply of a `MoveToR` that timed out is dropped here; that the link may hand it to
the next call (`hid.c:787`) belongs to `CommandLink`.

`at` is the place of `MoveTo`: `look` (the top of the loop, where the cursor is
read and the round computed), `move` and `wait` (a `MoveToR` to be called, and
under way), `final` and `last` (the same for the `MoveToA` at the end). The other
variables of `moveVars` are its locals; `bulk` tells the `while` of a far round,
the only place where errors are counted. A call may fail before its command
reached the device or after it, so a failed step may still move the pointer later.
`Units` is the conversion of `MoveToA` to the axes of 0..32767, and `Pixels` what
the host makes of it. `Gains` is the pointer speed of Windows: it does not move
the pointer by the distance it was sent. `due` is history: the goal of a `MoveTo`
that is to be, or was, answered with 0, while nothing after it moved the pointer
or lost its report. `Reached` allows one column to the left of the goal: with
truncation on both sides many columns are missed by one (every second one on a
screen 1920 wide), while the 2 added to the rows makes them exact. `sent` says whether the last report of `Mouse` got out.

### EepromStore

`mem` is the EEPROM, `EEAR` and `EEDR` its registers. Every byte access of the
main loop is `Load` (registers, with interrupts enabled) and `Access`; a written
byte is being programmed until `Programmed`. `GetDescriptor` is the USB interrupt
reading a record between the two, `PowerLoss` may corrupt the byte being
programmed. `want` is history: the value each record was last given, `TORN` from
the first byte of a command that changes it to its end, and after a power loss
that spoiled one of its bytes. `EEPROM.put`, which some commands use, skips bytes
that already have their value; the model writes them, which only adds chances of
a torn byte.

The handlers read their fields from `rawhidreadData`, which the next packet may
overwrite while they run (`keyboardmouse.ino:256`). `Overwrite` is that packet: `cmd`
gets fields of any values, and the accesses still queued are computed again from them
as far as the handler has not read the field yet (`Rewritten`). WRITE_STR takes the
address of the tag word and that of the value from `dt_index` separately and the
value byte by byte, so `Settled` gives every split: tag at one index, value at
another, bytes of two packets. The firmware does not check `dt_index`: `Strays` are
indexes other than 1 to 16, such as 0, which leads to the passwords. `mixed` says that
the fields are not of one packet; the records such a command writes into are `TORN`
(`Doubted`). `presented` is history: the write passwords handed to the WRITE_STR that
runs. The device descriptor is special in two ways the model leaves out, because
only its two id words ever change: INFO_DEVICE_ID reads those two words only
(785-801), and SET_DEVICE_ID copies them before it writes.

`StringsGuarded` says of every byte of a string that it changes only while a
WRITE_STR runs that was handed the write password in force (its own packet's or
that of one that overwrote it), or because INIT_LOCK or RESET_LOCK writes a zero,
which they do without any password. It does not say that index and bytes came in the
packet with the password: after an `Overwrite` they need not.

### UsbCore

A byte is the send it belongs to and its place in it. `uenum` is the register that
selects an endpoint: every access goes to the endpoint it names at that moment,
and every interrupt moves it. `pc` is the place of `loop()` in `USB_Send`: `space`
(before `USB_SendSpace` locks), `count` (inside it), `load` and `fill` (the second
critical section). `LockEP` clears `irq`, and interrupts are guarded by it, so the
model shows what the two critical sections are needed for and what may happen
between them: `StartOfFrame` hands the bank to the controller, `BusReset` and
`SetConfiguration` empty it, and `Fill` finds another bank than the one counted
(`FillRefused`, or a chunk that is put into a fresh bank).

`word` is the word at the boot key's address, `backup` the place an old bootloader
has for it, `WDTCSR` and `wdtcsr_save` the watchdog; `Touch` and `Cancel` are the
two branches of SET_CONTROL_LINE_STATE. `SoftReset` spins until `WatchdogBites`.
`again` is history: a touch was repeated or came before a RESTART; then the saved
watchdog is not the one of before the touch, see section 5.

### Xxtea and StringCipher

`Xxtea` translates `dtea_fn1` with words of `WordBytes` bytes, the packing of bytes
into words and the hexadecimal digits. The loops of the code are recursive functions
here, `xor`, bit by bit, included: unlike recursive operators they can be proved about.
A pass over the words is one `CodeWord` after the other, each of which sees what the
ones before it have changed.
`StringCipher` keeps the key record (valid tag, bytes), what INIT_KEY has still to
write of it, and the key in RAM, which an empty key does not replace. `Restart`
clears the RAM and leaves a half-written key half written. `made` is history: the
last string enciphered and the record it was enciphered under.

## 3. Runs

| run | question | instance | what it shows |
|---|---|---|---|
| `CommandLink` | who gets which reply; does the link implement `CommandService` | 2 threads, 2 calls, ring 2, 2 banks; 157 000 states | `OneInFlight`, `OwnAnswer`, `SuccessWasExecuted`, `ExecutesOnce` hold; it does, with `applied <- executed`, `lossy <- abandoned` |
| `CommandLinkOneThread` | verdicts and termination | 1 thread, 3 calls; 182 000 states | `OwnVerdict`; `CallReturns` under `FairSpec` |
| `CommandLinkPacket` | did a successful read read a packet | 1 thread, 3 calls | no (finding 1) |
| `KeyReport` | report, host and abstract set | 3 keys (one a lock key), shift, 2 slots, 1 bank, combinations of up to 2; 604 000 states | four invariants hold, and the slots implement `HeldKeys` |
| `KeyboardLocks` | lock keys of host and device; does a command end | 2 keys, one a lock key, shift, 1 slot, 1 bank; 335 000 states | `SetLockToggles`, `GetTellsLock`; `CommandEnds` even if the host never polls |
| `MouseReport` | buttons, pointer and `MoveTo` | 1 button, 3 by 2 pixels, 2 goals, steps of 1 pixel, speeds 1 and 2, 1 bank; 707 000 states | buttons mirrored and released, arrivals; `MoveToEnds` under `FairSpec` |
| `EepromSettings` | are settings kept and read back | 1 setting of 2 bytes, 2 passwords of 1, SET and INIT_LOCK overwritten; 1.2 M states | yes before the first collision |
| `EepromLock` | do the passwords survive, and who changes a string | 2 passwords, 1 string, WRITE_STR overwritten, the stray index 0; 5.0 M states | `SettingsKept`; a string changes only under a WRITE_STR that was handed the password, or by INIT_LOCK and RESET_LOCK |
| `EepromSlots` | are strings kept | 2 strings at a stride equal to their length | no (finding 2) |
| `EepromInterrupt` | is the address kept over an interrupt | 2 settings | no (finding 3) |
| `UsbCore` | streams, whole reports, touch and restart | 2 report endpoints and the serial one, banks of 2 bytes, 2 sends, 3 requests with and without DTR, 1 bus reset; 258 000 states | nine properties hold, `SendEnds` and `RestartHappens` under `FairSpec` |
| `StringCipher` | do strings come back and fit | words and keys of 2 bytes, texts of up to 8; 3 300 states | yes |

**Bounds.** `MaxCalls` bounds the calls of all threads together: two with two
threads have one thread in the driver while the other clears the shared result or
waits for the lock, or one call that meets the remains of another; the run of
one thread has three, for one that follows after re-opening. What the run
`CommandLink` checks, its refinement excepted, is proved for every number of calls
and threads. `RingSize` 2 stands for 64 buffers: at most one unclaimed reply
is ever wanted, two let the ring drop one. `Banks` is 2 as in the code, 1 in the
runs of the reports so that a full endpoint is common. `NumSlots` 2 with three keys
has the overflow of six slots by a seventh key; `KeyboardLocks` has one slot, which
another key may hold when the lock key wants it. `CombLen` bounds combinations (6
in the packet). In `MouseReport` the screen has two columns to the right of the
left goal, so that there are far rounds (of `PIXEL` 1, 30 in the code), near rounds
from several sides and arrivals, and a speed of 2 overshoots. `AMax` 7 gives the
axes so few units per pixel that the right goal is missed by the one column that
`Reached` allows, as 32767 units do on a screen 1920 wide, and the assumption
`2 * Height <= AMax` is the one under which rows are exact. `RMax` 1 is exceeded by
the moves the callers ask for. The three rounds and three errors of `MoveTo` are
those of the code. Values in the EEPROM are one to three bytes instead of 8 to 32:
what matters is one byte, a shorter string with a zero behind it, and a value that
fills its record. One collision with the interrupt is enough for a counterexample,
and the properties that hold are about the time before it: `BeforeCollision` stops
the search there. `Overtaken` names the commands a second packet may overwrite in a
run, one packet each: the mailbox is full then. The one stray is index 0, one stride
before the first string: it leads to the read password here, to the key and both
passwords in the firmware. An overwritten READ_STR changes nothing but what is read;
it is in `EepromSlots` and in the proofs.

In `UsbCore`, banks of 2 bytes with reports of 1 and 2 bytes and writes of up to 3
have a report that fills its bank and needs an empty packet behind it, one that does
not, and a write that spans banks. Two sends meet each other in an endpoint, three
requests are touch, cancellation and one more, one bus reset can be followed by
any number of configurations, which empty the endpoints as well. `Timeout` 2 stands
for 250 attempts. The safety properties of this run and its refinement are
proved for all bounds. In `StringCipher` the words have two bytes instead of four, which leaves
`dtea_fn1` all of its rounds and shifts but has half the digits; `MaxText` 8 and
`ReplyBytes` 17 keep the proportion of the code: a full text makes digits that fill
the reply up to its NUL. Its three invariants are proved for words of any number of
bytes, the four of the code among them.

The threads of `CommandLink` and two ordinary keys of `KeyReport` are
interchangeable; these runs state no liveness and use symmetry.

`OwnVerdict` is checked, and proved, for one thread only. With two it is false: the
static result is cleared and looked at outside the critical section.

**Fairness.** `CallReturns` assumes weak fairness of what one thread does inside
a call, and nothing of driver or device: threads are scheduled, and both waits
end by themselves after 3 s (`hid.c:734-742`, `787-795`), so a step of a waiting
thread is always enabled. The critical section needs no more, because calls are
bounded and only one other thread can take it. `CommandEnds` assumes weak
fairness of the main loop, whose `USB_Send` gives up after 250 ms; the host need
neither poll nor send LEDs. `MoveToEnds` assumes weak fairness of the thread inside
`MoveTo`, whose calls end after 3 s with a failure (`MoveFails`), and nothing of
device or host. `SendEnds` assumes weak fairness of `USB_Send` in `loop()`: the
interrupts return, and the host sends finitely many resets. `RestartHappens` assumes
in addition that an armed watchdog bites, which is what the hardware does when
nobody resets it; the firmware never does.

## 4. What is proved

Each module's theorems hold for all values of its constants under its named
assumption; what a theorem assumes beyond that stands before its `PROVE`.

**`CommandLinkProofs`** (`LinkAssumption`): `TypeCorrect`; `SingleExchange`
(`OneInFlight`); `RepliesMatch` (`OwnAnswer`); `SuccessIsReal`
(`SuccessWasExecuted`); `ExecutedOnce` (`ExecutesOnce`); `LinkImplementsService`
(`ImplementsService`); and, for a program with one thread, `VerdictIsOwn`
(`OwnVerdict`).

`OwnAnswer` alone is not inductive: that the buffer holds the right reply depends
on what was in the driver when the read began. `OneInFlight` says where the one
command or its reply is for each place of the owner of the critical section
(`Exchange`): in a write request, in the mailbox, in the command buffer, under
construction, in a bank, in the ring, or in `read_buf`. It needs three more facts:
`LockHeld` (threads inside the section own it), `Fresh` (serial numbers in use are
not larger than `issued`, distinct between threads, and not executed before the
firmware gets them) and `DeadIsQuiet` (behind a dead handle there is neither a
request nor, unless abandoned, anything on the device), with `EndpointEmpty` for a
device that is not configured. `IInv` is their conjunction; each action keeps each
conjunct, one lemma per group. `ExecutedOnce` follows from `OneInFlight`: when
`loop()` executes, the device holds exactly the command of the owner, not yet
executed. `VerdictKept` carries the reply in the shared result from `EndRead` to
the return, which only one thread can rely on. The refinement goes action by
action: what `loop()` executes is the command of the one call inside the critical
section, so `FwExecute` is its `Apply`; the ends of reads and writes are `Finish`
because of `SuccessWasExecuted`, the timeouts `GiveUp`, a bus reset that finds
something in the device `Lose`, which has a waiting call by `OneInFlight`; everything
else that is not a start, a return or the end of the process is invisible to callers.

**`KeyReportProofs`** (`KeyAssumption`): `TypeCorrect`, `KeysTakeOneSlot`
(`NoDuplicateKey`), `HostAgrees` (`HostMirrorsReport`), `PressReleases`
(`PressLeavesNothing`) and `ReportImplementsHeldKeys` (`ImplementsHeldKeys`). The scan for a present key before a free slot is what keeps
keys unique. That host and firmware agree needs to know, at every place of a
command, whether the report has changed since the last one sent. That a press
leaves nothing needs an invariant of the operations still to do: every key of the
command has a removal to come that no addition of it follows, or it is gone with no
addition to come. The refinement needs that a key has at most one slot: then a free
slot exists exactly when fewer than `NumSlots` keys are held (a choice of one slot
per key is an injection), and clearing the first slot of a key releases it.

**`KeyboardLocksProofs`**: `LocksWatchReport` shows that the composition is
`KeyReport` for whoever looks at the keyboard alone, so its theorems carry over.
`LocksTypeCorrect`, `GetIsTrue` (`GetTellsLock`) and `SetToggles` (`SetLockToggles`),
whose invariant says for each place of a `SET_*_LOCK` how far the lock is from its
goal: the press not yet sent, in the endpoint, or taken. The parity of presses in
the endpoint is followed through both its ends.

**`UsbCoreProofs`** (`CoreAssumption`): `TypeCorrect`; `OpenPortHasNoKey`
(`TouchUndone`), `KeyHasWatchdog` (`KeyIsArmed`) and `OpenPortDisarms`
(`TouchCancelled`) from `LineInv`; `WholeReports` (`ReportsWhole`) and `SerialHasNoGap`
(`NoGap`); and `EndpointsAreStreams` (`ImplementsStreams`). `EndpointInv` holds the arguments about the critical sections: with
interrupts disabled `UENUM` is the endpoint of the job, and a chunk counted in the
first section fits whatever bank the second one finds, because a bank can only have
got emptier. `ReportInv` adds that a report under way is still to be filled in
as a whole, by one chunk, or is in the endpoint with only its empty packet to come; `GapInv` that what is left of a write
goes on where the loaded bytes end. The refinement rests on `StreamInv`: what was
loaded into an endpoint is what its host got, what is queued, and what is in the open
bank, one behind the other. A `Fill` is then a `Write` of the stream, a bank the host
takes a `Read` when it is not empty, a configuration or a reset an `Empty`, and every
other step leaves the stream alone. The flattening of packets is a fold of the
community modules; `PartsExist` and `FlattenIs` give it as the last of its partial
results, from which its laws (`FlattenAppend`, `FlattenHead`) follow.

**`MouseReportProofs`** (`MouseAssumption`): `TypeCorrect`; `HostAgrees`
(`HostMirrorsButtons`) and `UpAllWorks` (`UpAllReleases`) from `MirrorInv`;
`MoveToReaches` (`MoveToArrives`) from `ArriveInv`: once a `MoveTo` is due, the last
report that moves the pointer is its absolute one, and the arithmetic of
`Units` and `Pixels` brings it to the row and to the column or the one before on
every screen with `Width <= AMax` and `2 * Height <= AMax`.

**`EepromStoreProofs`** (`StoreAssumption`): `TypeCorrect`; `RecordsKept`
(`SettingsKept`), `ReadsTrue` (`ReadsTruth`) and `StringsStayGuarded`
(`StringsGuarded`), which assume `Apart`: no setting or password overlaps another
record, whereas the slots of the lock may overlap each other. `InOrder`, one record
behind the other and the slots behind them all, is the layout of `USBCore.h:135-149`
and `keyboardmouse.ino:172-186`; it implies `Apart` (`InOrderApart`), whatever the
stride, and `LayoutKept` is `SettingsKept` for it. `StoreInv` has
three parts besides the types. `KeptInv`, for each record that overlaps none: while
no command changes it, it holds its value and no queued write reaches it; while one
does, every byte the command gives it is in its place or still queued, and no other
write of the queue reaches that byte. `RegisterInv`: before the first collision, loaded
registers hold the head of the queue. `ReadInv`: what was read is the beginning of
the record it was read from, and what is queued the rest of it. A power loss empties
the queue and spoils at most the byte being programmed, and the records it meets are
`TORN`. That a stored value is read back as it was given rests on the zero behind a
shorter one (`CStringOfPad`). A record an overwritten command still writes into is
`TORN` from then on (`DoubtedTyped`), one it had been writing stays so because its
`Finish` gives no values (`OverwriteKept`). `GuardInv` carries `StringsStayGuarded`: the queue of a SET or RESTORE
stays in its own record, INIT_LOCK and RESET_LOCK queue only zeros outside the
passwords, and a WRITE_STR that runs was handed the password in force. That the
comparison was made with the stored password, and that it stays in force while the
string is written, rests on `KeptInv` and `ReadInv` for `WPwd`; a stray index that
leads into it makes it `TORN`.

**`StringCipherProofs`** (`WordAssumption`, `CipherAssumption`): `DecodeUndoesCode`;
`TypeCorrect`; `StringsComeBack` (`RoundTrip`); `RepliesFit` (`ReplyFits`). A step of
`dtea_fn1` adds to one word what depends on the others only (`MixedTyped`), so the same
step backwards subtracts the same (`WordUndone`); steps that are undone one by one, the
last one first, are all undone (`AllUndone`), which gives a pass and then the rounds.
Around it, the bytes of a word are the bytes it was made of and the other way round
(`BytesComeBack`, `WordComesBack`), hence the buffers (`BytesOfBuffer`,
`BufferOfBytes`); hex digits read back as the bytes (`HexTyped`); and the zeros that
fill up the last word end the C string where the text ended (`CStringOfBuffer`).
`CipherInv` holds the rest: unless the record has no key, the last cipher string was
made with the words of that record's key, and the last reply with those of the record
now. If it has none, RAM may still hold another key, of which nothing is known but
that it is no longer than `KeyBytes`. `CipherAssumption` asks of the limits what the
code's have: the longest text is whole words, below `MaxData`, and its digits with a
NUL fit the reply.

**`Iterations`** has no assumption: least elements and induction as theorems about
sets of numbers, from well-founded induction; `Iterated`, that a recursion by steps
`G[1]`, `G[2]`, ... exists as a function; `IterationTyped`, that it stays in the set of
its start; and `AllUndone`. Because they speak of sets and functions, they can be cited
where an induction scheme over formulas could not.

**Only model-checked.** The liveness properties (`CallReturns`, `CommandEnds`,
`MoveToEnds`, `SendEnds`, `RestartHappens`): liveness under fairness and `ENABLED`
are out of the reach of TLAPS. `StringCipher`'s exclusive or is a recursive function in
`Xxtea`; only its range is used by the proofs, and that it is bit by bit what the name
says is plain from its definition, not a theorem.

## 5. Findings

1. `CommandLinkPacket`: after a read that timed out, the next read can return
   success with the cleared buffer, completed by the event of the write in between.
   `hidapi.h` says it returns 0 without a packet.
2. `EepromSlots`: strings are 34 bytes at a distance of 32; writing one destroys
   the last bytes of, or the tag of, its neighbour. The layout in
   `res/eeprom_layout.dot` has them one behind the other.
3. `EepromInterrupt`: a descriptor read in the USB interrupt moves the address an
   access of the main loop has loaded. `avr/eeprom.h` demands protection there.

`PROJECT.json` quotes the comment or document each of them contradicts. Facts met
on the way that no line of the repository clearly contradicts, or that the
properties above exclude by a premise:

* a write, too, can be taken for done by the event of an older read (`hid.c:744-746`);
* KeyUpAll sends nothing when the firmware's report is already empty
  (`KeyboardAPI.hpp:91`), though the host may still hold a key whose release was
  given up; MouseUpAll always sends;
* a `SET_*_LOCK` whose press was given up toggles nothing; a press given up earlier
  may toggle together with the lock key of a later command;
* RESET_KEY clears the record only: the library keeps the old key until a restart
  (`xxtea-lib.cpp:156`);
* strings of a single word are left unenciphered by `dtea_fn1`; "-FAIL-" is
  told in band;
* a repeated 1200 bps touch saves the armed watchdog as the state to restore
  (`CDC.cpp:138-143`), so that its cancellation does not disarm it; a touch pending
  when RESTART spins can be cancelled into a spin without a watchdog;
* `MoveToA` ends one column short of many columns (`kylin.c:1517-1520`), and `MoveTo`
  stops at a reading of the goal with its own reports still under way;
* `ResetMouseWheelLines` and `ResetMouseWheelChars` set the pointer speed
  (`kylin.c:1661`); KB_GET_NUM_LOCK answers with the sub-command of KB_GET_CAPS_LOCK
  (`keyboardmouse.ino:422`); `DLL_PROCESS_DETACH` leaves a critical section it did
  not enter (`dllmain.c:44`).

## 6. Not modelled

* the data stages of control transfers, string descriptors (whose length byte may
  overflow, `USBCore.cpp:423`), suspend and remote wake-up;
* reading from the serial port and its break: the firmware uses neither;
* module registry: `plug()` runs three times before `setup()`, the modules fit the
  endpoints, and the list never changes again;
* `hid_open_path`'s enumeration, feature reports, Windows settings: calls into
  the system without state of their own;
* the wheel (a wheel report is a move by nothing) and the buttons of
  `AbsoluteMouse`, which the firmware does not use; another program that moves the
  pointer while `MoveTo` runs;
* a SET_REPORT that overwrites the keyboard report (`BootKeyboard.cpp:177-182`):
  no host in the repository sends one;
* which packet the index and the bytes of an overwritten WRITE_STR belong to, and
  an index whose record would run over the end of the EEPROM (28 + 32k);
* memory of a write that timed out with the caller's stack buffer, and strings in
  static buffers after the call: outside what the source defines;
* the libusb reader thread, the linux and mac back-ends: stock hidapi, not used by
  the DLL of this repository;
* formatting, logging, key names; vendored code other than the EEPROM routines and
  the cipher: nearly all of the lines of the repository are register headers and
  sources of avr-libc and the Arduino core.

## 7. What is left

The order was: command link and its service, keyboard report, EEPROM store, mouse,
lock keys, USB core, cipher, and the proofs of all of them. What could follow:

1. `UsbCore` with the data stage of control transfers and the string descriptors;
2. for the loops of the firmware and of `MoveTo`, a bound that every step of the loop
   lowers, as an action property: the part of the liveness properties that is within
   reach of a proof.

## 8. Running it

    tlc -workers 2 -config CommandLink.cfg MCCommandLink.tla
    tlapm CommandLinkProofs.tla

Each `.cfg` belongs to the MC module named in `PROJECT.json`.
