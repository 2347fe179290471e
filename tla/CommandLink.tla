----------------------------- MODULE CommandLink -----------------------------
(***************************************************************************)
(* The command link of the dongle: API threads of the host DLL (kylin.c)   *)
(* serialised by one critical section, the overlapped HID transport of the *)
(* Windows back-end (windows/hid.c), the HID class driver underneath it,   *)
(* the one-report mailbox of RawHID and the firmware's loop().             *)
(*                                                                         *)
(* A command is a natural number, its serial number; the reply to a        *)
(* command is the same number.  0 is the all-zero buffer that memset       *)
(* leaves behind: no device ever sent it.  Type, sub-command and payload   *)
(* are abstracted to "which command is this" and, for the error byte of    *)
(* the reply, to the set Refused.                                          *)
(***************************************************************************)
EXTENDS Naturals, Sequences, FiniteSets

CONSTANTS
  Threads,     \* the threads of the process that call the API
  Shared,      \* the static result of SendAndWaitIgnoreResult
  NoThread,    \* owner of the free critical section
  Refused,     \* commands the firmware answers with error = 1
  RingSize,    \* HidD_SetNumInputBuffers(..., 64)
  Banks,       \* banks of the IN endpoint (EP_DOUBLE_64: 2)
  MaxCalls     \* bound on the number of API calls

ASSUME LinkAssumption ==
  /\ Shared \notin Threads
  /\ NoThread \notin Threads
  /\ Refused \subseteq Nat \ {0}
  /\ RingSize \in Nat \ {0}
  /\ Banks \in Nat \ {0}
  /\ MaxCalls \in Nat

Zero == 0      \* an input buffer cleared by memset
Zlp == 0       \* a zero-length packet in the IN endpoint

VARIABLES
  \* kylin.c
  g_mutex,         \* owner of the critical section
  pc,              \* where each thread is in SendAndWait*
  kind,            \* "verdict": SendAndWaitIgnoreResult, "value": SendAndWaitResult
  req,             \* the command of the current (or last) call of each thread
  issued,          \* number of commands issued so far
  result,          \* the static result and each thread's own result buffer
  okay,            \* ret > 0 after the transport calls
  handle,          \* g_handle: "closed" (NULL), "open", "dead" (device is gone)
  \* struct hid_device_
  ev,              \* the manual-reset event of the one OVERLAPPED
  ol,              \* its completion status: "idle", "pending", "done", "failed"
  read_pending,
  read_buf,
  \* HID class driver
  readIrps,        \* read requests the driver holds
  writeIrps,       \* write requests the driver holds, oldest first
  ring,            \* input reports no read request has claimed
  \* firmware
  configured,      \* _usbConfiguration: the host has enumerated the device
  dataAvailable,   \* mailbox is full
  rawhidreadData,  \* mailbox, which is also the command buffer
  fw,              \* loop(): "poll", "exec", "send", "zlp"
  begun,           \* the command loop() dispatched on
  rawhidwriteData, \* the reply under construction
  banks,           \* packets in the IN endpoint
  \* history
  executed,        \* commands the firmware has carried out
  abandoned        \* an exchange was given up and its remains may still be around

hostVars == <<g_mutex, pc, kind, req, issued, result, okay>>
hidVars  == <<ev, ol, read_pending, read_buf>>
drvVars  == <<readIrps, writeIrps, ring>>
devVars  == <<configured, dataAvailable, rawhidreadData, fw, begun, rawhidwriteData,
              banks>>
vars == <<hostVars, handle, hidVars, drvVars, devVars, executed, abandoned>>

Slots == Threads \cup {Shared}

(* Mutant: every call reads into a buffer of its own. *)
SlotMutant(t) == t

(* The buffer the reply of a call is read into. *)
Slot(t) == IF kind[t] = "verdict" THEN Shared ELSE t

(* No command and no reply is left on the device. *)
DeviceQuiet ==
  /\ ~dataAvailable
  /\ fw \in {"poll", "zlp"}
  /\ \A i \in DOMAIN banks : banks[i] = Zlp

NewHidDeviceMutant ==     \* Mutant: reports buffered before the close survive it
  /\ ev' = FALSE /\ ol' = "idle" /\ read_pending' = FALSE /\ read_buf' = Zero
  /\ readIrps' = 0 /\ writeIrps' = <<>> /\ UNCHANGED ring

NewHidDevice ==     \* new_hid_device: calloc and a non-signalled event
  /\ ev' = FALSE /\ ol' = "idle" /\ read_pending' = FALSE /\ read_buf' = Zero
  /\ readIrps' = 0 /\ writeIrps' = <<>> /\ ring' = <<>>

Init ==
  /\ g_mutex = NoThread
  /\ pc = [t \in Threads |-> "idle"]
  /\ kind = [t \in Threads |-> "value"]
  /\ req = [t \in Threads |-> 0]
  /\ issued = 0
  /\ result = [s \in Slots |-> Zero]
  /\ okay = [t \in Threads |-> FALSE]
  /\ handle = "closed"
  /\ ev = FALSE /\ ol = "idle" /\ read_pending = FALSE /\ read_buf = Zero
  /\ readIrps = 0 /\ writeIrps = <<>> /\ ring = <<>>
  /\ configured = FALSE
  /\ dataAvailable = FALSE /\ rawhidreadData = Zero
  /\ fw = "poll" /\ begun = Zero /\ rawhidwriteData = Zero /\ banks = <<>>
  /\ executed = {} /\ abandoned = FALSE

-----------------------------------------------------------------------------
(* kylin.c: opening and closing.  The critical section is entered and left *)
(* within one action: nothing they touch is used outside of it.            *)

(* The device is found if it is enumerated. *)
OpenDevice(t) ==
  /\ pc[t] = "idle" /\ g_mutex = NoThread /\ handle = "closed" /\ configured
  /\ handle' = "open"
  /\ NewHidDevice
  /\ abandoned' = (abandoned /\ ~DeviceQuiet)
  /\ UNCHANGED <<hostVars, devVars, executed>>

(* hid_close cancels what the driver still holds. *)
CloseDevice(t) ==
  /\ pc[t] = "idle" /\ g_mutex = NoThread /\ handle # "closed"
  /\ handle' = "closed"
  /\ NewHidDevice
  /\ UNCHANGED <<hostVars, devVars, executed, abandoned>>

-----------------------------------------------------------------------------
(* kylin.c and windows/hid.c: one call. *)

Goto(t, l) == pc' = [pc EXCEPT ![t] = l]

(* An API function builds its package.  It does not ask whether the device  *)
(* is open: only CheckDevice tells.                                         *)
Call(t, k) ==
  /\ pc[t] = "idle" /\ issued < MaxCalls
  /\ issued' = issued + 1
  /\ req' = [req EXCEPT ![t] = issued + 1]
  /\ kind' = [kind EXCEPT ![t] = k]
  /\ Goto(t, IF k = "verdict" THEN "clear" ELSE "enter")
  /\ UNCHANGED <<g_mutex, result, okay, handle, hidVars, drvVars, devVars,
                 executed, abandoned>>

(* memset(&result, ...) of the static, before the critical section. *)
Clear(t) ==
  /\ pc[t] = "clear"
  /\ result' = [result EXCEPT ![Shared] = Zero]
  /\ Goto(t, "enter")
  /\ UNCHANGED <<g_mutex, kind, req, issued, okay, handle, hidVars, drvVars,
                 devVars, executed, abandoned>>

(* Mutant: the critical section is not waited for. *)
EnterMutant(t) ==
  /\ pc[t] = "enter"
  /\ g_mutex' = t
  /\ Goto(t, "write")
  /\ UNCHANGED <<kind, req, issued, result, okay, handle, hidVars, drvVars,
                 devVars, executed, abandoned>>

Enter(t) ==
  /\ pc[t] = "enter" /\ g_mutex = NoThread
  /\ g_mutex' = t
  /\ Goto(t, "write")
  /\ UNCHANGED <<kind, req, issued, result, okay, handle, hidVars, drvVars,
                 devVars, executed, abandoned>>

(* Mutant: the event of the call before is not reset. *)
StartWriteMutant(t) ==
  /\ pc[t] = "write" /\ handle = "open"
  /\ ol' = "pending"
  /\ writeIrps' = Append(writeIrps, req[t])
  /\ Goto(t, "waitWrite")
  /\ UNCHANGED <<g_mutex, kind, req, issued, result, okay, handle, ev, read_pending,
                 read_buf, readIrps, ring, devVars, executed, abandoned>>

(* hid_write_timeout up to the wait: ResetEvent, WriteFile on dev->ol. *)
StartWrite(t) ==
  /\ pc[t] = "write" /\ handle = "open"
  /\ ev' = FALSE /\ ol' = "pending"
  /\ writeIrps' = Append(writeIrps, req[t])
  /\ Goto(t, "waitWrite")
  /\ UNCHANGED <<g_mutex, kind, req, issued, result, okay, handle, read_pending,
                 read_buf, readIrps, ring, devVars, executed, abandoned>>

(* WriteFile fails at once: the device behind the handle is gone. *)
FailWrite(t) ==
  /\ pc[t] = "write" /\ handle = "dead"
  /\ ev' = FALSE
  /\ okay' = [okay EXCEPT ![t] = FALSE]
  /\ Goto(t, "leave")
  /\ UNCHANGED <<g_mutex, kind, req, issued, result, handle, ol, read_pending,
                 read_buf, drvVars, devVars, executed, abandoned>>

(* The wait on the event ends; GetOverlappedResult reads dev->ol. *)
EndWrite(t) ==
  /\ pc[t] = "waitWrite" /\ ev
  /\ okay' = [okay EXCEPT ![t] = (ol = "done")]
  /\ Goto(t, IF ol = "done" THEN "read" ELSE "leave")
  /\ UNCHANGED <<g_mutex, kind, req, issued, result, handle, hidVars, drvVars,
                 devVars, executed, abandoned>>

(* 3 s pass: the write is left running and the call fails. *)
WriteTimeout(t) ==
  /\ pc[t] = "waitWrite" /\ ~ev
  /\ okay' = [okay EXCEPT ![t] = FALSE]
  /\ abandoned' = TRUE
  /\ Goto(t, "leave")
  /\ UNCHANGED <<g_mutex, kind, req, issued, result, handle, hidVars, drvVars,
                 devVars, executed>>

(* hid_read_timeout up to the wait.  A read left running by an earlier call *)
(* is not started again; a buffered report completes ReadFile at once.      *)
StartRead(t) ==
  /\ pc[t] = "read"
  /\ handle = "open" \/ read_pending
  /\ IF read_pending THEN UNCHANGED <<hidVars, readIrps, ring>>
     ELSE /\ read_pending' = TRUE
          /\ \/ /\ ring # <<>>
                /\ read_buf' = Head(ring) /\ ring' = Tail(ring)
                /\ ol' = "done" /\ ev' = TRUE
                /\ UNCHANGED readIrps
             \/ /\ ring = <<>>
                /\ read_buf' = Zero /\ readIrps' = readIrps + 1
                /\ ol' = "pending" /\ ev' = FALSE
                /\ UNCHANGED ring
  /\ Goto(t, "waitRead")
  /\ UNCHANGED <<g_mutex, kind, req, issued, result, okay, handle, writeIrps,
                 devVars, executed, abandoned>>

(* ReadFile fails at once: CancelIo, read_pending is taken back. *)
FailRead(t) ==
  /\ pc[t] = "read" /\ handle = "dead" /\ ~read_pending
  /\ read_buf' = Zero /\ ev' = FALSE
  /\ okay' = [okay EXCEPT ![t] = FALSE]
  /\ Goto(t, "leave")
  /\ UNCHANGED <<g_mutex, kind, req, issued, result, handle, ol, read_pending,
                 drvVars, devVars, executed, abandoned>>

(* Mutant: the outcome of GetOverlappedResult is ignored. *)
EndReadMutant(t) ==
  /\ pc[t] = "waitRead" /\ ev
  /\ read_pending' = FALSE
  /\ okay' = [okay EXCEPT ![t] = TRUE]
  /\ result' = [result EXCEPT ![Slot(t)] = read_buf]
  /\ Goto(t, "leave")
  /\ UNCHANGED <<g_mutex, kind, req, issued, handle, ev, ol, read_buf, drvVars,
                 devVars, executed, abandoned>>

(* The wait on the event ends and read_buf is copied to the caller. *)
EndRead(t) ==
  /\ pc[t] = "waitRead" /\ ev
  /\ read_pending' = FALSE
  /\ okay' = [okay EXCEPT ![t] = (ol = "done")]
  /\ result' = IF ol = "done" THEN [result EXCEPT ![Slot(t)] = read_buf] ELSE result
  /\ Goto(t, "leave")
  /\ UNCHANGED <<g_mutex, kind, req, issued, handle, ev, ol, read_buf, drvVars,
                 devVars, executed, abandoned>>

(* Mutant: the wait has no limit. *)
ReadTimeoutMutant(t) == pc[t] = "waitRead" /\ ~ev /\ UNCHANGED vars

(* 3 s pass: the read is left running, read_pending stays set. *)
ReadTimeout(t) ==
  /\ pc[t] = "waitRead" /\ ~ev
  /\ okay' = [okay EXCEPT ![t] = FALSE]
  /\ abandoned' = TRUE
  /\ Goto(t, "leave")
  /\ UNCHANGED <<g_mutex, kind, req, issued, result, handle, hidVars, drvVars,
                 devVars, executed>>

Leave(t) ==
  /\ pc[t] = "leave"
  /\ g_mutex' = NoThread
  /\ Goto(t, "return")
  /\ UNCHANGED <<kind, req, issued, result, okay, handle, hidVars, drvVars,
                 devVars, executed, abandoned>>

(* What the call reports, evaluated after LeaveCriticalSection: "verdict"  *)
(* calls look at the error byte of the static result, "value" calls do not.*)
Success(t) ==
  /\ okay[t]
  /\ kind[t] = "verdict" => result[Shared] \notin Refused

(* The package, the return value and the caller's buffer are gone.          *)
Return(t) ==
  /\ pc[t] = "return"
  /\ Goto(t, "idle")
  /\ kind' = [kind EXCEPT ![t] = "value"]
  /\ req' = [req EXCEPT ![t] = 0]
  /\ okay' = [okay EXCEPT ![t] = FALSE]
  /\ result' = [result EXCEPT ![t] = Zero]
  /\ UNCHANGED <<g_mutex, issued, handle, hidVars, drvVars, devVars, executed,
                 abandoned>>

(* The process ends, by a kill or by the NULL handle a call meets when the  *)
(* device was never opened or another thread has closed it; the driver      *)
(* cancels, the device goes on.                                             *)
Die ==
  /\ g_mutex' = NoThread
  /\ pc' = [t \in Threads |-> "idle"]
  /\ kind' = [t \in Threads |-> "value"]
  /\ req' = [t \in Threads |-> 0]
  /\ result' = [s \in Slots |-> Zero]
  /\ okay' = [t \in Threads |-> FALSE]
  /\ handle' = "closed"
  /\ NewHidDevice
  /\ abandoned' = (abandoned \/ ~DeviceQuiet \/ writeIrps # <<>>)
  /\ UNCHANGED <<issued, devVars, executed>>

Kill == handle # "closed" /\ Die

NullHandle(t) == pc[t] = "write" /\ handle = "closed" /\ Die

-----------------------------------------------------------------------------
(* The driver and the device. *)

(* SET_REPORT: the interrupt handler takes the report into the mailbox if   *)
(* it is empty and stalls the transfer if not; the write request completes. *)
SetReport ==
  /\ writeIrps # <<>> /\ configured
  /\ writeIrps' = Tail(writeIrps)
  /\ ev' = TRUE
  /\ IF dataAvailable
     THEN /\ ol' = "failed"
          /\ UNCHANGED <<dataAvailable, rawhidreadData>>
     ELSE /\ ol' = "done"
          /\ dataAvailable' = TRUE
          /\ rawhidreadData' = Head(writeIrps)
  /\ UNCHANGED <<hostVars, handle, read_pending, read_buf, readIrps, ring, configured,
                 fw, begun, rawhidwriteData, banks, executed, abandoned>>

(* The driver polls the IN endpoint of an open device and hands the report  *)
(* to the oldest read request or to the ring, which drops its oldest; an    *)
(* empty packet holds no report.                                            *)
InReport ==
  /\ handle = "open" /\ banks # <<>>
  /\ banks' = Tail(banks)
  /\ \/ /\ Head(banks) = Zlp
        /\ UNCHANGED <<readIrps, read_buf, ol, ev, ring>>
     \/ /\ Head(banks) # Zlp /\ readIrps > 0
        /\ readIrps' = readIrps - 1
        /\ read_buf' = Head(banks)
        /\ ol' = "done" /\ ev' = TRUE
        /\ UNCHANGED ring
     \/ /\ Head(banks) # Zlp /\ readIrps = 0
        /\ ring' = Append(IF Len(ring) < RingSize THEN ring ELSE Tail(ring),
                          Head(banks))
        /\ UNCHANGED <<readIrps, read_buf, ol, ev>>
  /\ UNCHANGED <<hostVars, handle, read_pending, writeIrps, configured,
                 dataAvailable, rawhidreadData, fw, begun, rawhidwriteData, executed,
                 abandoned>>

(* Mutant: the mailbox stays full. *)
FwReadMutant ==
  /\ fw = "poll" /\ dataAvailable
  /\ fw' = "exec" /\ begun' = rawhidreadData
  /\ UNCHANGED <<hostVars, handle, hidVars, drvVars, configured, dataAvailable,
                 rawhidreadData, rawhidwriteData, banks, executed, abandoned>>

(* loop() drains the mailbox with RawHID.read(): from here on the mailbox   *)
(* is open again although it still holds the command.                       *)
FwRead ==
  /\ fw = "poll" /\ dataAvailable
  /\ dataAvailable' = FALSE
  /\ fw' = "exec" /\ begun' = rawhidreadData
  /\ UNCHANGED <<hostVars, handle, hidVars, drvVars, configured, rawhidreadData,
                 rawhidwriteData, banks, executed, abandoned>>

(* The *Process handlers work on rawhidreadData itself: if the mailbox was  *)
(* filled again after FwRead, the handler may have read either command.     *)
FwExecute ==
  /\ fw = "exec"
  /\ fw' = "send" /\ begun' = Zero
  /\ \E c \in {begun, rawhidreadData} :
       /\ rawhidwriteData' = c
       /\ executed' = executed \cup {c}
  /\ UNCHANGED <<hostVars, handle, hidVars, drvVars, configured, dataAvailable,
                 rawhidreadData, banks, abandoned>>

(* USB_Send finds a free bank.  It looks for one for 250 ms, and gives up   *)
(* at once while the device is not configured.                              *)
BankFree == configured /\ Len(banks) < Banks

(* writeData, first part of USB_Send: the reply, or nothing at all.         *)
FwSend ==
  /\ fw = "send"
  /\ \/ BankFree /\ banks' = Append(banks, rawhidwriteData) /\ fw' = "zlp"
     \/ ~BankFree /\ fw' = "poll" /\ UNCHANGED banks
  /\ UNCHANGED <<hostVars, handle, hidVars, drvVars, configured, dataAvailable,
                 rawhidreadData, begun, rawhidwriteData, executed, abandoned>>

(* Mutant: the empty packet is written whether or not a bank is free. *)
FwSendZlpMutant ==
  /\ fw = "zlp"
  /\ fw' = "poll"
  /\ banks' = Append(banks, Zlp)
  /\ UNCHANGED <<hostVars, handle, hidVars, drvVars, configured, dataAvailable,
                 rawhidreadData, begun, rawhidwriteData, executed, abandoned>>

(* Second part: a reply of 64 bytes fills its bank, so USB_Send goes on to  *)
(* release an empty one.                                                    *)
FwSendZlp ==
  /\ fw = "zlp"
  /\ fw' = "poll"
  /\ banks' = IF BankFree THEN Append(banks, Zlp) ELSE banks
  /\ UNCHANGED <<hostVars, handle, hidVars, drvVars, configured, dataAvailable,
                 rawhidreadData, begun, rawhidwriteData, executed, abandoned>>

(* Every request the driver holds fails. *)
FailRequests ==
  /\ readIrps' = 0 /\ writeIrps' = <<>>
  /\ IF readIrps > 0 \/ writeIrps # <<>>
     THEN ev' = TRUE /\ ol' = "failed"
     ELSE UNCHANGED <<ev, ol>>

(* Unplugged, browned out, or reset by soft_reset after RESTART: the handle *)
(* never works again.                                                       *)
DeviceReset ==
  /\ configured' = FALSE
  /\ dataAvailable' = FALSE /\ rawhidreadData' = Zero
  /\ fw' = "poll" /\ begun' = Zero /\ rawhidwriteData' = Zero /\ banks' = <<>>
  /\ handle' = IF handle = "open" THEN "dead" ELSE handle
  /\ FailRequests
  /\ UNCHANGED <<hostVars, read_pending, read_buf, ring, executed, abandoned>>

(* The host resets the bus: the endpoints are emptied and the configuration *)
(* is gone, but mailbox and loop() go on.  The host may keep the device.    *)
BusReset ==
  /\ configured
  /\ configured' = FALSE /\ banks' = <<>>
  /\ handle' \in IF handle = "open" THEN {"open", "dead"} ELSE {handle}
  /\ FailRequests
  /\ UNCHANGED <<hostVars, read_pending, read_buf, ring, dataAvailable,
                 rawhidreadData, fw, begun, rawhidwriteData, executed>>
  /\ abandoned' = (abandoned \/ ~DeviceQuiet')

(* SET_CONFIGURATION *)
Configure ==
  /\ ~configured /\ configured' = TRUE /\ banks' = <<>>
  /\ UNCHANGED <<hostVars, handle, hidVars, drvVars, dataAvailable, rawhidreadData,
                 fw, begun, rawhidwriteData, executed, abandoned>>

-----------------------------------------------------------------------------
(* What one thread does inside a call. *)
ThreadStep(t) ==
  \/ Clear(t) \/ Enter(t)
  \/ StartWrite(t) \/ FailWrite(t) \/ EndWrite(t) \/ WriteTimeout(t)
  \/ StartRead(t) \/ FailRead(t) \/ EndRead(t) \/ ReadTimeout(t)
  \/ Leave(t) \/ Return(t) \/ NullHandle(t)

Next ==
  \/ \E t \in Threads :
       \/ OpenDevice(t) \/ CloseDevice(t)
       \/ \E k \in {"verdict", "value"} : Call(t, k)
       \/ ThreadStep(t)
  \/ Kill
  \/ SetReport \/ InReport \/ FwRead \/ FwExecute \/ FwSend \/ FwSendZlp
  \/ DeviceReset \/ BusReset \/ Configure

Spec == Init /\ [][Next]_vars

(* Fairness: threads are scheduled and the waits of 3 s end.  Nothing is    *)
(* assumed of the device.                                                   *)
FairSpec == Spec /\ \A t \in Threads : WF_vars(ThreadStep(t))

-----------------------------------------------------------------------------
(* Properties. *)

Locations == {"idle", "clear", "enter", "write", "waitWrite", "read",
              "waitRead", "leave", "return"}
Critical == {"write", "waitWrite", "read", "waitRead", "leave"}

(* Types: every variable of the host, driver and firmware keeps its shape,  *)
(* and the endpoint and the ring never hold more than they have room for.   *)
TypeOK ==
  /\ g_mutex \in Threads \cup {NoThread}
  /\ pc \in [Threads -> Locations]
  /\ kind \in [Threads -> {"verdict", "value"}]
  /\ req \in [Threads -> Nat]
  /\ issued \in Nat
  /\ result \in [Slots -> Nat]
  /\ okay \in [Threads -> BOOLEAN]
  /\ handle \in {"closed", "open", "dead"}
  /\ ev \in BOOLEAN
  /\ ol \in {"idle", "pending", "done", "failed"}
  /\ read_pending \in BOOLEAN
  /\ read_buf \in Nat
  /\ readIrps \in Nat
  /\ writeIrps \in Seq(Nat)
  /\ ring \in Seq(Nat) /\ Len(ring) <= RingSize
  /\ configured \in BOOLEAN
  /\ dataAvailable \in BOOLEAN
  /\ rawhidreadData \in Nat
  /\ fw \in {"poll", "exec", "send", "zlp"}
  /\ begun \in Nat
  /\ rawhidwriteData \in Nat
  /\ banks \in Seq(Nat) /\ Len(banks) <= Banks
  /\ executed \subseteq Nat
  /\ abandoned \in BOOLEAN

(* As long as no exchange was given up, a successful SendAndWaitResult      *)
(* hands its caller the reply to its own command although nothing in the    *)
(* transport, the mailbox or the reply says which command is answered.      *)
OwnAnswer ==
  \A t \in Threads :
    pc[t] = "leave" /\ kind[t] = "value" /\ okay[t] /\ ~abandoned
      => result[t] = req[t]

(* As long as no exchange was given up, a call whose transport succeeded    *)
(* has been carried out by the firmware before the call leaves the          *)
(* critical section, by whichever path its reply travelled.                 *)
SuccessWasExecuted ==
  \A t \in Threads :
    pc[t] = "leave" /\ okay[t] /\ ~abandoned => req[t] \in executed

(* As long as no exchange was given up, loop() carries out exactly the      *)
(* command it dispatched on, and never one it has carried out before: the   *)
(* mailbox that doubles as command buffer is not refilled under it.         *)
ExecutesOnce ==
  [][fw = "exec" /\ fw' = "send" /\ ~abandoned
       => begun \notin executed /\ executed' = executed \cup {begun}]_vars

(* With one thread and no exchange given up, the verdict a call returns is  *)
(* the error byte of the reply to that call.                                *)
OwnVerdict ==
  \A t \in Threads :
    pc[t] = "return" /\ kind[t] = "verdict" /\ okay[t] /\ ~abandoned
      => (Success(t) <=> req[t] \notin Refused)

(* A device that goes away, a lost reply and a stalled report end every     *)
(* call: no thread waits for ever and none keeps the critical section.      *)
CallReturns ==
  \A t \in Threads : pc[t] # "idle" ~> pc[t] = "idle"

(* hidapi.h says that hid_read_timeout returns 0 if no packet was available *)
(* in time: a read that succeeds has delivered a packet of the device.      *)
PacketWasRead ==
  \A t \in Threads :
    pc[t] = "leave" /\ kind[t] = "value" /\ okay[t] => result[t] # Zero

(* The pieces of the invariant that makes the properties above hold.  c is  *)
(* the command of the thread in the critical section.                       *)
BankHas(c) ==
  \E i \in DOMAIN banks :
    /\ banks[i] = c
    /\ \A j \in DOMAIN banks : j # i => banks[j] = Zlp

NoReplyInBank == \A i \in DOMAIN banks : banks[i] = Zlp

(* The device holds c, in one place: mailbox, command buffer, reply, bank.  *)
DeviceHas(c) ==
  \/ /\ dataAvailable /\ rawhidreadData = c /\ c \notin executed
     /\ fw \in {"poll", "zlp"} /\ NoReplyInBank
  \/ /\ ~dataAvailable /\ rawhidreadData = c /\ begun = c /\ c \notin executed
     /\ fw = "exec" /\ NoReplyInBank
  \/ /\ ~dataAvailable /\ rawhidwriteData = c /\ c \in executed
     /\ fw = "send" /\ NoReplyInBank
  \/ /\ ~dataAvailable /\ c \in executed
     /\ fw \in {"poll", "zlp"} /\ BankHas(c)

NothingInFlight ==
  /\ writeIrps = <<>> /\ readIrps = 0 /\ ~read_pending
  /\ DeviceQuiet
  /\ ring = <<>> \/ handle = "dead"

Accepted(c) ==     \* the device has taken c; its reply may have been given up
  \/ DeviceHas(c) /\ ring = <<>>
  \/ DeviceQuiet /\ ring = <<>>
  \/ DeviceQuiet /\ ring = <<c>> /\ c \in executed

Exchange(l, c) ==
  CASE l = "waitWrite" ->
         /\ readIrps = 0 /\ ~read_pending
         /\ \/ /\ writeIrps = <<c>> /\ ~ev /\ c \notin executed
               /\ DeviceQuiet /\ ring = <<>>
            \/ writeIrps = <<>> /\ ev /\ ol = "done" /\ Accepted(c)
            \/ writeIrps = <<>> /\ ev /\ ol = "failed" /\ DeviceQuiet /\ ring = <<>>
    [] l = "read" -> writeIrps = <<>> /\ readIrps = 0 /\ ~read_pending /\ Accepted(c)
    [] l = "waitRead" ->
         /\ writeIrps = <<>> /\ read_pending /\ ring = <<>>
         /\ \/ readIrps = 1 /\ ~ev /\ (DeviceHas(c) \/ DeviceQuiet)
            \/ /\ readIrps = 0 /\ ev /\ ol = "done"
               /\ read_buf = c /\ c \in executed /\ DeviceQuiet
            \/ readIrps = 0 /\ ev /\ ol = "failed" /\ DeviceQuiet
    [] OTHER -> NothingInFlight

(* As long as no exchange was given up, all that is in flight anywhere in   *)
(* the driver and the device is the command of the thread in the critical   *)
(* section or its reply, in one place; outside of it nothing is in flight.  *)
OneInFlight ==
  ~abandoned =>
    IF g_mutex = NoThread THEN NothingInFlight
    ELSE Exchange(pc[g_mutex], req[g_mutex])

(* Refinement: for its callers the link is the service of CommandService.   *)
CallState(t) ==
  CASE pc[t] = "idle" -> "idle"
    [] pc[t] \in {"leave", "return"} -> IF okay[t] THEN "succeeded" ELSE "failed"
    [] OTHER -> "waiting"

Service == INSTANCE CommandService
  WITH call <- [t \in Threads |-> CallState(t)], cmd <- req,
       applied <- executed, lossy <- abandoned

(* Each call applies its own command, once, between its start and its end,  *)
(* unless an exchange was given up before and the device not reopened quiet. *)
ImplementsService == Service!Spec

=============================================================================
